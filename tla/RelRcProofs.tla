---------------------------- MODULE RelRcProofs -----------------------------
(***************************************************************************)
(* Proofs about RelRc, for any sets of addresses, handles, weak slots,     *)
(* registries and ids, and any bound on the number of parents.  The graph  *)
(* is sound, and its nodes are collected as ownership says.                *)
(***************************************************************************)
EXTENDS RelRc, TLAPS

-----------------------------------------------------------------------------
(* Sequences *)

\* What a step of the drop glue, and the start of a new frame, do to the
\* elements of a sequence.
LEMMA PushElements ==
  ASSUME NEW S, NEW s \in Seq(S), NEW x \in S
  PROVE  /\ <<x>> \o s \in Seq(S)
         /\ Range(<<x>> \o s) = Range(s) \cup {x}
<1>. DEFINE t == <<x>> \o s
<1>1. /\ t \in Seq(S) /\ Len(t) = Len(s) + 1 /\ t[1] = x
      /\ \A i \in 1 .. Len(s) : t[i + 1] = s[i]
  OBVIOUS
<1>2. DOMAIN t = 1 .. Len(s) + 1 /\ DOMAIN s = 1 .. Len(s) /\ Len(s) \in Nat
  BY <1>1
<1>. HIDE DEF t
<1>3. Range(t) \subseteq Range(s) \cup {x}
  <2>. SUFFICES ASSUME NEW i \in 1 .. Len(s) + 1 PROVE t[i] \in Range(s) \cup {x}
    BY <1>2 DEF Range
  <2>1. CASE i = 1
    BY <2>1, <1>1
  <2>2. CASE i # 1
    <3>1. i - 1 \in 1 .. Len(s) /\ t[i] = s[i - 1]
      BY <2>2, <1>1, <1>2
    <3>. QED BY <3>1, <1>2 DEF Range
  <2>. QED BY <2>1, <2>2
<1>4. Range(s) \cup {x} \subseteq Range(t)
  <2>1. x \in Range(t)
    BY <1>1, <1>2 DEF Range
  <2>2. \A i \in 1 .. Len(s) : s[i] \in Range(t)
    <3>. TAKE i \in 1 .. Len(s)
    <3>1. i + 1 \in DOMAIN t /\ t[i + 1] = s[i]
      BY <1>1, <1>2
    <3>. QED BY <3>1 DEF Range
  <2>. QED BY <2>1, <2>2, <1>2 DEF Range
<1>. QED BY <1>1, <1>3, <1>4 DEF t

\* The elements of a sequence are its head and those of its tail: what dropping
\* the next edge, or ending a frame, takes away.
LEMMA TailElements ==
  ASSUME NEW S, NEW s \in Seq(S), s # <<>>
  PROVE  /\ Head(s) \in S /\ Tail(s) \in Seq(S)
         /\ Range(s) = Range(Tail(s)) \cup {Head(s)}
<1>. DEFINE t == Tail(s)
<1>1. /\ t \in Seq(S) /\ Len(t) = Len(s) - 1 /\ Head(s) = s[1] /\ Head(s) \in S
      /\ \A i \in 1 .. Len(t) : t[i] = s[i + 1]
  OBVIOUS
<1>2. DOMAIN t = 1 .. Len(s) - 1 /\ DOMAIN s = 1 .. Len(s) /\ Len(s) \in Nat /\ Len(s) # 0
  BY <1>1
<1>. HIDE DEF t
<1>3. Range(s) \subseteq Range(t) \cup {Head(s)}
  <2>. SUFFICES ASSUME NEW i \in 1 .. Len(s) PROVE s[i] \in Range(t) \cup {Head(s)}
    BY <1>2 DEF Range
  <2>1. CASE i = 1
    BY <2>1, <1>1
  <2>2. CASE i # 1
    <3>1. i - 1 \in DOMAIN t /\ t[i - 1] = s[i]
      BY <2>2, <1>1, <1>2
    <3>. QED BY <3>1 DEF Range
  <2>. QED BY <2>1, <2>2
<1>4. Range(t) \cup {Head(s)} \subseteq Range(s)
  <2>1. Head(s) \in Range(s)
    BY <1>1, <1>2 DEF Range
  <2>2. \A i \in 1 .. Len(t) : t[i] \in Range(s)
    <3>. TAKE i \in 1 .. Len(t)
    <3>1. i + 1 \in DOMAIN s /\ s[i + 1] = t[i]
      BY <1>1, <1>2
    <3>. QED BY <3>1 DEF Range
  <2>. QED BY <2>1, <2>2, <1>1, <1>2 DEF Range
<1>. QED BY <1>1, <1>3, <1>4 DEF t

-----------------------------------------------------------------------------
(* Type correctness *)

\* Registry::add_node keeps the types of the two maps.
LEMMA AddNodeToType ==
  ASSUME RegistryTypeOK, NEW r \in Registries, NEW a \in Addr,
         AddNodeTo(r, a), UNCHANGED regs
  PROVE  RegistryTypeOK'
<1>1. CASE UNCHANGED <<nodes, ptr_to_id, issued>>
  BY <1>1 DEF RegistryTypeOK
<1>2. ASSUME NEW id \in NodeId,
             nodes' = [nodes EXCEPT ![r][id] = a],
             ptr_to_id' = [ptr_to_id EXCEPT ![r][a] = id],
             issued' = [issued EXCEPT ![r] = @ \cup {id}]
      PROVE  RegistryTypeOK'
  BY <1>2 DEF RegistryTypeOK
<1>. QED BY <1>1, <1>2 DEF AddNodeTo, FreshKey

\* Registry::remove keeps the types of the two maps.
LEMMA RemoveFromType ==
  ASSUME RegistryTypeOK, NEW r \in Registries, NEW id \in NodeId,
         RemoveFrom(r, id), UNCHANGED regs
  PROVE  RegistryTypeOK'
BY DEF RegistryTypeOK, RemoveFrom

\* Registry::free_node_ids keeps the types of the two maps.
LEMMA FreeDeadType ==
  ASSUME RegistryTypeOK, NEW r \in Registries, FreeDead(r, live), UNCHANGED regs
  PROVE  RegistryTypeOK'
BY DEF RegistryTypeOK, FreeDead

\* The slots and fields of RelRc keep their types in every step.
LEMMA TypeStep == TypeOK /\ [Next]_vars => TypeOK'
<1>. SUFFICES ASSUME TypeOK, [Next]_vars PROVE TypeOK'
  OBVIOUS
<1>. USE DEF TypeOK
<1>1. CASE UseNodes(Handle)
  <2>1. ASSUME NEW h \in Handle, NEW n \in Addr, NEW k \in 0 .. MaxParents,
               NEW parents \in [1 .. k -> Held], WithParents(h, n, parents)
        PROVE  TypeOK'
    <3>1. parents \in Seq(Addr) /\ DOMAIN parents \subseteq 1 .. MaxParents
      BY MaxParentsAssumption DEF Held, Range
    <3>2. outgoing' \in [Addr -> SUBSET WeakEdge]
      BY <2>1, <3>1 DEF WithParents, RegisterOutgoingEdges, WeakEdge
    <3>. QED BY <2>1, <3>1, <3>2, Zenon DEF WithParents, RegistryTypeOK, registryVars
  <2>2. ASSUME NEW h \in Handle, NEW a \in Addr, Acquire(h, a),
               outgoing' \in [Addr -> SUBSET WeakEdge]
        PROVE  TypeOK'
    BY <2>2 DEF Acquire, RegistryTypeOK, registryVars
  <2>3. ASSUME NEW w \in Weak, NEW a \in Addr \cup {Null}, SetWeak(w, a)
        PROVE  TypeOK'
    BY <2>3 DEF SetWeak, RegistryTypeOK, registryVars
  <2>. QED
    <3>1. ASSUME NEW h \in Handle, NEW g \in Handle, Clone(h, g) PROVE TypeOK'
      BY <3>1, <2>2 DEF Clone
    <3>2. ASSUME NEW h \in Handle, NEW g \in Handle, NEW i \in 1 .. MaxParents, TakeParent(h, g, i)
          PROVE  TypeOK'
      <4>1. incoming[ptr[g]][i] \in Addr
        BY <3>2 DEF TakeParent
      <4>. QED BY <3>2, <4>1, <2>2, Zenon DEF TakeParent
    <3>3. ASSUME NEW h \in Handle, NEW w \in Weak, Upgrade(h, w) PROVE TypeOK'
      BY <3>3, <2>2 DEF Upgrade
    <3>4. ASSUME NEW g \in Handle, AllOutgoing(g) PROVE TypeOK'
      BY <3>4 DEF AllOutgoing, Retained, RegistryTypeOK, registryVars
    <3>5. ASSUME NEW h \in Handle, NEW g \in Handle, NEW e \in WeakEdge, TakeChild(h, g, e)
          PROVE  TypeOK'
      <4>1. e.target \in Addr /\ outgoing' \in [Addr -> SUBSET WeakEdge]
        BY <3>5 DEF TakeChild, Retained, WeakEdge
      <4>. QED BY <3>5, <4>1, <2>2, Zenon DEF TakeChild
    <3>6. ASSUME NEW h \in Handle, DropHandle(h) PROVE TypeOK'
      BY <3>6 DEF DropHandle, RegistryTypeOK, registryVars
    <3>7. ASSUME NEW w \in Weak, NEW h \in Handle, Downgrade(w, h) PROVE TypeOK'
      BY <3>7, <2>3 DEF Downgrade
    <3>8. ASSUME NEW w \in Weak, NEW h \in Handle, NEW e \in WeakEdge, TakeWeakEdge(w, h, e)
          PROVE  TypeOK'
      BY <3>8, <2>3, Zenon DEF TakeWeakEdge, WeakEdge
    <3>9. ASSUME NEW w \in Weak, DropWeak(w) PROVE TypeOK'
      BY <3>9, <2>3 DEF DropWeak
    <3>. QED BY <1>1, <2>1, <3>1, <3>2, <3>3, <3>4, <3>5, <3>6, <3>7, <3>8, <3>9, Zenon DEF UseNodes
<1>2. CASE UseRegistries(Handle) \/ GiveUp
  <2>1. ASSUME NEW r \in Registries, NewRegistry(r) PROVE TypeOK'
    BY <2>1 DEF NewRegistry, CreateRegistry, RegistryTypeOK, heapVars
  <2>2. ASSUME NEW r \in Registries, DropRegistry(r) PROVE TypeOK'
    BY <2>2 DEF DropRegistry, DestroyRegistry, RegistryTypeOK, heapVars, NoNodes, NoPtrs
  <2>3. ASSUME NEW r \in Registries, NEW h \in Handle, TryRegisterIn(h, r) PROVE TypeOK'
    <3>1. RegistryTypeOK'
      BY <2>3, AddNodeToType DEF TryRegisterIn
    <3>. QED BY <2>3, <3>1 DEF TryRegisterIn
  <2>4. ASSUME NEW r \in Registries, NEW id \in NodeId, Remove(r, id) PROVE TypeOK'
    BY <2>4, RemoveFromType DEF Remove, heapVars
  <2>5. ASSUME NEW r \in Registries, FreeNodeIds(r) PROVE TypeOK'
    BY <2>5, FreeDeadType DEF FreeNodeIds, heapVars
  <2>6. ASSUME NEW h \in Handle, NEW r \in Registries, NEW id \in NodeId, Get(h, r, id) PROVE TypeOK'
    <3>1. nodes[r][id] \in Addr
      BY <2>6 DEF Get
    <3>. QED BY <2>6, <3>1 DEF Get, Acquire, RegistryTypeOK, registryVars
  <2>. QED BY <1>2, <2>1, <2>2, <2>3, <2>4, <2>5, <2>6 DEF UseRegistries, GiveUp
<1>3. CASE AddUntracked
  <2>1. ASSUME NEW r \in Registries, NEW h \in Handle, AddNode(r, h) PROVE TypeOK'
    BY <2>1, AddNodeToType DEF AddNode, heapVars
  <2>2. ASSUME NEW r \in Registries, NEW s \in Registries, CloneRegistry(r, s) PROVE TypeOK'
    BY <2>2 DEF CloneRegistry, CopyRegistry, RegistryTypeOK, heapVars
  <2>. QED BY <1>3, <2>1, <2>2 DEF AddUntracked
<1>4. CASE Destroy
  <2>1. CASE DropShared
    BY <2>1 DEF DropShared, RegistryTypeOK, registryVars
  <2>2. CASE DropLast
    <3>1. teardown' \in Seq(Addr)
      BY <2>2, PushElements DEF DropLast
    <3>2. RegistryTypeOK'
      <4>1. dropping \in Addr /\ Deregister(dropping) /\ UNCHANGED regs
        BY <2>2 DEF DropLast
      <4>2. CASE registry[dropping] \in regs /\ GetId(registry[dropping], dropping) # Null
        <5>1. registry[dropping] \in Registries /\ GetId(registry[dropping], dropping) \in NodeId
          BY <4>1, <4>2 DEF GetId, RegistryTypeOK
        <5>. QED BY <4>1, <4>2, <5>1, RemoveFromType DEF Deregister
      <4>3. CASE ~(registry[dropping] \in regs /\ GetId(registry[dropping], dropping) # Null)
        BY <4>1, <4>3 DEF Deregister, RegistryTypeOK
      <4>. QED BY <4>2, <4>3
    <3>. QED BY <2>2, <3>1, <3>2 DEF DropLast
  <2>3. ASSUME NEW a \in Addr, DropFields(a) PROVE TypeOK'
    <3>1. CASE DropNextEdge(a)
      <4>1. Head(incoming[a]) \in Addr /\ Tail(incoming[a]) \in Seq(Addr)
        BY <3>1, TailElements DEF DropNextEdge
      <4>. QED BY <3>1, <4>1 DEF DropNextEdge, RegistryTypeOK, registryVars
    <3>2. CASE DropOutgoing(a)
      <4>1. Tail(teardown) \in Seq(Addr)
        BY <2>3, TailElements DEF DropFields
      <4>. QED BY <3>2, <4>1 DEF DropOutgoing, RegistryTypeOK, registryVars
    <3>. QED BY <2>3, <3>1, <3>2 DEF DropFields
  <2>. QED BY <1>4, <2>1, <2>2, <2>3 DEF Destroy
<1>5. CASE UNCHANGED vars
  BY <1>5 DEF vars, heapVars, registryVars, RegistryTypeOK
<1>. QED BY <1>1, <1>2, <1>3, <1>4, <1>5, Zenon DEF Next, TrackedNext

-----------------------------------------------------------------------------
(* The graph *)

\* The inductive invariant of the graph.  None of the four conjuncts that the
\* runs check is inductive by itself: AncestorsAlive needs Accounted to know
\* that the node destroyed is not owned and that new nodes start empty,
\* EdgesAgree needs it to know that only dead nodes lose edges.
GraphInv == TypeOK /\ AncestorsAlive /\ Accounted /\ EdgesAgree /\ Acyclic

\* Taking parents away creates no cycle.
LEMMA StaysAcyclic ==
  ASSUME Acyclic, \A c \in Addr : Parents(c)' \subseteq Parents(c)
  PROVE  Acyclic'
<1>. SUFFICES ASSUME NEW G \in SUBSET Addr, G # {}
              PROVE  \E a \in G : \A c \in G : a \notin Parents(c)'
  BY Zenon DEF Acyclic
<1>1. PICK a \in G : \A c \in G : a \notin Parents(c)
  BY Zenon DEF Acyclic
<1>. QED BY <1>1, Zenon

\* Steps that leave the nodes alone: the program may get hold of more
\* references to live nodes, all_outgoing may prune weak edges that no longer
\* upgrade, and the registry field of live nodes may be set.
LEMMA UseKeepsGraph ==
  ASSUME GraphInv, TypeOK',
         UNCHANGED <<live, incoming, dropping, teardown>>,
         \A p \in Addr : outgoing'[p] \subseteq outgoing[p] /\ Retained(p) \subseteq outgoing'[p],
         \A a \in Addr \ live : registry'[a] = registry[a],
         \A h \in Handle : ptr'[h] = ptr[h] \/ (ptr[h] = Null /\ ptr'[h] \in live)
  PROVE  GraphInv'
<1>. USE DEF GraphInv
<1>1. \A c \in Addr : Parents(c)' = Parents(c)
  BY DEF Parents
<1>2. \A h \in Handle : ptr[h] # Null => ptr'[h] = ptr[h]
  BY DEF TypeOK
<1>3. \A h \in Handle : ptr'[h] = ptr[h] \/ ptr'[h] \in live
  BY DEF TypeOK
<1>4. AncestorsAlive'
  <2>1. Held' \subseteq live
    BY <1>3 DEF AncestorsAlive, Held, Range, TypeOK
  <2>. QED BY <2>1, <1>1 DEF AncestorsAlive
<1>5. Accounted'
  <2>1. \A a \in live : Owned(a) => Owned(a)'
    BY <1>1, <1>2, NullAssumption DEF Owned, TypeOK
  <2>2. \A a \in Addr \ live : outgoing[a] = {} => outgoing'[a] = {}
    OBVIOUS
  <2>3. \A a : InTeardown(a)' <=> InTeardown(a)
    BY Zenon DEF InTeardown
  <2>. QED BY <2>1, <2>2, <2>3 DEF Accounted
<1>6. EdgesAgree'
  <2>1. ASSUME NEW p \in Addr, NEW e \in outgoing'[p], e.target \in live
        PROVE  e.index \in DOMAIN incoming[e.target] /\ incoming[e.target][e.index] = p
    BY <2>1 DEF EdgesAgree
  <2>2. ASSUME NEW c \in live, NEW i \in DOMAIN incoming[c]
        PROVE  [target |-> c, index |-> i] \in outgoing'[incoming[c][i]]
    <3>1. incoming[c][i] \in Addr /\ [target |-> c, index |-> i] \in outgoing[incoming[c][i]]
      BY <2>2 DEF EdgesAgree, TypeOK
    <3>. QED BY <3>1, Zenon DEF Retained
  <2>. QED BY <2>1, <2>2, Zenon DEF EdgesAgree
<1>7. Acyclic'
  BY <1>1, StaysAcyclic, Zenon
<1>. QED BY <1>4, <1>5, <1>6, <1>7

\* A new node takes a free address, which no reference names and whose fields
\* are empty, so its edges are the only ones that mention it.
LEMMA WithParentsKeepsGraph ==
  ASSUME GraphInv, TypeOK',
         NEW h \in Handle, NEW n \in Addr, NEW k \in 0 .. MaxParents,
         NEW parents \in [1 .. k -> Held], WithParents(h, n, parents)
  PROVE  GraphInv'
<1>. USE DEF GraphInv
<1>1. /\ n \notin live /\ ~InTeardown(n) /\ Free(n)
      /\ incoming[n] = <<>> /\ outgoing[n] = {}
  BY DEF WithParents, Free, Accounted
<1>2. /\ dropping = Null /\ dropping' = Null /\ teardown' = teardown
      /\ live' = live \cup {n} /\ ptr[h] = Null /\ ptr' = [ptr EXCEPT ![h] = n]
      /\ incoming' = [incoming EXCEPT ![n] = parents]
      /\ outgoing' = RegisterOutgoingEdges(n, parents)
  BY DEF WithParents, Running
<1>3. Range(parents) \subseteq live /\ DOMAIN parents = 1 .. k
  BY DEF AncestorsAlive, Range
<1>4. \A c \in Addr : c # n => Parents(c)' = Parents(c) /\ incoming'[c] = incoming[c]
  BY <1>2 DEF Parents, TypeOK
<1>5. Parents(n)' = Range(parents) /\ incoming'[n] = parents
  BY <1>2 DEF Parents, TypeOK
<1>6. \A c \in Addr : n \notin Parents(c)'
  BY <1>1, <1>3, <1>4, <1>5 DEF AncestorsAlive
<1>7. AncestorsAlive'
  <2>1. Held' \subseteq Held \cup {n}
    BY <1>2 DEF Held, Range, TypeOK
  <2>. QED BY <2>1, <1>2, <1>3, <1>4, <1>5 DEF AncestorsAlive
<1>8. Accounted'
  <2>1. \A a \in live : Owned(a)'
    <3>. TAKE a \in live
    <3>1. Owned(a)
      BY <1>2, NullAssumption DEF Accounted, TypeOK
    <3>2. CASE \E g \in Handle : ptr[g] = a
      BY <3>2, <1>2, NullAssumption DEF Owned, TypeOK
    <3>3. CASE \E c \in Addr : a \in Parents(c)
      <4>1. PICK c \in Addr : a \in Parents(c)
        BY <3>3
      <4>2. c # n
        BY <4>1, <1>1 DEF Parents, Range
      <4>. QED BY <4>1, <4>2, <1>4 DEF Owned
    <3>. QED BY <3>1, <3>2, <3>3 DEF Owned
  <2>2. Owned(n)'
    BY <1>2 DEF Owned, TypeOK
  <2>3. \A a : InTeardown(a)' <=> InTeardown(a)
    BY <1>2 DEF InTeardown
  <2>4. \A a \in Addr \ live' : registry'[a] = Null
    BY <1>2, Zenon DEF WithParents, Accounted, TypeOK
  <2>5. \A a \in Addr \ live' : ~InTeardown(a) => incoming'[a] = <<>> /\ outgoing'[a] = {}
    <3>. TAKE a \in Addr \ live'
    <3>. HAVE ~InTeardown(a)
    <3>1. a # n /\ a \notin live /\ incoming[a] = <<>> /\ outgoing[a] = {}
      BY <1>2, Zenon DEF Accounted
    <3>2. \A j \in DOMAIN parents : parents[j] # a
      BY <3>1, <1>3, Zenon DEF Range
    <3>3. outgoing'[a] = {}
      BY <3>1, <3>2, <1>2, Zenon DEF RegisterOutgoingEdges
    <3>. QED BY <3>1, <3>3, <1>4, Zenon
  <2>. QED BY <2>1, <2>2, <2>3, <2>4, <2>5, <1>1, <1>2, Zenon DEF Accounted
<1>9. EdgesAgree'
  <2>1. ASSUME NEW p \in Addr, NEW e \in outgoing'[p], e.target \in live'
        PROVE  e.index \in DOMAIN incoming'[e.target] /\ incoming'[e.target][e.index] = p
    <3>1. CASE e \in outgoing[p]
      <4>1. e.target # n
        BY <3>1, <1>1, Zenon DEF Free
      <4>2. e.target \in live /\ e.target \in Addr
        BY <4>1, <2>1, <1>2, Zenon DEF TypeOK
      <4>. QED BY <4>1, <4>2, <3>1, <1>4, Zenon DEF EdgesAgree
    <3>2. CASE e \notin outgoing[p]
      <4>1. PICK i \in DOMAIN parents : parents[i] = p /\ e = [target |-> n, index |-> i]
        BY <3>2, <2>1, <1>2, Zenon DEF RegisterOutgoingEdges
      <4>. QED BY <4>1, <1>5, Zenon
    <3>. QED BY <3>1, <3>2, ZenonT(30)
  <2>2. ASSUME NEW c \in live', NEW i \in DOMAIN incoming'[c]
        PROVE  [target |-> c, index |-> i] \in outgoing'[incoming'[c][i]]
    <3>1. CASE c = n
      <4>1. i \in DOMAIN parents /\ incoming'[c][i] = parents[i] /\ parents[i] \in Addr
        BY <3>1, <1>3, <1>5, <2>2, ZenonT(30) DEF Range, TypeOK
      <4>. QED BY <4>1, <3>1, <1>2, Zenon DEF RegisterOutgoingEdges
    <3>2. CASE c # n
      <4>1. c \in live /\ c \in Addr /\ incoming'[c] = incoming[c]
        BY <3>2, <2>2, <1>2, <1>4, Zenon DEF TypeOK
      <4>2. incoming[c][i] \in Addr /\ [target |-> c, index |-> i] \in outgoing[incoming[c][i]]
        <5>1. incoming[c] \in Seq(Addr) /\ i \in DOMAIN incoming[c]
          BY <4>1, <2>2, Zenon DEF TypeOK
        <5>2. incoming[c][i] \in Addr
          BY <5>1
        <5>. QED BY <4>1, <5>1, <5>2, Zenon DEF EdgesAgree
      <4>. QED BY <4>1, <4>2, <1>2, Zenon DEF RegisterOutgoingEdges
    <3>. QED BY <3>1, <3>2, Zenon
  <2>. QED BY <2>1, <2>2, Zenon DEF EdgesAgree
<1>10. Acyclic'
  <2>. SUFFICES ASSUME NEW G \in SUBSET Addr, G # {}
                PROVE  \E a \in G : \A c \in G : a \notin Parents(c)'
    BY DEF Acyclic
  <2>1. CASE n \in G
    BY <2>1, <1>6
  <2>2. CASE n \notin G
    <3>1. PICK a \in G : \A c \in G : a \notin Parents(c)
      BY Zenon DEF Acyclic
    <3>. QED BY <3>1, <2>2, <1>4, Zenon
  <2>. QED BY <2>1, <2>2, Zenon
<1>. QED BY <1>7, <1>8, <1>9, <1>10

\* A reference moves from its slot to the drop in progress, while others may
\* be taken and the registry field of live nodes may be set.  A drop that was in
\* progress is over, its node being owned by someone else.
LEMMA HandOverKeepsGraph ==
  ASSUME GraphInv, TypeOK',
         UNCHANGED <<live, incoming, outgoing, teardown>>,
         \A a \in Addr \ live : registry'[a] = registry[a],
         \A h \in Handle :
           \/ ptr'[h] = ptr[h]
           \/ ptr[h] = Null /\ ptr'[h] \in live
           \/ ptr'[h] = Null /\ dropping' = ptr[h],
         dropping' = Null \/ \E h \in Handle : dropping' = ptr[h],
         dropping # Null => dropping' = Null /\ Owned(dropping) /\ ptr' = ptr
  PROVE  GraphInv'
<1>. USE DEF GraphInv
<1>1. \A h \in Handle : ptr[h] # Null => ptr'[h] = ptr[h] \/ dropping' = ptr[h]
  BY Zenon
<1>2. \A c \in Addr : Parents(c)' = Parents(c)
  BY DEF Parents
<1>3. AncestorsAlive'
  <2>1. Held' \subseteq live
    BY DEF AncestorsAlive, Held, Range, TypeOK
  <2>. QED BY <2>1, <1>2, Zenon DEF AncestorsAlive
<1>4. Accounted'
  <2>0. \A a \in live : a # Null
    BY NullAssumption DEF TypeOK
  <2>1. \A a \in live : Owned(a) => Owned(a)' \/ a = dropping'
    BY <1>1, <1>2, <2>0, Zenon DEF Owned
  <2>2. dropping' # Null => dropping' \in live
    BY Zenon DEF AncestorsAlive, Held, Range, TypeOK
  <2>3. \A a \in live : Owned(a)' \/ a = dropping'
    <3>. TAKE a \in live
    <3>1. CASE dropping = a
      <4>1. Owned(a) /\ ptr' = ptr
        BY <3>1, <2>0, Zenon
      <4>. QED BY <4>1, <1>2, Zenon DEF Owned
    <3>2. CASE dropping # a
      BY <3>2, <2>1, Zenon DEF Accounted
    <3>. QED BY <3>1, <3>2, Zenon
  <2>4. \A a : InTeardown(a)' <=> InTeardown(a)
    BY ZenonT(30) DEF InTeardown
  <2>. QED BY <2>2, <2>3, <2>4, ZenonT(30) DEF Accounted
<1>5. EdgesAgree'
  BY Zenon DEF EdgesAgree
<1>6. Acyclic'
  BY <1>2, StaysAcyclic, Zenon
<1>. QED BY <1>3, <1>4, <1>5, <1>6, Zenon

\* RelRc::drop starts, or it returns early.
LEMMA DropKeepsGraph ==
  ASSUME GraphInv, TypeOK', (\E h \in Handle : DropHandle(h)) \/ DropShared
  PROVE  GraphInv'
<1>1. TypeOK
  BY DEF GraphInv
<1>2. UNCHANGED <<live, incoming, outgoing, teardown>> /\ \A a \in Addr \ live : registry'[a] = registry[a]
  BY DEF DropHandle, DropShared
<1>3. CASE DropShared
  <2>1. /\ dropping' = Null /\ Owned(dropping) /\ ptr' = ptr
        /\ \A k \in Handle : ptr'[k] = ptr[k]
    BY <1>3 DEF DropShared
  <2>. QED BY <1>2, <2>1, HandOverKeepsGraph, Zenon
<1>4. ASSUME NEW h \in Handle, DropHandle(h) PROVE GraphInv'
  <2>1. /\ dropping = Null /\ dropping' = ptr[h]
        /\ \A k \in Handle : ptr'[k] = ptr[k] \/ (ptr'[k] = Null /\ dropping' = ptr[k])
    BY <1>1, <1>4, Zenon DEF DropHandle, Running, TypeOK
  <2>. QED BY <1>2, <2>1, HandOverKeepsGraph, Zenon
<1>. QED BY <1>3, <1>4, Zenon

\* RelRc::drop of the last reference.  The node is nobody's parent and no handle
\* names it, so what stays live has lost nothing.
LEMMA DropLastKeepsGraph ==
  ASSUME GraphInv, TypeOK', DropLast
  PROVE  GraphInv'
<1>. USE DEF GraphInv
<1>. DEFINE d == dropping
<1>1. /\ d \in live /\ d \in Addr /\ ~Owned(d)
      /\ live' = live \ {d} /\ dropping' = Null
      /\ teardown' = <<d>> \o teardown /\ registry' = [registry EXCEPT ![d] = Null]
      /\ UNCHANGED <<incoming, outgoing, ptr>>
  BY Zenon DEF DropLast, Accounted, TypeOK
<1>. HIDE DEF d
<1>2. \A c \in Addr : Parents(c)' = Parents(c) /\ d \notin Parents(c)
  BY <1>1, Zenon DEF Parents, Owned
<1>3. Held' = Held /\ d \notin Held
  BY <1>1 DEF Held, Range, Owned, TypeOK
<1>4. \A a : InTeardown(a)' <=> InTeardown(a) \/ a = d
  <2>1. teardown \in Seq(Addr)
    BY Zenon DEF TypeOK
  <2>2. Range(teardown') = Range(teardown) \cup {d}
    BY <1>1, <2>1, PushElements
  <2>. QED BY <2>2, Zenon DEF InTeardown
<1>5. AncestorsAlive'
  BY <1>1, <1>2, <1>3, Zenon DEF AncestorsAlive
<1>6. Accounted'
  <2>1. \A a \in live' : Owned(a)'
    BY <1>1, <1>2, Zenon DEF Accounted, Owned, d
  <2>2. \A a \in live' : ~InTeardown(a)'
    BY <1>1, <1>4, Zenon DEF Accounted
  <2>3. \A a \in Addr \ live' : registry'[a] = Null
    BY <1>1, ZenonT(30) DEF Accounted, TypeOK
  <2>4. \A a \in Addr \ live' : ~InTeardown(a)' => incoming'[a] = <<>> /\ outgoing'[a] = {}
    BY <1>1, <1>4, Zenon DEF Accounted
  <2>. QED BY <2>1, <2>2, <2>3, <2>4, <1>1, Zenon DEF Accounted
<1>7. EdgesAgree'
  BY <1>1, Zenon DEF EdgesAgree
<1>8. Acyclic'
  BY <1>2, StaysAcyclic, Zenon
<1>. QED BY <1>5, <1>6, <1>7, <1>8, Zenon

\* The drop glue takes edges and weak edges from a dead node only.
LEMMA DropFieldsKeepsGraph ==
  ASSUME GraphInv, TypeOK', NEW a \in Addr, DropFields(a)
  PROVE  GraphInv'
<1>. USE DEF GraphInv
<1>1. /\ dropping = Null /\ InTeardown(a) /\ a \notin live
      /\ UNCHANGED <<live, registry, ptr>>
  <2>1. a \in Range(teardown)
    <3>1. teardown \in Seq(Addr) /\ teardown # <<>> /\ a = Head(teardown)
      BY Zenon DEF DropFields, TypeOK
    <3>. QED BY <3>1, TailElements
  <2>. QED BY <2>1, Zenon DEF DropFields, DropNextEdge, DropOutgoing, InTeardown, Accounted, Running
<1>2. CASE DropNextEdge(a)
  <2>. DEFINE p == Head(incoming[a])
  <2>1. /\ p \in Addr /\ dropping' = p /\ UNCHANGED <<outgoing, teardown>>
        /\ incoming[a] # <<>> /\ incoming' = [incoming EXCEPT ![a] = Tail(incoming[a])]
        /\ Parents(a) = Parents(a)' \cup {p}
    BY <1>2, TailElements, Zenon DEF DropNextEdge, Parents, TypeOK
  <2>. HIDE DEF p
  <2>2. \A c \in Addr : c # a => incoming'[c] = incoming[c] /\ Parents(c)' = Parents(c)
    BY <2>1, Zenon DEF Parents, TypeOK
  <2>3. \A c \in Addr : Parents(c)' \subseteq Parents(c)
    BY <2>1, <2>2
  <2>4. p \in live
    BY <2>1 DEF AncestorsAlive
  <2>5. AncestorsAlive'
    BY <2>3, <1>1, ZenonT(30) DEF AncestorsAlive, Held
  <2>6. Accounted'
    <3>1. \A b \in live : Owned(b)' \/ b = p
      <4>. TAKE b \in live
      <4>1. Owned(b)
        BY <1>1, NullAssumption, Zenon DEF Accounted, TypeOK
      <4>. QED BY <4>1, <1>1, <2>1, <2>2 DEF Owned
    <3>2. \A b : InTeardown(b)' <=> InTeardown(b)
      BY <2>1, ZenonT(30) DEF InTeardown
    <3>. QED BY <3>1, <3>2, <1>1, <2>1, <2>2, <2>4, Zenon DEF Accounted
  <2>7. EdgesAgree'
    <3>1. \A c \in live : c \in Addr /\ incoming'[c] = incoming[c]
      BY <1>1, <2>2, Zenon DEF TypeOK
    <3>2. ASSUME NEW q \in Addr, NEW e \in outgoing'[q], e.target \in live'
          PROVE  e.index \in DOMAIN incoming'[e.target] /\ incoming'[e.target][e.index] = q
      <4>1. e \in outgoing[q] /\ e.target \in live
        BY <3>2, <1>1, <2>1, Zenon
      <4>2. e.index \in DOMAIN incoming[e.target] /\ incoming[e.target][e.index] = q
        BY <4>1, Zenon DEF EdgesAgree
      <4>. QED BY <4>1, <4>2, <3>1, Zenon
    <3>3. ASSUME NEW c \in live', NEW i \in DOMAIN incoming'[c]
          PROVE  [target |-> c, index |-> i] \in outgoing'[incoming'[c][i]]
      <4>1. c \in live /\ incoming'[c] = incoming[c] /\ outgoing' = outgoing
        BY <3>1, <3>3, <1>1, <2>1, Zenon
      <4>. QED BY <4>1, <3>3, Zenon DEF EdgesAgree
    <3>. QED BY <3>2, <3>3, Zenon DEF EdgesAgree
  <2>8. Acyclic'
    BY <2>3, StaysAcyclic, Zenon
  <2>. QED BY <2>5, <2>6, <2>7, <2>8, Zenon
<1>3. CASE DropOutgoing(a)
  <2>1. /\ incoming[a] = <<>> /\ UNCHANGED <<incoming, dropping>>
        /\ outgoing' = [outgoing EXCEPT ![a] = {}]
        /\ teardown' = Tail(teardown)
        /\ Range(teardown) = Range(teardown') \cup {a}
    BY <1>3, TailElements, Zenon DEF DropOutgoing, DropFields, TypeOK
  <2>2. \A c \in Addr : Parents(c)' = Parents(c)
    BY <2>1 DEF Parents
  <2>3. AncestorsAlive'
    BY <1>1, <2>2, ZenonT(30) DEF AncestorsAlive, Held
  <2>4. Accounted'
    <3>1. \A b \in live : Owned(b)' <=> Owned(b)
      BY <1>1, <2>2, ZenonT(30) DEF Owned
    <3>2. \A b : InTeardown(b)' => InTeardown(b)
      BY <2>1, Zenon DEF InTeardown
    <3>3. ASSUME NEW b \in Addr \ live, ~InTeardown(b)'
          PROVE  incoming'[b] = <<>> /\ outgoing'[b] = {}
      <4>1. CASE b = a
        BY <4>1, <2>1, Zenon DEF TypeOK
      <4>2. CASE b # a
        BY <4>2, <3>3, <2>1, Zenon DEF Accounted, InTeardown, TypeOK
      <4>. QED BY <4>1, <4>2, Zenon
    <3>. QED BY <3>1, <3>2, <3>3, <1>1, <2>1, Zenon DEF Accounted
  <2>5. EdgesAgree'
    <3>1. \A c \in live : \A i \in DOMAIN incoming[c] : incoming[c][i] \in Addr /\ incoming[c][i] # a
      BY <1>1, Zenon DEF AncestorsAlive, Parents, Range, TypeOK
    <3>2. \A p \in Addr : outgoing'[p] \subseteq outgoing[p] /\ (p # a => outgoing'[p] = outgoing[p])
      BY <2>1, Zenon DEF TypeOK
    <3>3. ASSUME NEW q \in Addr, NEW e \in outgoing'[q], e.target \in live'
          PROVE  e.index \in DOMAIN incoming'[e.target] /\ incoming'[e.target][e.index] = q
      BY <3>2, <3>3, <1>1, <2>1, Zenon DEF EdgesAgree
    <3>4. ASSUME NEW c \in live', NEW i \in DOMAIN incoming'[c]
          PROVE  [target |-> c, index |-> i] \in outgoing'[incoming'[c][i]]
      <4>1. c \in live /\ i \in DOMAIN incoming[c] /\ incoming' = incoming
        BY <3>4, <1>1, <2>1, Zenon
      <4>2. outgoing'[incoming[c][i]] = outgoing[incoming[c][i]]
        BY <4>1, <3>1, <3>2, Zenon
      <4>. QED BY <4>1, <4>2, Zenon DEF EdgesAgree
    <3>. QED BY <3>3, <3>4, Zenon DEF EdgesAgree
  <2>6. Acyclic'
    BY <2>2, StaysAcyclic, Zenon
  <2>. QED BY <2>3, <2>4, <2>5, <2>6, Zenon
<1>. QED BY <1>2, <1>3, Zenon DEF DropFields

\* The empty heap satisfies the invariant.
LEMMA GraphInit == Init => GraphInv
<1>. SUFFICES ASSUME Init PROVE GraphInv
  OBVIOUS
<1>1. TypeOK
  BY DEF Init, TypeOK, RegistryInit, RegistryTypeOK, NoNodes, NoPtrs
<1>2. \A c \in Addr : Parents(c) = {}
  BY DEF Init, Parents, Range
<1>3. AncestorsAlive
  BY <1>2 DEF AncestorsAlive, Init, Held, Range
<1>4. Accounted
  BY Zenon DEF Accounted, Init
<1>5. EdgesAgree /\ Acyclic
  BY <1>2, Zenon DEF EdgesAgree, Acyclic, Init
<1>. QED BY <1>1, <1>3, <1>4, <1>5 DEF GraphInv

\* Every operation of the program and every step of a drop keeps the invariant.
LEMMA GraphStep == GraphInv /\ [Next]_vars => GraphInv'
<1>. SUFFICES ASSUME GraphInv, [Next]_vars PROVE GraphInv'
  OBVIOUS
<1>0. TypeOK /\ TypeOK' /\ AncestorsAlive
  BY TypeStep, Zenon DEF GraphInv
<1>1. \A h \in Handle : ptr[h] # Null => ptr[h] \in live /\ ptr[h] \in Addr
  BY <1>0, Zenon DEF AncestorsAlive, Held, Range, TypeOK
<1>2. ASSUME NEW h \in Handle, NEW a \in live, Acquire(h, a),
             UNCHANGED outgoing \/ \E g \in Handle :
               ptr[g] # Null /\ outgoing' = [outgoing EXCEPT ![ptr[g]] = Retained(ptr[g])]
      PROVE  GraphInv'
  <2>1. \A p \in Addr : outgoing'[p] \subseteq outgoing[p] /\ Retained(p) \subseteq outgoing'[p]
    BY <1>0, <1>1, <1>2, ZenonT(30) DEF Retained, TypeOK
  <2>2. \A g \in Handle : ptr'[g] = ptr[g] \/ (ptr[g] = Null /\ ptr'[g] \in live)
    BY <1>0, <1>2, Zenon DEF Acquire, TypeOK
  <2>. QED BY <2>1, <2>2, <1>0, <1>2, UseKeepsGraph, Zenon DEF Acquire
<1>3. ASSUME UNCHANGED <<live, incoming, outgoing, ptr, dropping, teardown>>,
             UNCHANGED registry \/ \E h \in Handle, r \in Registries :
               ptr[h] # Null /\ registry' = [registry EXCEPT ![ptr[h]] = r]
      PROVE  GraphInv'
  <2>1. \A a \in Addr \ live : registry'[a] = registry[a]
    <3>1. CASE UNCHANGED registry
      BY <3>1, Zenon
    <3>2. ASSUME NEW h \in Handle, NEW r \in Registries, ptr[h] # Null,
                 registry' = [registry EXCEPT ![ptr[h]] = r]
          PROVE  \A a \in Addr \ live : registry'[a] = registry[a]
      <4>1. ptr[h] \in live /\ registry \in [Addr -> Registries \cup {Null}]
        BY <3>2, <1>0, <1>1, Zenon DEF TypeOK
      <4>. QED BY <3>2, <4>1, Zenon
    <3>. QED BY <3>1, <3>2, <1>3, Zenon
  <2>2. \A p \in Addr : outgoing'[p] \subseteq outgoing[p] /\ Retained(p) \subseteq outgoing'[p]
    BY <1>3, Zenon DEF Retained
  <2>. QED BY <2>1, <2>2, <1>0, <1>3, UseKeepsGraph, Zenon
<1>4. CASE UseNodes(Handle)
  <2>1. ASSUME NEW h \in Handle, NEW n \in Addr, NEW k \in 0 .. MaxParents,
               NEW parents \in [1 .. k -> Held], WithParents(h, n, parents)
        PROVE  GraphInv'
    BY <2>1, <1>0, WithParentsKeepsGraph
  <2>2. ASSUME NEW h \in Handle, NEW g \in Handle, Clone(h, g) PROVE GraphInv'
    BY <2>2, <1>1, <1>2, Zenon DEF Clone
  <2>3. ASSUME NEW h \in Handle, NEW g \in Handle, NEW i \in 1 .. MaxParents, TakeParent(h, g, i)
        PROVE  GraphInv'
    <3>1. incoming[ptr[g]][i] \in live
      BY <2>3, <1>0, <1>1, Zenon DEF TakeParent, AncestorsAlive, Parents, Range
    <3>. QED BY <2>3, <3>1, <1>2, Zenon DEF TakeParent
  <2>4. ASSUME NEW h \in Handle, NEW w \in Weak, Upgrade(h, w) PROVE GraphInv'
    BY <2>4, <1>2 DEF Upgrade
  <2>5. ASSUME NEW g \in Handle, AllOutgoing(g) PROVE GraphInv'
    <3>1. \A p \in Addr : outgoing'[p] \subseteq outgoing[p] /\ Retained(p) \subseteq outgoing'[p]
      BY <2>5, <1>0, <1>1, Zenon DEF AllOutgoing, Retained, TypeOK
    <3>. QED BY <2>5, <3>1, <1>0, UseKeepsGraph, ZenonT(30) DEF AllOutgoing
  <2>6. ASSUME NEW h \in Handle, NEW g \in Handle, NEW e \in WeakEdge, TakeChild(h, g, e)
        PROVE  GraphInv'
    <3>1. e.target \in live
      BY <2>6 DEF TakeChild, Retained
    <3>. QED BY <2>6, <3>1, <1>2, Zenon DEF TakeChild
  <2>7. ASSUME NEW h \in Handle, DropHandle(h) PROVE GraphInv'
    BY <2>7, <1>0, DropKeepsGraph
  <2>8. ASSUME NEW w \in Weak, NEW a, SetWeak(w, a) PROVE GraphInv'
    BY <2>8, <1>3 DEF SetWeak
  <2>9. ASSUME NEW w \in Weak, NEW h \in Handle, Downgrade(w, h) PROVE GraphInv'
    BY <2>9, <2>8 DEF Downgrade
  <2>10. ASSUME NEW w \in Weak, NEW h \in Handle, NEW e \in WeakEdge, TakeWeakEdge(w, h, e)
         PROVE  GraphInv'
    BY <2>10, <2>8 DEF TakeWeakEdge
  <2>11. ASSUME NEW w \in Weak, DropWeak(w) PROVE GraphInv'
    BY <2>11, <2>8 DEF DropWeak
  <2>. QED BY <1>4, <2>1, <2>2, <2>3, <2>4, <2>5, <2>6, <2>7, <2>9, <2>10, <2>11, Zenon DEF UseNodes
<1>5. CASE UseRegistries(Handle) \/ GiveUp
  <2>1. ASSUME NEW r \in Registries, NEW h \in Handle, TryRegisterIn(h, r) PROVE GraphInv'
    BY <2>1, <1>3, Zenon DEF TryRegisterIn
  <2>2. ASSUME NEW h \in Handle, NEW r \in Registries, NEW id \in NodeId, Get(h, r, id)
        PROVE  GraphInv'
    BY <2>2, <1>2 DEF Get
  <2>3. CASE UNCHANGED heapVars
    BY <2>3, <1>3 DEF heapVars
  <2>. QED BY <1>5, <2>1, <2>2, <2>3
         DEF UseRegistries, GiveUp, NewRegistry, DropRegistry, Remove, FreeNodeIds
<1>6. CASE AddUntracked \/ UNCHANGED vars
  <2>1. UNCHANGED heapVars
    BY <1>6 DEF AddUntracked, AddNode, CloneRegistry, vars
  <2>. QED BY <2>1, <1>3 DEF heapVars
<1>7. CASE Destroy
  BY <1>7, <1>0, DropKeepsGraph, DropLastKeepsGraph, DropFieldsKeepsGraph DEF Destroy
<1>. QED BY <1>4, <1>5, <1>6, <1>7 DEF Next, TrackedNext

-----------------------------------------------------------------------------
(* Theorems about the graph *)

\* The variables of the heap and of the registries keep their types.
THEOREM TypeCorrect == Spec => []TypeOK
<1>1. Init => TypeOK
  BY GraphInit DEF GraphInv
<1>. QED BY <1>1, TypeStep, PTL DEF Spec

\* The inductive invariant of the graph holds in every state of RelRc.
THEOREM GraphInvariant == Spec => []GraphInv
BY GraphInit, GraphStep, PTL DEF Spec

\* A node stays in memory while a strong reference to it or to one of its
\* descendants exists, in every state of every cascade of RelRc::drop.
THEOREM AncestorsStayAlive == Spec => []AncestorsAlive
<1>1. GraphInv => AncestorsAlive
  BY DEF GraphInv
<1>. QED BY <1>1, GraphInvariant, PTL

\* Every weak edge that upgrades leads to an edge from the node that keeps it,
\* so <Edge as Deref>::deref never panics, and all_outgoing misses no child.
THEOREM WeakEdgesAgree == Spec => []EdgesAgree
<1>1. GraphInv => EdgesAgree
  BY DEF GraphInv
<1>. QED BY <1>1, GraphInvariant, PTL

\* RelRc::with_parents cannot create a cycle.
THEOREM GraphAcyclic == Spec => []Acyclic
<1>1. GraphInv => Acyclic
  BY DEF GraphInv
<1>. QED BY <1>1, GraphInvariant, PTL

\* Every node is owned until RelRc::drop takes it apart, and leaves nothing.
THEOREM DropsAccounted == Spec => []Accounted
<1>1. GraphInv => Accounted
  BY DEF GraphInv
<1>. QED BY <1>1, GraphInvariant, PTL

\* In a set of live nodes, the one that is no parent of a member is owned from
\* outside the set.
LEMMA AcyclicGraphsDoNotLeak == GraphInv => NoLeak
<1>. SUFFICES ASSUME GraphInv, NEW G \in SUBSET live, G # {}
              PROVE  \E a \in G : \/ a \in Held
                                  \/ a = dropping
                                  \/ \E c \in Addr \ G : a \in Parents(c)
  BY DEF NoLeak
<1>1. G \subseteq Addr
  BY DEF GraphInv, TypeOK
<1>2. PICK a \in G : \A c \in G : a \notin Parents(c)
  BY <1>1 DEF GraphInv, Acyclic
<1>3. Owned(a) \/ a = dropping
  BY DEF GraphInv, Accounted
<1>4. ASSUME NEW h \in Handle, ptr[h] = a PROVE a \in Held
  BY <1>1, <1>4, NullAssumption, ZenonT(30) DEF Held, Range, GraphInv, TypeOK
<1>. QED BY <1>2, <1>3, <1>4 DEF Owned

\* No set of nodes is kept in memory by its own edges alone.
THEOREM NothingLeaks == Spec => []NoLeak
BY AcyclicGraphsDoNotLeak, GraphInvariant, PTL

\* Only new nodes get edges, and only dead nodes lose them.
LEMMA ParentsStep ==
  ASSUME GraphInv, [Next]_vars
  PROVE  \A a \in live \cap live' : incoming'[a] = incoming[a]
<1>1. ASSUME NEW a \in live, a \in live', Next
      PROVE  incoming'[a] = incoming[a]
  <2>0. TypeOK
    BY Zenon DEF GraphInv
  <2>1. TypeOK /\ a \in Addr
    BY <2>0, ZenonT(30) DEF TypeOK
  <2>2. ASSUME NEW h \in Handle, NEW n \in Addr, NEW parents, WithParents(h, n, parents)
        PROVE  incoming'[a] = incoming[a]
    BY <1>1, <2>1, <2>2, Zenon DEF WithParents, Free, TypeOK
  <2>3. ASSUME NEW b \in Addr, DropFields(b)
        PROVE  incoming'[a] = incoming[a]
    <3>1. b \in Range(teardown)
      BY <2>1, <2>3, TailElements DEF DropFields, TypeOK
    <3>2. b # a
      BY <3>1, <1>1 DEF GraphInv, Accounted, InTeardown
    <3>. QED BY <2>1, <2>3, <3>2 DEF DropFields, DropNextEdge, DropOutgoing, TypeOK
  <2>4. CASE UNCHANGED incoming
    BY <2>4, ZenonT(30)
  <2>5. CASE UseNodes(Handle)
    BY <2>5, <2>2, <2>4, Zenon DEF UseNodes, Clone, TakeParent, Upgrade, AllOutgoing, TakeChild,
       DropHandle, Downgrade, TakeWeakEdge, DropWeak, Acquire, SetWeak
  <2>6. CASE UseRegistries(Handle) \/ GiveUp \/ AddUntracked
    BY <2>6, <2>4, Zenon DEF UseRegistries, GiveUp, AddUntracked, NewRegistry, DropRegistry, TryRegisterIn,
       Remove, FreeNodeIds, Get, Acquire, AddNode, CloneRegistry, heapVars
  <2>7. CASE Destroy
    BY <2>7, <2>3, <2>4 DEF Destroy, DropShared, DropLast
  <2>. QED BY <1>1, <2>5, <2>6, <2>7 DEF Next, TrackedNext
<1>. QED BY <1>1, Zenon DEF vars, heapVars

\* Nothing that is created or dropped changes the parents of a live node.
THEOREM ParentsImmutable == Spec => ParentsNeverChange
<1>1. GraphInv /\ [Next]_vars => [\A a \in live \cap live' : incoming'[a] = incoming[a]]_vars
  BY ParentsStep, Zenon
<1>. QED BY <1>1, GraphInvariant, PTL DEF Spec, ParentsNeverChange

-----------------------------------------------------------------------------
(* Refinement *)

\* Each step of RelRc is a step of Ownership or leaves its variables alone: a
\* reference that is taken is a Hold, one that is given up a Release, RelRc::drop
\* of the last one a Collect.  The rest of a cascade concerns dead nodes only.
LEMMA OwnershipStep ==
  ASSUME GraphInv, [Next]_vars
  PROVE  [Abstract!Next]_(Abstract!vars)
<1>0. TypeOK /\ AncestorsAlive /\ Accounted /\ live \subseteq Addr
  BY DEF GraphInv, TypeOK
<1>1. \A h \in Handle : ptr[h] # Null => ptr[h] \in live /\ ptr[h] \in Held
  BY <1>0 DEF AncestorsAlive, Held, Range, TypeOK
<1>. USE DEF Abstract!vars, Abstract!Next, Abstract!Hold, Abstract!Release
<1>2. ASSUME UNCHANGED <<live, incoming>>
      PROVE  UNCHANGED LiveParents
  BY <1>2 DEF LiveParents, Parents
<1>3. CASE UNCHANGED <<live, incoming, ptr>>
  <2>1. UNCHANGED Held
    BY <1>3 DEF Held
  <2>. QED BY <2>1, <1>2, <1>3
<1>4. ASSUME NEW h \in Handle, NEW a \in live, Acquire(h, a)
      PROVE  [Abstract!Next]_(Abstract!vars)
  <2>1. Held' = Held \cup {a}
    <3>1. ptr[h] = Null /\ ptr' = [ptr EXCEPT ![h] = a] /\ ptr \in [Handle -> Addr \cup {Null}] /\ a # Null
      BY <1>0, <1>4, NullAssumption DEF Acquire, TypeOK
    <3>. QED BY <3>1, Zenon DEF Held, Range
  <2>. QED BY <2>1, <1>0, <1>2, <1>4 DEF Acquire
<1>5. ASSUME NEW h \in Handle, NEW n \in Addr, NEW k \in 0 .. MaxParents,
             NEW parents \in [1 .. k -> Held], WithParents(h, n, parents)
      PROVE  [Abstract!Next]_(Abstract!vars)
  <2>1. /\ n \notin live /\ live' = live \cup {n} /\ ptr[h] = Null
        /\ ptr' = [ptr EXCEPT ![h] = n] /\ incoming' = [incoming EXCEPT ![n] = parents]
    BY <1>5, ZenonT(30) DEF WithParents, Free
  <2>2. Held' = Held \cup {n}
    BY <2>1, <1>0, NullAssumption DEF Held, Range, TypeOK
  <2>3. Range(parents) \in SUBSET Addr /\ Range(parents) \subseteq Held
    BY <1>0 DEF Range, Held, TypeOK
  <2>4. LiveParents' = [LiveParents EXCEPT ![n] = Range(parents)]
    BY <2>1, <1>0, Zenon DEF LiveParents, Parents, TypeOK
  <2>. QED BY <2>1, <2>2, <2>3, <2>4, Zenon DEF Abstract!Create
<1>6. ASSUME NEW h \in Handle, DropHandle(h)
      PROVE  [Abstract!Next]_(Abstract!vars)
  <2>. DEFINE a == ptr[h]
  <2>1. a \in Addr /\ ptr' = [ptr EXCEPT ![h] = Null] /\ UNCHANGED <<live, incoming>>
    BY <1>0, <1>6, Zenon DEF DropHandle, TypeOK
  <2>2. Held' = Held \/ Held' = Held \ {a}
    BY <2>1, <1>0, NullAssumption DEF Held, Range, TypeOK
  <2>. QED BY <2>1, <2>2, <1>2
<1>7. CASE DropLast
  <2>. DEFINE d == dropping
  <2>1. /\ d \in live /\ d \in Addr /\ ~Owned(d) /\ live' = live \ {d}
        /\ UNCHANGED <<incoming, ptr>>
    BY <1>0, <1>7, Zenon DEF DropLast, Accounted
  <2>. HIDE DEF d
  <2>2. d \notin Held /\ UNCHANGED Held
    BY <2>1, <1>0 DEF Held, Range, Owned, TypeOK
  <2>3. \A c \in live : d \notin LiveParents[c]
    BY <2>1, <1>0 DEF LiveParents, Owned
  <2>4. LiveParents' = [LiveParents EXCEPT ![d] = {}]
    BY <2>1, Zenon DEF LiveParents, Parents
  <2>. QED BY <2>1, <2>2, <2>3, <2>4, ZenonT(30) DEF Abstract!Collect, Abstract!Collectable
<1>8. ASSUME NEW a \in Addr, DropFields(a)
      PROVE  [Abstract!Next]_(Abstract!vars)
  <2>1. a \notin live /\ UNCHANGED <<live, ptr>>
    <3>1. a \in Range(teardown)
      BY <1>0, <1>8, TailElements DEF DropFields, TypeOK
    <3>. QED BY <3>1, <1>0, <1>8, Zenon DEF DropFields, DropNextEdge, DropOutgoing, InTeardown, Accounted
  <2>2. \A c \in Addr : c # a => incoming'[c] = incoming[c]
    BY <1>0, <1>8, Zenon DEF DropFields, DropNextEdge, DropOutgoing, TypeOK
  <2>3. UNCHANGED <<LiveParents, Held>>
    BY <2>1, <2>2, Zenon DEF LiveParents, Parents, Held
  <2>. QED BY <2>1, <2>3, ZenonT(30)
<1>9. CASE UseNodes(Handle)
  <2>1. ASSUME NEW h \in Handle, NEW g \in Handle, NEW i \in 1 .. MaxParents, TakeParent(h, g, i)
        PROVE  incoming[ptr[g]][i] \in live
    BY <2>1, <1>0, <1>1, Zenon DEF TakeParent, AncestorsAlive, Parents, Range
  <2>2. CASE \E h \in Handle : \/ \E g \in Handle : Clone(h, g)
                               \/ \E g \in Handle, i \in 1 .. MaxParents : TakeParent(h, g, i)
                               \/ \E w \in Weak : Upgrade(h, w)
                               \/ \E g \in Handle, e \in WeakEdge : TakeChild(h, g, e)
    BY <2>2, <2>1, <1>1, <1>4, Zenon DEF Clone, TakeParent, Upgrade, TakeChild, Retained
  <2>3. CASE \/ \E g \in Handle : AllOutgoing(g)
             \/ \E w \in Weak, g \in Handle : Downgrade(w, g)
             \/ \E w \in Weak, g \in Handle, e \in WeakEdge : TakeWeakEdge(w, g, e)
             \/ \E w \in Weak : DropWeak(w)
    BY <2>3, <1>3, ZenonT(30) DEF AllOutgoing, Downgrade, TakeWeakEdge, DropWeak, SetWeak
  <2>. QED BY <1>9, <2>2, <2>3, <1>5, <1>6, Zenon DEF UseNodes
<1>10. CASE UseRegistries(Handle) \/ GiveUp \/ AddUntracked
  <2>1. ASSUME NEW h \in Handle, NEW r \in Registries, NEW id \in NodeId, Get(h, r, id)
        PROVE  [Abstract!Next]_(Abstract!vars)
    BY <2>1, <1>4, ZenonT(30) DEF Get
  <2>. QED BY <1>10, <2>1, <1>3, Zenon DEF UseRegistries, GiveUp, AddUntracked, NewRegistry, DropRegistry,
         TryRegisterIn, Remove, FreeNodeIds, AddNode, CloneRegistry, heapVars
<1>11. CASE Destroy \/ UNCHANGED vars
  BY <1>11, <1>3, <1>7, <1>8, Zenon DEF Destroy, DropShared, vars, heapVars
<1>. QED BY <1>9, <1>10, <1>11, Zenon DEF Next, TrackedNext

\* RelRc implements Ownership: whatever the program does, and wherever a cascade
\* of RelRc::drop stands, a node is destroyed only when nobody owns it.
THEOREM OwnershipImplemented == Spec => ImplementsOwnership
<1>1. Init => Abstract!Init
  BY DEF Init, Abstract!Init, Held, Range, LiveParents
<1>2. GraphInv /\ [Next]_vars => [Abstract!Next]_(Abstract!vars)
  BY OwnershipStep
<1>. QED BY <1>1, <1>2, GraphInvariant, PTL DEF Spec, ImplementsOwnership, Abstract!Spec

=============================================================================
