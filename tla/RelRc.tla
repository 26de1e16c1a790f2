------------------------------- MODULE RelRc --------------------------------
(***************************************************************************)
(* The graph of RelRc objects of src/src/node.rs and src/src/edge.rs, with *)
(* the registries they may be tracked by.                                  *)
(*                                                                         *)
(* A node owns its incoming edges, an edge owns a strong reference to its  *)
(* source, and the source keeps a weak edge (target, index) back.  The     *)
(* program holds strong references (RelRc or Edge values, in the slots     *)
(* Handle) and weak ones (RelWeak or WeakEdge values, in the slots Weak).  *)
(* Dropping the last strong reference to a node runs RelRc::drop, then the *)
(* drop glue of the node's fields, which drops the sources of its edges    *)
(* one by one and so may cascade.  Values of type N and E may have a Drop  *)
(* implementation of their own, so any operation of the program may happen *)
(* while a node's fields are being dropped.                                *)
(*                                                                         *)
(* Strong and weak counts are those of std::rc: the number of strong       *)
(* references there are, respectively of weak ones.  An address is free    *)
(* for reuse once neither kind of reference to it is left.                 *)
(***************************************************************************)
EXTENDS Naturals, Sequences, Functions, Registry

CONSTANTS
  Handle,       \* slots for the strong references the program holds
  Weak,         \* slots for the weak references the program holds
  MaxParents    \* the most parents a node is given

ASSUME MaxParentsAssumption == MaxParents \in Nat

VARIABLES
  live,         \* the nodes whose value exists (strong count above zero)
  incoming,     \* incoming[a]: the sources of a's incoming edges, in order
  outgoing,     \* outgoing[a]: the weak edges in a's outgoing vector
  registry,     \* registry[a]: the registry a's weak registry field names
  ptr,          \* ptr[h]: the node that the strong reference h points to
  weak,         \* weak[w]: the node that the weak reference w points to
  dropping,     \* the node whose RelRc is being dropped right now
  teardown      \* the nodes whose fields are being dropped, innermost first

heapVars == <<live, incoming, outgoing, registry, ptr, weak, dropping, teardown>>
vars == <<heapVars, registryVars>>

WeakEdge == [target : Addr, index : 1 .. MaxParents]

\* The types of the fields of InnerData, and that an index names an edge.
TypeOK ==
  /\ RegistryTypeOK
  /\ live \in SUBSET Addr
  /\ incoming \in [Addr -> Seq(Addr)]
  /\ outgoing \in [Addr -> SUBSET WeakEdge]
  /\ registry \in [Addr -> Registries \cup {Null}]
  /\ ptr \in [Handle -> Addr \cup {Null}]
  /\ weak \in [Weak -> Addr \cup {Null}]
  /\ dropping \in Addr \cup {Null}
  /\ teardown \in Seq(Addr)

Init ==
  /\ RegistryInit
  /\ live = {}
  /\ incoming = [a \in Addr |-> <<>>]
  /\ outgoing = [a \in Addr |-> {}]
  /\ registry = [a \in Addr |-> Null]
  /\ ptr = [h \in Handle |-> Null]
  /\ weak = [w \in Weak |-> Null]
  /\ dropping = Null
  /\ teardown = <<>>

-----------------------------------------------------------------------------
(* References *)

Parents(c) == Range(incoming[c])

Held == Range(ptr) \ {Null}

InTeardown(a) == a \in Range(teardown)

\* Mutant: the edges of children do not count.
OwnedByHandle(a) == \E h \in Handle : ptr[h] = a

\* Another strong reference to a than the one being dropped exists:
\* Rc::strong_count(&self.0) > 1 in RelRc::drop.
Owned(a) ==
  \/ \E h \in Handle : ptr[h] = a
  \/ \E c \in Addr : a \in Parents(c)

\* Mutant: a node is gone once no handle names it.
FreeUnlessHeld(a) == a \notin Held \cup {dropping} /\ ~InTeardown(a)

\* Mutant: weak edges do not keep the allocation.
FreeDespiteWeakEdges(a) ==
  /\ a \notin live
  /\ ~InTeardown(a)
  /\ \A w \in Weak : weak[w] # a
  /\ ~RegistryWeak(a)

\* The allocation of a has been returned: no strong reference to it is left,
\* its fields are gone, and no weak reference to it is left either.
Free(a) ==
  /\ a \notin live
  /\ ~InTeardown(a)
  /\ \A w \in Weak : weak[w] # a
  /\ \A p \in Addr : \A e \in outgoing[p] : e.target # a
  /\ ~RegistryWeak(a)

\* The program's code runs, not RelRc::drop.
Running == dropping = Null

-----------------------------------------------------------------------------
(* Creation *)

\* Mutant: the index of the edge before.
RegisterPrevious(n, parents) ==
  [p \in Addr |-> outgoing[p] \cup
     {[target |-> n, index |-> i - 1] : i \in {j \in DOMAIN parents : parents[j] = p}}]

\* register_outgoing_edges: every parent gets a weak edge for each of the
\* edges it is the source of.
RegisterOutgoingEdges(n, parents) ==
  [p \in Addr |-> outgoing[p] \cup
     {[target |-> n, index |-> i] : i \in {j \in DOMAIN parents : parents[j] = p}}]

\* RelRc::with_parents, and RelRc::new when there are no parents.
WithParents(h, n, parents) ==
  /\ Running
  /\ ptr[h] = Null
  /\ Free(n)
  /\ live' = live \cup {n}
  /\ incoming' = [incoming EXCEPT ![n] = parents]
  /\ outgoing' = RegisterOutgoingEdges(n, parents)
  /\ registry' = [registry EXCEPT ![n] = Null]
  /\ ptr' = [ptr EXCEPT ![h] = n]
  /\ UNCHANGED <<weak, dropping, teardown, registryVars>>

-----------------------------------------------------------------------------
(* Acquiring and giving up references *)

\* The free slot h gets a strong reference to a.
Acquire(h, a) ==
  /\ Running
  /\ ptr[h] = Null
  /\ ptr' = [ptr EXCEPT ![h] = a]
  /\ UNCHANGED <<live, incoming, registry, weak, dropping, teardown, registryVars>>

\* RelRc::clone
Clone(h, g) ==
  /\ ptr[g] # Null
  /\ Acquire(h, ptr[g])
  /\ UNCHANGED outgoing

\* InnerData::parent and all_parents, InnerEdgeData::source: the parent is cloned.
TakeParent(h, g, i) ==
  /\ ptr[g] # Null
  /\ i \in DOMAIN incoming[ptr[g]]
  /\ Acquire(h, incoming[ptr[g]][i])
  /\ UNCHANGED outgoing

\* RelWeak::upgrade, WeakEdge::upgrade, InnerEdgeData::target
Upgrade(h, w) ==
  /\ weak[w] \in live
  /\ Acquire(h, weak[w])
  /\ UNCHANGED outgoing

\* Registry::get, contains_id and iter upgrade the weak reference of an id.
Get(h, r, id) ==
  /\ r \in regs
  /\ nodes[r][id] \in live
  /\ Acquire(h, nodes[r][id])
  /\ UNCHANGED outgoing

\* The weak edges that InnerData::all_outgoing retains: those that upgrade.
Retained(a) == {e \in outgoing[a] : e.target \in live}

\* InnerData::all_outgoing, all_children and n_outgoing: the weak edges that
\* no longer upgrade are removed, and the strong edges returned are dropped
\* again at once ...
AllOutgoing(g) ==
  /\ Running
  /\ ptr[g] # Null
  /\ outgoing' = [outgoing EXCEPT ![ptr[g]] = Retained(ptr[g])]
  /\ UNCHANGED <<live, incoming, registry, ptr, weak, dropping, teardown, registryVars>>

\* ... but for one that the program keeps.
TakeChild(h, g, e) ==
  /\ ptr[g] # Null
  /\ e \in Retained(ptr[g])
  /\ Acquire(h, e.target)
  /\ outgoing' = [outgoing EXCEPT ![ptr[g]] = Retained(ptr[g])]

\* A strong reference of the program goes out of scope: RelRc::drop starts.
DropHandle(h) ==
  /\ Running
  /\ ptr[h] # Null
  /\ dropping' = ptr[h]
  /\ ptr' = [ptr EXCEPT ![h] = Null]
  /\ UNCHANGED <<live, incoming, outgoing, registry, weak, teardown, registryVars>>

\* The slot w is made to hold a weak reference to a, or none.
SetWeak(w, a) ==
  /\ Running
  /\ weak' = [weak EXCEPT ![w] = a]
  /\ UNCHANGED <<live, incoming, outgoing, registry, ptr, dropping, teardown, registryVars>>

\* RelRc::downgrade, InnerData::incoming_weak and all_incoming_weak
Downgrade(w, h) ==
  /\ weak[w] = Null
  /\ ptr[h] # Null
  /\ SetWeak(w, ptr[h])

\* InnerData::all_outgoing_weak: also the weak edges that no longer upgrade.
TakeWeakEdge(w, h, e) ==
  /\ weak[w] = Null
  /\ ptr[h] # Null
  /\ e \in outgoing[ptr[h]]
  /\ SetWeak(w, e.target)

\* A weak reference of the program goes out of scope.
DropWeak(w) ==
  /\ weak[w] # Null
  /\ SetWeak(w, Null)

-----------------------------------------------------------------------------
(* Registration *)

\* Mutant: the address is used again while nodes have weak references to it.
NewRegistryAnywhere(r) ==
  /\ Running
  /\ r \notin regs
  /\ CreateRegistry(r)
  /\ UNCHANGED heapVars

\* Registry::new
NewRegistry(r) ==
  /\ Running
  /\ r \notin regs
  /\ \A a \in Addr : registry[a] # r        \* a weak reference keeps the address
  /\ CreateRegistry(r)
  /\ UNCHANGED heapVars

\* <Registry as Clone>::clone
CloneRegistry(r, s) ==
  /\ Running
  /\ r \in regs
  /\ s \notin regs
  /\ \A a \in Addr : registry[a] # s
  /\ CopyRegistry(r, s)
  /\ UNCHANGED heapVars

\* The last Rc<RefCell<Registry>> goes out of scope.
DropRegistry(r) ==
  /\ Running
  /\ r \in regs
  /\ DestroyRegistry(r)
  /\ UNCHANGED heapVars

\* Registry::add_node
AddNode(r, h) ==
  /\ Running
  /\ r \in regs
  /\ ptr[h] # Null
  /\ AddNodeTo(r, ptr[h])
  /\ UNCHANGED <<heapVars, regs>>

\* Mutant: a registry that was set is replaced.
ReplaceRegister(a, r) == TRUE

\* RelRc::try_set_register succeeds: no registry was ever set, or this one was.
TrySetRegister(a, r) == registry[a] \in {Null, r}

\* RelRc::try_register_in; when try_set_register fails nothing changes.
TryRegisterIn(h, r) ==
  /\ Running
  /\ r \in regs
  /\ ptr[h] # Null
  /\ TrySetRegister(ptr[h], r)
  /\ registry' = [registry EXCEPT ![ptr[h]] = r]
  /\ AddNodeTo(r, ptr[h])
  /\ UNCHANGED <<live, incoming, outgoing, ptr, weak, dropping, teardown, regs>>

\* Registry::remove, called by the program
Remove(r, id) ==
  /\ Running
  /\ r \in regs
  /\ RemoveFrom(r, id)
  /\ UNCHANGED <<heapVars, regs>>

\* Registry::free_node_ids
FreeNodeIds(r) ==
  /\ Running
  /\ r \in regs
  /\ FreeDead(r, live)
  /\ UNCHANGED <<heapVars, regs>>

-----------------------------------------------------------------------------
(* Destruction *)

\* RelRc::drop returns early: this was not the last strong reference.
DropShared ==
  /\ dropping # Null
  /\ Owned(dropping)
  /\ dropping' = Null
  /\ UNCHANGED <<live, incoming, outgoing, registry, ptr, weak, teardown, registryVars>>

\* Mutant: the id is left to the registry.
LeaveId(a) == UNCHANGED <<nodes, ptr_to_id, issued>>

\* The end of RelRc::drop: if the registry of a still exists and knows a,
\* the id of a is removed from it.
Deregister(a) ==
  LET r == registry[a] IN
  IF r \in regs /\ GetId(r, a) # Null
  THEN RemoveFrom(r, GetId(r, a))
  ELSE UNCHANGED <<nodes, ptr_to_id, issued>>

\* RelRc::drop of the last strong reference: the node is deregistered, its
\* registry field taken, and the value dropped.  The fields come next.
DropLast ==
  /\ dropping # Null
  /\ ~Owned(dropping)
  /\ live' = live \ {dropping}
  /\ Deregister(dropping)
  /\ registry' = [registry EXCEPT ![dropping] = Null]
  /\ teardown' = <<dropping>> \o teardown
  /\ dropping' = Null
  /\ UNCHANGED <<incoming, outgoing, ptr, weak, regs>>

\* Mutant: the edge goes without its source being dropped.
ForgetNextEdge(a) ==
  /\ incoming[a] # <<>>
  /\ incoming' = [incoming EXCEPT ![a] = Tail(@)]
  /\ UNCHANGED <<live, outgoing, registry, ptr, weak, dropping, teardown, registryVars>>

\* Mutant: the edge is dropped but not taken.
DropEdgeAgain(a) ==
  /\ incoming[a] # <<>>
  /\ dropping' = Head(incoming[a])
  /\ UNCHANGED <<live, incoming, outgoing, registry, ptr, weak, teardown, registryVars>>

\* The drop glue of the node a drops its next incoming edge, and with it the
\* strong reference to the edge's source.
DropNextEdge(a) ==
  /\ incoming[a] # <<>>
  /\ dropping' = Head(incoming[a])
  /\ incoming' = [incoming EXCEPT ![a] = Tail(@)]
  /\ UNCHANGED <<live, outgoing, registry, ptr, weak, teardown, registryVars>>

\* Mutant: the weak edges stay.
LeaveOutgoing(a) ==
  /\ incoming[a] = <<>>
  /\ teardown' = Tail(teardown)
  /\ UNCHANGED <<live, incoming, outgoing, registry, ptr, weak, dropping, registryVars>>

\* All edges are gone: the outgoing weak edges go, and the fields are done.
DropOutgoing(a) ==
  /\ incoming[a] = <<>>
  /\ outgoing' = [outgoing EXCEPT ![a] = {}]
  /\ teardown' = Tail(teardown)
  /\ UNCHANGED <<live, incoming, registry, ptr, weak, dropping, registryVars>>

\* One step of the drop glue of a's fields; a's frame is the innermost.
DropFields(a) ==
  /\ Running
  /\ teardown # <<>>
  /\ a = Head(teardown)
  /\ DropNextEdge(a) \/ DropOutgoing(a)

-----------------------------------------------------------------------------
(* The specification *)

\* What the program does with nodes and references, using the slots H for
\* its own variables; it may refer to nodes through any reference.
UseNodes(H) ==
  \/ \E h \in H, n \in Addr, k \in 0 .. MaxParents :
       \E parents \in [1 .. k -> Held] : WithParents(h, n, parents)
  \/ \E h \in H, g \in Handle : Clone(h, g)
  \/ \E h \in H, g \in Handle, i \in 1 .. MaxParents : TakeParent(h, g, i)
  \/ \E h \in H, w \in Weak : Upgrade(h, w)
  \/ \E g \in Handle : AllOutgoing(g)
  \/ \E h \in H, g \in Handle, e \in WeakEdge : TakeChild(h, g, e)
  \/ \E h \in H : DropHandle(h)
  \/ \E w \in Weak, g \in Handle : Downgrade(w, g)
  \/ \E w \in Weak, g \in Handle, e \in WeakEdge : TakeWeakEdge(w, g, e)
  \/ \E w \in Weak : DropWeak(w)

\* What the program does with registries when it registers nodes through
\* RelRc::try_register_in only, as Registry::add_node recommends.
UseRegistries(H) ==
  \/ \E r \in Registries : NewRegistry(r)
  \/ \E r \in Registries, g \in Handle : TryRegisterIn(g, r)
  \/ \E r \in Registries : FreeNodeIds(r)
  \/ \E h \in H, r \in Registries, id \in NodeId : Get(h, r, id)

\* Ids and registries that the program gives up.
GiveUp ==
  \/ \E r \in Registries : DropRegistry(r)
  \/ \E r \in Registries, id \in NodeId : Remove(r, id)

\* The two operations that put nodes in a registry behind their back.
AddUntracked ==
  \/ \E r \in Registries, g \in Handle : AddNode(r, g)
  \/ \E r, s \in Registries : CloneRegistry(r, s)

\* What dropping a reference does by itself.
Destroy ==
  \/ DropShared
  \/ DropLast
  \/ \E a \in Addr : DropFields(a)

TrackedNext == UseNodes(Handle) \/ UseRegistries(Handle) \/ GiveUp \/ Destroy
Next == TrackedNext \/ AddUntracked

Spec == Init /\ [][Next]_vars

\* A program that uses the recommended registration only.
TrackedSpec == Init /\ [][TrackedNext]_vars

-----------------------------------------------------------------------------
(* Refinement *)

LiveParents == [a \in Addr |-> IF a \in live THEN Parents(a) ELSE {}]

Abstract ==
  INSTANCE Ownership WITH
    Object <- Addr, alive <- live, held <- Held, parents <- LiveParents

\* Reference counts, weak edges and cascades of drops implement ownership: a node
\* is only ever destroyed when neither the program nor a node in memory owns it.
ImplementsOwnership == Abstract!Spec

-----------------------------------------------------------------------------
(* Safety of the graph *)

\* A strong reference keeps its node alive, and a node keeps its parents
\* alive: "will remain in memory for as long as there is at least one strong
\* reference to it or to one of its descendants" (RelRc's documentation).
\* Holds through every state of a cascade of drops: the parents that a node
\* under destruction still owns are live too.
AncestorsAlive ==
  /\ Held \subseteq live
  /\ \A c \in Addr : Parents(c) \subseteq live

\* No set of live nodes is kept alive by itself alone: in any such set G some
\* node is referenced by the program, by the drop in progress, or by an edge
\* of a node outside G.  With G the nodes nobody references any more, this is
\* the README's "guaranteeing the absence of memory leaks".
NoLeak ==
  \A G \in SUBSET live : G # {} =>
    \E a \in G : \/ a \in Held
                 \/ a = dropping
                 \/ \E c \in Addr \ G : a \in Parents(c)

\* Once the program holds no reference and no registry, and no drop is in
\* progress, every allocation has been returned: weak edges that parents keep
\* to dead children do not outlive the parents.
MemoryReturned ==
  (/\ Held = {} /\ dropping = Null /\ teardown = <<>>
   /\ \A w \in Weak : weak[w] = Null
   /\ regs = {})
  => \A a \in Addr : Free(a)

\* The two directions of the graph agree, even though addresses are reused.
\* A weak edge that upgrades names an existing incoming edge of its target, so
\* that <Edge as Deref>::deref never panics, and that edge comes from the node
\* that keeps the weak edge; and every edge of a live node is known to its
\* source, so that InnerData::all_outgoing misses no child.
EdgesAgree ==
  /\ \A p \in Addr : \A e \in outgoing[p] : e.target \in live =>
       e.index \in DOMAIN incoming[e.target] /\ incoming[e.target][e.index] = p
  /\ \A c \in live : \A i \in DOMAIN incoming[c] :
       [target |-> c, index |-> i] \in outgoing[incoming[c][i]]

\* The parents of a node never change while it is live ("The ordering and
\* position of the incoming edges is immutable"), whatever is dropped or
\* created meanwhile.
ParentsNeverChange ==
  [][\A a \in live \cap live' : incoming'[a] = incoming[a]]_vars

\* No cycle can be created (README): every set of nodes has one that is no
\* parent of a node of the set.
Acyclic ==
  \A G \in SUBSET Addr : G # {} =>
    \E a \in G : \A c \in G : a \notin Parents(c)

\* At every step of a drop each node is in one place only: live and owned by
\* someone, if only by the drop in progress; or having its fields dropped; or
\* gone, with no edge, weak edge or registry left behind in it.
Accounted ==
  /\ dropping # Null => dropping \in live
  /\ \A a \in live : Owned(a) \/ a = dropping
  /\ \A a \in live : ~InTeardown(a)
  /\ \A a \in Addr \ live : registry[a] = Null
  /\ \A a \in Addr \ live :
       ~InTeardown(a) => incoming[a] = <<>> /\ outgoing[a] = {}

-----------------------------------------------------------------------------
(* Safety of the registries *)

\* Registry's two maps are inverse to each other: Registry::get_id and
\* Registry::get agree on every node and every id.
MapsInverse ==
  \A r \in Registries, a \in Addr, id \in NodeId :
    nodes[r][id] = a <=> ptr_to_id[r][a] = id

\* A raw pointer that Registry::get_id compares against always belongs to the
\* node it was stored for: its address has not been returned, so no node
\* created later is taken for a registered one.
PointersNotDangling ==
  \A r \in Registries, a \in Addr : ptr_to_id[r][a] # Null => ~Free(a)

\* With the recommended registration the ids of a registry never go stale:
\* "The node ID in the registry will be freed when the last reference to
\* `self` is dropped" (RelRc::try_register_in).
NoStaleIds ==
  \A r \in Registries, id \in NodeId : nodes[r][id] \in live \cup {Null}

\* "A node can only be registered in one registry at a time"
\* (RelRc::try_register_in).
OneRegistry ==
  \A a \in Addr : \A r, s \in Registries :
    GetId(r, a) # Null /\ GetId(s, a) # Null => r = s

\* The weak reference to a registry that a node keeps, even after that registry
\* was dropped, is never taken for one to a later registry: the registry that
\* RelRc::registry returns, and RelRc::drop frees the id in, knows the node.
FieldMeansRegistered ==
  \A a \in live : registry[a] \in regs => GetId(registry[a], a) # Null

-----------------------------------------------------------------------------
(* Liveness *)

\* A cascade of drops comes to its end, even if the Drop implementations of
\* node and edge values use the graph while it runs.
CascadeEnds == teardown # <<>> ~> teardown = <<>>

\* No node that has lost its last owner stays, wherever it is in a cascade of
\* drops: it is destroyed, unless the program gets hold of it in time.
EventuallyCollected == Abstract!Collected

=============================================================================
