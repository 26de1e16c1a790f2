------------------------------ MODULE Registry ------------------------------
(***************************************************************************)
(* The registries of src/src/registry.rs: each maps the NodeIds it handed  *)
(* out to weak references (nodes) and, for fast lookups, the raw address   *)
(* of a node back to its id (ptr_to_id).  The two maps are separate state  *)
(* that every operation must keep in step: the weak reference in `nodes`   *)
(* keeps the allocation, and hence the address, from being reused, while   *)
(* the raw pointer in `ptr_to_id` keeps nothing.                           *)
(*                                                                         *)
(* This module owns the state of the registries and offers their           *)
(* operations as action fragments; RelRc composes them with the heap.      *)
(***************************************************************************)
EXTENDS Naturals

CONSTANTS
  Addr,         \* addresses a RelRc allocation may have
  Registries,   \* addresses an Rc<RefCell<Registry>> allocation may have
  Slots,        \* slots of a slot map; |Slots| bounds the nodes of one registry
  MaxVersion,   \* how often a slot is used; bounds the ids one registry issues
  Null          \* None

\* The keys of the slot map: a slot, and how often it has been used.
NodeId     == Slots \X (1 .. MaxVersion)
Slot(id)    == id[1]
Version(id) == id[2]

ASSUME MaxVersionAssumption == MaxVersion \in Nat
ASSUME NullAssumption == Null \notin Addr \cup Registries \cup NodeId

VARIABLES
  regs,         \* the registries that exist (some Rc<RefCell<Registry>> is held)
  nodes,        \* nodes[r][id]: the address the weak reference of id points to
  ptr_to_id,    \* ptr_to_id[r][a]: the id stored for the raw pointer a
  issued        \* issued[r]: the keys the slot map has ever handed out

registryVars == <<regs, nodes, ptr_to_id, issued>>

NoNodes == [id \in NodeId |-> Null]
NoPtrs  == [a \in Addr |-> Null]

\* The types of the fields of every Registry.
RegistryTypeOK ==
  /\ regs \in SUBSET Registries
  /\ nodes \in [Registries -> [NodeId -> Addr \cup {Null}]]
  /\ ptr_to_id \in [Registries -> [Addr -> NodeId \cup {Null}]]
  /\ issued \in [Registries -> SUBSET NodeId]

RegistryInit ==
  /\ regs = {}
  /\ nodes = [r \in Registries |-> NoNodes]
  /\ ptr_to_id = [r \in Registries |-> NoPtrs]
  /\ issued = [r \in Registries |-> {}]

-----------------------------------------------------------------------------
(* Lookups *)

\* Registry::get_id
GetId(r, a) == ptr_to_id[r][a]

\* The weak references that registries hold to a.
RegistryWeak(a) == \E r \in Registries : \E id \in NodeId : nodes[r][id] = a

-----------------------------------------------------------------------------
(* Operations *)

\* Mutant: a slot that is not in use keeps its version.
FreshKeyReused(r) ==
  {id \in NodeId : \A old \in NodeId : Slot(old) = Slot(id) => nodes[r][old] = Null}

\* SlotMap::insert takes a slot that is not in use, with a version that is
\* higher than those it had, so that the key was never handed out before.
FreshKey(r) ==
  {id \in NodeId \ issued[r] :
     \A old \in NodeId : Slot(old) = Slot(id) /\ Version(old) < Version(id) =>
       old \in issued[r] /\ nodes[r][old] = Null}

\* Mutant: a registered node gets another id.
AddNodeAgain(r, a) ==
  \E id \in FreshKey(r) :
    /\ nodes' = [nodes EXCEPT ![r][id] = a]
    /\ ptr_to_id' = [ptr_to_id EXCEPT ![r][a] = id]
    /\ issued' = [issued EXCEPT ![r] = @ \cup {id}]

\* Registry::add_node (and get_id_or_insert) of a node at address a.
AddNodeTo(r, a) ==
  \/ /\ GetId(r, a) # Null                  \* already registered
     /\ UNCHANGED <<nodes, ptr_to_id, issued>>
  \/ /\ GetId(r, a) = Null
     /\ \E id \in FreshKey(r) :
          /\ nodes' = [nodes EXCEPT ![r][id] = a]
          /\ ptr_to_id' = [ptr_to_id EXCEPT ![r][a] = id]
          /\ issued' = [issued EXCEPT ![r] = @ \cup {id}]

\* Mutant: the raw pointer stays.
RemoveKeepsPointer(r, id) ==
  /\ nodes' = [nodes EXCEPT ![r][id] = Null]
  /\ UNCHANGED <<ptr_to_id, issued>>

\* Registry::remove: the entry of ptr_to_id goes with the entry of nodes.
RemoveFrom(r, id) ==
  /\ nodes' = [nodes EXCEPT ![r][id] = Null]
  /\ ptr_to_id' = [ptr_to_id EXCEPT ![r] =
                     [a \in Addr |-> IF nodes[r][id] = a THEN Null ELSE @[a]]]
  /\ UNCHANGED issued

\* Mutant: the raw pointers of dead nodes stay.
FreeDeadKeepsPointers(r, live) ==
  /\ nodes' = [nodes EXCEPT ![r] =
                 [id \in NodeId |-> IF @[id] \in live THEN @[id] ELSE Null]]
  /\ UNCHANGED <<ptr_to_id, issued>>

\* Registry::free_node_ids: both entries of every node that is no longer live.
FreeDead(r, live) ==
  LET dead == {id \in NodeId : nodes[r][id] \notin live \cup {Null}} IN
  /\ nodes' = [nodes EXCEPT ![r] =
                 [id \in NodeId |-> IF id \in dead THEN Null ELSE @[id]]]
  /\ ptr_to_id' = [ptr_to_id EXCEPT ![r] =
                     [a \in Addr |-> IF \E id \in dead : nodes[r][id] = a
                                     THEN Null ELSE @[a]]]
  /\ UNCHANGED issued

\* Registry::new, wrapped in an Rc<RefCell<_>> allocated at r.
CreateRegistry(r) ==
  /\ regs' = regs \cup {r}
  /\ UNCHANGED <<nodes, ptr_to_id, issued>>

\* <Registry as Clone>::clone of r into a new allocation s: weak references
\* and raw pointers are copied, and the slot map with its versions.
CopyRegistry(r, s) ==
  /\ regs' = regs \cup {s}
  /\ nodes' = [nodes EXCEPT ![s] = nodes[r]]
  /\ ptr_to_id' = [ptr_to_id EXCEPT ![s] = ptr_to_id[r]]
  /\ issued' = [issued EXCEPT ![s] = issued[r]]

\* The last Rc<RefCell<Registry>> of r goes out of scope.
DestroyRegistry(r) ==
  /\ regs' = regs \ {r}
  /\ nodes' = [nodes EXCEPT ![r] = NoNodes]
  /\ ptr_to_id' = [ptr_to_id EXCEPT ![r] = NoPtrs]
  /\ issued' = [issued EXCEPT ![r] = {}]

=============================================================================
