# Verification of relrc

`relrc` provides `RelRc`, a single-threaded reference-counted pointer whose objects form a
directed acyclic graph: an object owns its parents, and knows its children weakly. This
directory holds TLA+ models of the crate, TLC configurations that check them on small
instances, and TLAPS proofs of the results that hold for every instance.

## The system

| Part | Source | State | Operations that change it |
|---|---|---|---|
| `RelRc`, edges, weak references | `src/src/node.rs`, `src/src/edge.rs` | per node: incoming edges (owned, each with a strong reference to its source), outgoing weak edges, weak reference to a registry; the strong and weak references the program holds | `new`, `with_parents`, cloning, upgrading, `all_outgoing` (prunes), `try_register_in`, dropping |
| `all_ancestors` | `src/src/node.rs` | the iterator's queue and seen set | `next` |
| `Registry` | `src/src/registry.rs` | slot map from ids to weak references, hash map from raw pointers to ids | `add_node`, `remove`, `free_node_ids`, `clone`, dropping |
| `HistoryGraph` | `src/src/history.rs` | strong references by id, a shared registry | `insert_node`, `insert_ancestors`, dropping |
| Serialization | `src/src/serialization.rs` | none of its own; registers nodes on the way | `to_serialized`, `from_serialized` |
| petgraph adaptors | `src/src/petgraph.rs`, `src/src/petgraph/` | none | read-only |
| Detached graphs | `src/src/detached.rs` (commented out in `lib.rs`) | a graph cut off from the heap | `detach`, `attach` |
| MPI transfer | `src/src/detached/mpi*` (commented out) | messages in flight, futures | send, receive, acknowledge |
| Resolvers | `src/src/resolver.rs` (commented out) | none | none |

How they interact: dropping a `RelRc` may deregister it from its registry and may cascade to
its parents; a registry keeps the allocation of a node (through its weak reference) but not
the node; graphs own nodes and share registries; serialization walks `all_ancestors` and
registers what it meets. A detached object is rebuilt with `with_parents` elsewhere, and the MPI
transfer builds a detached object in the receiver, message by message.

What is hard in the crate itself is not concurrency of threads but of *ownership*: a drop can run
at any point of the program, in a cascade, and can run the program's own code (`Drop` of `N` or
`E`) between any two of its steps; addresses are reused while raw pointers to them are compared;
two maps and two directions of edges must stay in step over any sequence of calls. The MPI
transfer adds processes that wait for each other. The list of such hazards, with the line where
each one bites, is in `PROJECT.json`.

## Modules

* `Registry.tla`: the state of the registries, and each operation as an action fragment. The
  slot map is external: a key is a slot and a version, and a slot is handed out again with a
  higher version once it is not in use (`FreshKey`; `issued` records the keys handed out).
* `RelRc.tla`: nodes, edges, references, registration and destruction; composes `Registry`.
* `MCRelRc.tla`: the symmetry sets for TLC.
* `Ownership.tla`: what the documentation of `RelRc` promises, without counts, weak references or
  an order of drops; `RelRc` implements it (`ImplementsOwnership`).
* `HistoryGraph.tla`, `MCHistoryGraph.tla`: graphs as owners of nodes, composed with `RelRc`;
  the views of the petgraph adaptors.
* `Histories.tla`: every acyclic graph that `with_parents` can build from `N` nodes, with reference
  definitions of ancestors. The three modules that follow work on it.
* `Serialization.tla`: `to_serialized` (with the iterator `all_ancestors`), `from_serialized`, and the
  drop of the new graph.
* `Detached.tla`: `detach`, then `attach`.
* `Transfer.tla`, `MCTransfer.tla`: `send_relrc` and `recv_relrc` in two processes.
* `Delivery.tla`: what the documentation of the transfer promises; `Transfer` implements it (`Delivers`).
* `RelRcProofs.tla`, `RegistryProofs.tla`, `HistoryProofs.tla`, `KeptProofs.tla`: the theorems about
  the heap, the registries and history graphs; each module extends the one before it.
* `HistoriesProofs.tla`: lemmas about sequences and about the reference definitions of `Histories`, for
  `SerializationProofs.tla`, `DetachedProofs.tla` and `TransferProofs.tla`, which have the theorems about
  the modules of those names.

Definitions whose comment begins with "Mutant" are deliberately wrong variants of the
definition that follows them. Nothing uses them; substituting one for its original must make
the property named in `PROJECT.json` fail, which shows that the property depends on that code.

### How `RelRc` corresponds to the code

* `live` is the set of addresses whose strong count is above zero; `incoming[a]` is the list of
  the sources of `a`'s edges, `outgoing[a]` the set of its weak edges `(target, index)`
  (indices count from 1; the order of the vector is documented as meaningless), `registry[a]`
  its weak reference to a registry.
* `ptr` and `weak` are the references that the program holds: each slot of `Handle` is a
  `RelRc` or `Edge` value, each slot of `Weak` a `RelWeak` or `WeakEdge` value. Values of nodes
  and edges carry no behaviour other than their `Drop` and are left out.
* Counts are not stored. `std::rc` defines the strong count as the number of strong references,
  so `Rc::strong_count(&self.0) > 1` in `RelRc::drop` is "another strong reference exists"
  (`Owned`), and an allocation is returned when no reference of either kind is left (`Free`).
  A free address may be given to the next node at once, so every stale pointer that the code
  could compare is compared in some behaviour.
* Dropping is modelled in the order in which Rust runs it. `DropHandle` (or the drop of an
  edge) puts the node in `dropping`: `RelRc::drop` is executing and no other code runs.
  `DropShared` is its early return. `DropLast` is the other path: the registry field is taken,
  the id removed if the registry still exists and knows the node, the strong count goes to
  zero, and the node's fields start to be dropped (pushed on `teardown`). `DropNextEdge` drops
  the next incoming edge, and so its source, which may push another frame; `DropOutgoing` drops
  the weak edges and ends the frame.
* The program may run whenever `dropping` is `Null`, also while frames are on `teardown`: this
  is the code of `Drop` implementations of node and edge values.
* An `Rc<RefCell<Registry>>` is an address too (`Registries`): it may be reused once the
  registry is dropped and no node's weak reference names it.

### How `HistoryGraph` corresponds to the code

* The entry of graph `g` under `id` is the handle `<<g, id>>`. The strong references in a graph's
  secondary map are therefore counted like all others by the model of `RelRc`, and what is said
  of handles there holds of graphs. `graph_registry[g]` is the `registry` field.
* A call that takes several steps is in `call[g]`. `insert_ancestors` has one frame per
  activation, with the parents it has yet to visit; `VisitParent` is one turn of its loop, and
  `FindNode`, `StoreNode` and `Refuse` are the three ways through `insert_node`. `insert_node`
  itself is a single frame without parents. A refusal ends the call: `insert_node` returns
  `None`, `insert_ancestors` panics, and what was inserted before stays.
* Destruction of a graph drops its entries one by one (`DropEntry`), each through the whole of
  `RelRc::drop`, and then the registry.
* Nesting: a call records how many nodes were being destroyed when it began. While it is the
  innermost activity only its own steps happen (`Proceeds`); when it drops the last reference to
  a node, the `Drop` code of the value runs inside it and may do everything except use the
  graph that the call has borrowed mutably (`Idle`, `Usable`).
* `Evicted` is `SecondaryMap::insert`: an older version of a key loses its entry. That can only
  happen when ids are removed by hand.

Three specifications, by what the program does: `AncestralSpec` fills graphs by
`insert_ancestors` and registries by `try_register_in`; `KeptSpec` adds `insert_node`,
`Registry::add_node` and clones of registries; `HistorySpec` adds `Registry::remove`.

### How `Serialization` corresponds to the code

The initial states are all histories of `N` nodes, with every choice of which nodes are
registered, which of those are dead, and which are in the graph. `VisitNode` starts `all_ancestors`
at one id of the graph, `NextNode` and `NextNone` are calls of the iterator's `next`,
`SerializeRegistry` is the serialisation of the whole registry with the `retain` that follows, and
`DeserializeNext`, `VisitParent` and `Create` the loop and the recursion that create the nodes again;
`Rebuild` stands for `from_slotmap` and the assertions at the end, and `DropGraph` for the end of the
new graph. Each `expect` and `assert` leads to `pc = "panic"` when it fails. Ids are identified with
the nodes they denote, which `MapsInverse` and the versions of slotmap's keys justify, and are visited
in any order. Two assertions are folded into others: `expect("invalid node_id")` and the last `assert`
of `from_serialized` are about ids that `deserialize_nodes` has just created.

### How `Detached` corresponds to the code

Objects are named by their hash, as in the code, where equal hashes mean equal values and
histories. The initial states are all histories with every `detach_from` and `attach_to`.
`NextAncestor` is one turn of the loop in `ancestors_upto`; `NextEvent` one turn of the loop in
`post_order_for_each`, with `Enter` and `Exit` for its two events and the closures that `attach`
passes in; each `unwrap` leads to `pc = "panic"` when it fails.

### How `Transfer` corresponds to the code

* A transfer is named by its sender `p`. `sender[p]` is the future `send_relrc` of `p`: the messages it
  has yet to hand to MPI, and whether it has ended. `receiver[p]` is the future `recv_relrc` in the
  other process: the parts of the object it is receiving, the objects it has, and where it is.
* `chan[p][t]` are the messages of `p` with tag `t`. MPI is external: it loses nothing and keeps the
  order within a tag. A standard send may return at once or when the message is received; which,
  MPI chooses each time (`SendTag`). A buffered send is the first case.
* A process has one thread, in the future `turn[p]`. It leaves that future when it ends, or when a
  polled receive finds no message (`Pending`). All other receives block, and the send of the thread
  may (`Runs`).
* `Programs` says which process sends what, which call it makes first, and whether it polls.
* The end of `recv_relrc` is two steps, `SendDone` and, when that send has returned, `Attach`. Between
  them the sender may take `Done` and end.
* `MPIMode::Async` occurs for `recv_relrc_async` only. `send_relrc_async` with it is `unimplemented!`, and
  the blocking `recv_relrc` panics; no program of the model calls them so.
* `zero` is the object whose hash is 0, if there is one: its request reads as `Done`.
* `AttachEnds` is `attach`, by what `Detached` shows of it: it may panic only in the third case of
  `AttachPanics` (the second cannot occur, and the first was checked by the loop).

### Properties

Graph: `AncestorsAlive` (the promise in the documentation of `RelRc`), `NoLeak` (no set of
nodes keeps itself alive), `MemoryReturned` (all memory goes back when all references do),
`Acyclic`, `Accounted` (where each node is at every step of a drop), `EdgesAgree` (both
directions of the graph agree, so `Edge::deref` cannot panic and `all_outgoing` misses no child),
`ParentsNeverChange`.

Registries: `MapsInverse`, `PointersNotDangling` (no address that `get_id` compares can belong
to another node), `FieldMeansRegistered` (a registry at the address of an earlier one is never taken
for it), and for programs that use `try_register_in` only, `NoStaleIds` and `OneRegistry`. That a
key of a `SlotMap` is never issued twice is the contract of slotmap; the model assumes it
(`FreshKey`).

History graphs: `GraphsAgreeWithRegistry` (a graph and its registry have each node under the same
id), `DirectionsAgree` (petgraph finds the same edges in both directions, and its `expect("edge
is valid")` never fails), `AncestorClosed` (a graph filled by `insert_ancestors` has the parents of
its nodes at every moment, also after a panic). When ids are removed by hand two things are left:
`SharedIdsConsistent` (no id denotes two nodes) and `ContainedStays` (`insert_node` may silently evict a
node from the graph, but never one that `contains` reports).

Serialization: `RoundTrip`, `DfsOrder`, `PanicsExplained` (the exact circumstances in which the
round trip may fail), `IdsLeftBehind` (which ids survive the nodes of a deserialised graph).

Detached graphs: `DetachedUpto` and `AttachedUpto` (what is cut off and what is rebuilt, against the
reference `Upto`), `PostOrder`, `AttachPanics` (the exact circumstances in which `attach` may fail).

Transfer: `DataIntact`, `TakesTurns`, `SenderServes` (the sender never panics, and ends only when the
receiver has exactly the objects it needs; it may end before the receiver has attached them),
`NothingLeft`, and the refinement `Delivers`.

Refinement: `ImplementsOwnership` maps the live nodes, their parents and the program's references to
`Ownership`; `Delivers` maps the objects received and the end of the receiver to `Delivery`.

Liveness: `CascadeEnds`, `EventuallyCollected` (the liveness half of `Ownership`), `CallsReturn`,
`Ends`, `Delivered`.

## Runs

| Run | Checks | Instance |
|---|---|---|
| `heap` | types, `AncestorsAlive`, `NoLeak`, `EdgesAgree`, `MemoryReturned`, `Acyclic`, `Accounted`, `ParentsNeverChange`, `ImplementsOwnership` | 3 addresses, 3 handles, 1 weak slot, up to 2 parents, no registry |
| `graphs` | types, `GraphsAgreeWithRegistry`, `DirectionsAgree`, `MapsInverse`, `PointersNotDangling` | 2 addresses, 2 handles, 2 graphs, 2 registries, `KeptSpec` |
| `refused` | `AncestorClosed`, `NoStaleIds`, `OneRegistry`, `FieldMeansRegistered` | 3 addresses, 1 parent each, 1 graph, 2 registries, `AncestralSpec`: insertions that panic half way |
| `removed` | `SharedIdsConsistent`, `ContainedStays` | 2 addresses, 2 graphs on 1 registry with 2 slots of 2 versions, `HistorySpec` |
| `live` | `CallsReturn`, `CascadeEnds`, `EventuallyCollected` | 2 addresses, up to 2 parents, 1 graph, `FairKeptSpec`, no symmetry |
| `round_trip` | `RoundTrip`, `DfsOrder`, `PanicsExplained`, `IdsLeftBehind`, `Ends` | every history of 4 nodes with up to 2 parents each, every graph in it, every registry |
| `detached` | `DetachedUpto`, `AttachedUpto`, `PostOrder`, `AttachPanics`, `Ends` | every history of 4 nodes with up to 2 parents each, every `detach_from` and `attach_to` |
| `transfer` | `DataIntact`, `TakesTurns`, `SenderServes`, `NothingLeft`, `Delivers`, `Delivered` | every history of 3 nodes with up to 2 parents each, every set of known objects, every object with hash 0; one transfer, or two in opposite directions where one process receives first |

Four more runs (`ancestors_complete`, `serialize_closed`, `attaches_to`, `send_deadlock`) each show a
statement of the documentation or an assertion of the code failing; see "What does not hold".

The bounds. Three addresses give chains, double edges to the same parent and a node that is
both parent and grandparent of another; they are enough for a dead block, its live parent and a
new node that would reuse the block. Three handles are what it takes to give a node two distinct
parents. For the maps of a registry a dead block and a new node suffice. Two registries
with two slots allow a node to outlive a registry, move to a second one, be removed and be
registered again. Two versions let an id be removed and its slot be reused. `MaxVersion` bounds
how many ids one registry issues between its creation and its drop; `IdsLeft` keeps an
insertion from starting when the ids would not last to its end. In `refused`
`MaxParents` is 1 and there is one graph: chains of three nodes, of which the end is refused when the
beginning is in the graph already. Double edges, nodes that `insert_ancestors` reaches twice and
other graphs on the registry are not in that run; `StaysAncestorClosed` and `GraphIdsFreedInTime` are
proved for histories and sets of graphs of any shape. Four nodes are enough for a diamond with a node behind it, which
is where the walks of `all_ancestors` and `post_order_for_each` go wrong; three in the transfer, for
a parent that is also a grandparent, and for a request whose answer makes another one necessary. All
safety properties of the passing runs are also proved for all sizes ("Proofs"). There is no bound on the length of behaviours: addresses, handles and registries are
recycled, and the state spaces are finite.

Symmetry is used in the safety runs only; all sets of model values are interchangeable.

Fairness (run `live`): `RelRc::drop` waits for nothing, hence weak fairness of `DropShared` and
`DropLast`. The drop glue of a node, and a call on a graph, proceed when the program's `Drop`
code that runs between their steps returns; this is strong fairness of `DropFields(a)` for each
`a` and of `CallStep(g)` for each `g`, because nested drops and calls get in between. Assumed is
therefore that `Drop` implementations of `N` and `E` terminate, nothing else; nothing obliges the
program to drop or to call anything. The round trip is sequential code that waits for nothing,
hence weak fairness of its next step; so are `detach` and `attach`. In the transfer each thread has
weak fairness: it goes on unless it waits for MPI, and MPI delivers what was sent.

### What does not hold

* `ancestors_complete`: `all_ancestors` ends at the first node it meets a second time. With
  `parents(3) = <<2, 1>>, parents(2) = <<1>>` and an ancestor behind 1, that ancestor is missed.
* `serialize_closed`: `to_serialized` serialises every id of the shared registry before it
  selects its own, and panics at a dead id, or at another graph's node whose parent has no id.
* `attaches_to`: `attach` panics although `attaches_to` holds. `post_order_for_each` marks an object
  when it is pushed. With `parents(3) = <<1, 2>>, parents(2) = <<1>>` it creates 2 before 1; with the
  parents of 3 in the other order it does not. The property leaves out objects that were detached
  from themselves: they have no data and cannot be attached either.
* `send_deadlock`: if both processes run `send_relrc_async` and `recv_relrc_async` side by side, each in its
  thread, both may come to wait for an acknowledgement. That receive is blocking even in the
  future, so neither gets to its own receiver. The same programs with the calls in opposite order
  end (`transfer`).

Also noticed, without a run of its own:

* A node whose registry was dropped can never be registered again: `try_set_register` looks at the
  stored weak reference and not at whether it upgrades, while `RelRc::registry` reports that the
  node has none and `try_register_in` promises to refuse only nodes that are "already registered in
  a different registry".
* `insert_ancestors` does not look behind a parent that is in the graph. After `insert_node` of that
  parent alone its own ancestors are left out. Without `insert_node` (and `Registry::add_node`) this
  cannot happen, which is `AncestorClosed`.
* `to_serialized` relies on `all_ancestors`: a history with a shared ancestor that the graph does not
  contain in full is serialised in part, or not at all. This is the third case of
  `PanicsExplained`.
* `RelRc::to_serialized` registers the node in the registry it is given, so that a second call with
  a new registry panics in `insert_ancestors`, also when the first registry is gone.
* A deserialised graph has ids for ancestors it does not contain. These nodes do not know their
  registry, and their ids stay when they die (`IdsLeftBehind` says which).
* `Done` is sent before the object is attached, so the sender ends well even if `attach` panics.
  `SenderServes` is therefore about the objects received, not about the object attached.
* An object with hash 0 cannot be requested: the sender takes the request for `Done` and ends, and
  the receiver waits. `SenderServes` and `Delivered` name this case.
* The test `test_history_graph_serialization` (`src/src/serialization.rs:324`) builds a graph with a
  registry of its own around a node that is registered elsewhere, and asks the new registry of a
  deserialised graph for the ids of the old nodes. The code refuses the first and knows nothing of
  the second, and `src/src/node.rs:103` says that "A node can only be registered in one registry at a
  time"; the model follows the code.
* With `Registry::add_node`, or a clone of a registry, a node is in two registries, and its id may
  outlive it. `NoStaleIds` and `OneRegistry` are about programs that use neither.
* `InnerEdgeData` and `InnerData` implement `Clone`, although the documentation of the former says
  that it cannot be cloned. A copied edge may outlive its target, and its `target()` then
  panics; a node made from copied data is unknown to its parents. `EdgesAgree` and the theorem
  about it are about programs that create nodes with `new` and `with_parents`.
* The documentation of `Registry::free_node_ids` says that cleaning up "is automatically done during
  `get()` calls"; `get` takes `&self` and changes nothing.

## Proofs

The theorems about the heap, the registries and history graphs are for arbitrary sets `Addr`, `Handle`,
`Weak`, `Registries`, `Slots` and `Graphs` (finite or not) and any `MaxParents` and `MaxVersion`. The only
assumptions are that `Null` is none of these values, that `MaxParents` and `MaxVersion` are natural
numbers, and that the entries of graphs are handles (`EntryAssumption`). Those about `Serialization`,
`Detached` and `Transfer` are for histories of any number `N` of nodes with up to any number
`MaxParents` of parents (`BoundsAssumption`), and for any set of programs (`ProgramsAssumption` says what
a program is).

### Heap, registries and history graphs

`RelRcProofs` proves the inductive invariant

    GraphInv == TypeOK /\ AncestorsAlive /\ Accounted /\ EdgesAgree /\ Acyclic

and from it `AncestorsAlive`, `Accounted`, `EdgesAgree`, `Acyclic`, `NoLeak` and the action
property `ParentsNeverChange`. Why the conjuncts need each other:

* `AncestorsAlive` is disturbed by `DropLast` only; the node that dies has no owner
  (`~Owned`), so no handle and no edge names it. That a *new* node disturbs nothing needs
  `Accounted`: a free address has empty fields.
* `Accounted` says that live nodes are owned: when `DropNextEdge` takes an edge away, the only
  node that may lose its last owner is the one that is now `dropping`.
* `EdgesAgree` survives address reuse because a weak edge keeps the address from being free
  (`Free`), and survives `DropNextEdge`, which shifts the edges of a node, because that node is
  on `teardown` and hence not live (`Accounted`).
* `Acyclic` is stated without paths or an order: every set of nodes contains one that is no
  parent of a member. A new node is nobody's parent, so it is the witness for the sets it
  belongs to; all other steps only remove edges. `NoLeak` follows at once: in a set of live
  nodes take that member; it is owned, and not from inside the set.

One lemma per kind of step: most operations are instances of `UseKeepsGraph` (at most one
more reference to a live node, at most dead weak edges pruned); creation, `DropHandle` with
`DropShared`, `DropLast` and the drop glue have their own.

`RegistryProofs` proves `MapsInverse` with two additions (an id in use was issued; a registry
that does not exist is empty), one lemma per operation of the registry, and from it
`PointersNotDangling` and, with `GraphInv`, `MemoryReturned`. For
`TrackedSpec` it adds `Tracked` (a registry knows a node only if the node's registry field names
it), from which `NoStaleIds` and `OneRegistry` follow: `DropLast` removes the id from the one
registry that can have it, and a node that is not live has no registry.

`OwnershipImplemented` is the refinement: under `GraphInv` every action is a step of `Ownership` or
leaves its variables alone. `DropLast` is `Collect` (the node has no owner, so no live node has it
as a parent), `WithParents` is `Create`, a new reference is `Hold`, and `DropHandle` is `Release` or, if
another reference to the node is held, no step.

The rest is about `HistoryGraph`, for any number of graphs (a set `Graphs`), and builds on the above:

* The second half of `RegistryProofs` has what graphs rely on: a slot has one id in use (`SlotInv`); a node
  that someone owns stays, with its parents (`HeapKept`); the steps of `RelRc` other than
  `Registry::remove` keep the ids of live nodes too (`BaseStep`, `FieldStep`); and activations of
  `insert_ancestors` come and go without the nodes of the others losing their owners (`PushFrame`,
  `PopFrame`).
* `HistoryProofs` is about all programs (`HistorySpec`), those that remove ids by hand included. The
  invariant `SharedInv` has the types, `HeapInv` (the invariants of the heap, the registries and the
  slots), and

  * `CallOK`: the nodes of a call's frames are owned while it runs (the argument is held, and each
    frame's node is a parent of the one below it); `ArgsApart`: two calls have two arguments;
  * `EntriesIssued`: the ids of a graph's nodes were issued by its registry, which exists;
  * `SharedIdsConsistent` itself, and `OnePerSlot`: a graph never has two ids of one slot.

  Neither of the last two is inductive alone. A fresh id is new to every graph of the registry only
  because of `EntriesIssued`, and `StoreNode` leaves one value in the slot because the map had one
  there, which it evicts. A step takes `SharedInv` to itself and adds `EntriesKept` (every entry
  of a graph was one of a graph on the same registry, or is known to the registry), which is how the
  next module gets more out of the same proof (`SharedStep`). Hence `SharedIds` and `GraphTypes`.
  `GraphsKeepPromises` carries the theorems about the heap and the registries over to programs with
  graphs, whose steps are not steps of `RelRc` alone. `ContainedNodesStay` is the action property: by
  `EntriesStay` only `StoreNode` takes an entry from a graph that is not being dropped, and by
  `StoreKeepsContained` the entry's id is not registered, because `SlotInv` gives the slot to the new
  node alone.
* `KeptProofs` is about programs that remove no id by hand (`KeptSpec`). Live nodes then keep their ids,
  so that `HistoryInv`, which is `SharedInv` with `GraphsAgreeWithRegistry` and `FieldMeansRegistered`, is
  inductive: by `EntriesKept` an entry is an old one, whose node is alive and keeps its id, or agrees
  already. Hence `GraphsAgree` and `FieldsMeanRegistered`. `WalksAgree` follows from `GraphsAgree` and
  `EdgesAgree` in each state.
* For `AncestralSpec`, `KeptProofs` adds `ClosedInv`: every parent of a frame's node is in the graph, or
  yet to be visited, or the node of the frame above (`Waiting`). When a frame has no parent left to
  visit all of them are in the graph, also when an earlier insertion into the same graph
  panicked half way: `StaysAncestorClosed`. `Tracked` is an invariant of these programs as well,
  whence `GraphIdsFreedInTime`.

### Histories, round trips, detached objects and transfers

`Histories` numbers the nodes so that parents come before children. `HistoriesProofs` shows that
the recursive function behind `Upto` exists (`UptoExists`, `UptoDef`), that its values are
closed under parents up to `S` (`UptoParents`), and that they are the least such sets
(`UptoLeast`). The inductions go through `LeastNumber`: a non-empty set of natural numbers, here
that of the counterexamples, has a least element. The three modules below have one invariant
each; TLC checked it on the instances of the runs before it was proved.

* `SerializationProofs`: `SerializationInv`. In `to_serialized` a loop over `all_ancestors` has
  yielded and queued ancestors only, and the parents of what it yielded are yielded or queued;
  if no ancestor is shared these are all different, so that the iterator ends only with an empty
  queue (`AncestorsOf`). Hence after the loop all ancestors are kept, or one is shared (`Kept`).
  In `from_serialized` each parent of an open activation of `deserialize_node` is created, open
  further in, or yet to be visited (`Waiting`), and nodes were created in the order from the
  innermost activation outwards (`Increasing`), so that a parent that is looked up is never one
  that is still open; each id is left, open or created (`Reading`). From it: `RoundTripIsExact`,
  `DeserializesInDfsOrder`, `RoundTripPanicsExplained` and `RoundTripIdsLeftBehind`.
* `DetachedProofs`: `DetachedInv`. `SearchInv` says of `detach` that what was taken, and what is
  on the stack, is within `Upto` (or in `detach_from`), and that the parents of what was taken
  are taken, on the stack, or in `detach_from`; with an empty stack both inclusions hold.
  `OpenInv` says of `post_order_for_each` that an object is on its stack once, that every event
  is below objects reached from its own object, or from a sibling that comes later (`Below`),
  and that all visited objects are open or created. So a parent that is still open when its
  child is left shows that the history is tangled, which is the third case of `AttachPanics`.
  From it: `DetachTakesHistory`, `AttachCreatesHistory`, `AttachPostOrder` and
  `AttachPanicsExplained`.
* `TransferProofs`: `TransferInv`. `DataInv` says that the receiver has ancestors that it needs
  (`Needed`), each with its data. `PhaseInv` says in which of six phases a transfer is (`Sending`,
  `Deciding`, `Asking`, `Ending`, `Misread`, `Ended`); from `Ending` on the receiver has left its loop
  with nothing left to ask for (`Served`), and hence with all that it needs (`ServedNeeds`). In
  `Sending` the messages of one object are still with the sender, in the channel of their tag, or
  with the receiver (`InTransit`); in all others no part of an object is anywhere. None of the four
  properties is inductive without the phases, and one phase per transfer is enough because two
  transfers in opposite directions use different tags of each channel. From it: `TransferDataIntact`, `TransferTakesTurns`,
  `TransferSenderServes`, `TransferNothingLeft`, and the refinement `TransferDelivers`: the
  last part of an object is `Transfer` of `Delivery`, the end of the receiver is `Attach`, and
  every other step leaves the variables of `Delivery` alone.

Only model-checked: the liveness properties (`CallsReturn`, `CascadeEnds`, `EventuallyCollected`,
`Ends`, `Delivered`), which are out of the prover's reach. Every other property of a passing run is a
theorem, for the specification that the run checks or for one that allows more.

## Not modelled

* Panics of user code and memory exhaustion.
* The borrow flags of the `RefCell`s. Operations of the model happen with no borrow held, so
  the panic of `RelRc::drop` when the last reference to a registered node goes while the
  program borrows its registry is not shown.
* Copies of `InnerData` and `InnerEdgeData` (see above).
* The values of nodes and edges, with `map_value` and `map_nodes`. `Registry::FromIterator` is
  `NewRegistry` followed by `AddNode` for each node and has no action of its own.
* Graphs whose ids were removed by hand are not inputs of `Serialization`.
* Hashes: objects are identified with their hashes, so that collisions are left out. The crate
  module that computes them is not part of the repository.
* Failures of MPI, more than two processes, and a second transfer in the same direction; `NothingLeft`
  says that the first leaves nothing behind for it.
* Resolvers: a trait without state or algorithm, commented out in `lib.rs`.
