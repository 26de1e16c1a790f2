--------------------------- MODULE Serialization ---------------------------
(***************************************************************************)
(* Serialisation of a history graph and back (src/src/serialization.rs):   *)
(* HistoryGraph::to_serialized, then HistoryGraph::from_serialized on its  *)
(* result.  RelRc::to_serialized is the case of a graph that was filled by *)
(* insert_ancestors.                                                       *)
(*                                                                         *)
(* A node of the registry is named by its number instead of its id: an id  *)
(* denotes one node and a node has one id (MapsInverse of RelRc), as long  *)
(* as the program takes no ids away by hand.  The order in which ids are   *)
(* visited, which is that of the slots, is left open.                      *)
(***************************************************************************)
EXTENDS Histories, FiniteSets

VARIABLES
  registered,   \* the nodes with an id in the registry of the graph
  dead,         \* those of them that were added by add_node and are gone
  graph,        \* the nodes of the graph
  pc,           \* where the program is: walk, read, done, dropped or panic
  todo,         \* the ids of the graph that to_serialized has not looked at
  stack,        \* all_ancestors: the queue of nodes to visit
  seen,         \* all_ancestors: the nodes visited
  ids,          \* the nodes with an id in to_serialized's copy of the registry
  ancestors,    \* the ids that are to be kept
  serialized,   \* SerializedRegistry: the incoming edges of each id
  remaining,    \* the ids in serialised_nodes
  calls,        \* the activations of deserialize_node, the innermost first
  all_nodes,    \* the nodes that were created again, with their parents
  new_ids       \* the nodes with an id in the registry of the new graph

input == <<parents, registered, dead, graph>>
iterator == <<stack, seen>>
written == <<todo, ids, ancestors, serialized>>
read == <<remaining, calls, all_nodes, new_ids>>
vars == <<input, pc, iterator, written, read>>

NoIds == [n \in {} |-> <<>>]

\* A graph whose nodes are registered, in a registry that may hold other nodes:
\* those of other graphs, and nodes that died without being deregistered.  A
\* child keeps its parents alive.
Init ==
  /\ parents \in Histories
  /\ registered \in SUBSET Node
  /\ dead \in SUBSET registered
  /\ \A n \in Node : ParentsOf(n) \cap dead # {} => n \in dead
  /\ graph \in SUBSET (registered \ dead)
  /\ pc = "walk"
  /\ todo = graph
  /\ stack = <<>>
  /\ seen = {}
  /\ ids = registered
  /\ ancestors = {}
  /\ serialized = NoIds
  /\ remaining = {}
  /\ calls = <<>>
  /\ all_nodes = NoIds
  /\ new_ids = {}

Panic == pc' = "panic"

-----------------------------------------------------------------------------
(* HistoryGraph::to_serialized *)

\* A loop over RelRc::all_ancestors is running.
Iterating == stack # <<>> \/ seen # {}

\* The loop over the nodes of the graph: all_ancestors of the next one
VisitNode(n) ==
  /\ pc = "walk"
  /\ ~Iterating
  /\ todo' = todo \ {n}
  /\ stack' = <<n>>
  /\ UNCHANGED <<input, pc, seen, ids, ancestors, serialized, read>>

\* stack.extend(node.all_parents())
ExtendBy(n) == parents[n]

\* The iterator yields a node that it has not seen yet.  The node gets an id, and
\* is to be kept.
NextNode ==
  /\ pc = "walk"
  /\ stack # <<>>
  /\ Head(stack) \notin seen
  /\ seen' = seen \cup {Head(stack)}
  /\ stack' = Tail(stack) \o ExtendBy(Head(stack))
  /\ ids' = ids \cup {Head(stack)}
  /\ ancestors' = ancestors \cup {Head(stack)}
  /\ UNCHANGED <<input, pc, todo, serialized, read>>

\* The iterator is out of nodes, or meets one that it has seen before.
Exhausted == Iterating /\ (stack # <<>> => Head(stack) \in seen)

\* It returns None, which ends the loop.
NextNone ==
  /\ pc = "walk"
  /\ Exhausted
  /\ stack' = <<>>
  /\ seen' = {}
  /\ UNCHANGED <<input, pc, written, read>>

Walked == pc = "walk" /\ ~Iterating /\ todo = {}

\* serialize_inner_data finds the node, and the ids of its parents.
ValidNode(k) == k \notin dead /\ ParentsOf(k) \subseteq ids

\* ser_registry.nodes.retain(...)
Retain == ids \cap ancestors

\* Registry::to_serialized serialises every id of the registry, of which those
\* not needed are then removed.  from_serialized starts.
SerializeRegistry ==
  /\ Walked
  /\ \A k \in ids : ValidNode(k)
  /\ serialized' = [k \in Retain |-> parents[k]]
  /\ remaining' = Retain
  /\ pc' = "read"
  /\ UNCHANGED <<input, iterator, todo, ids, ancestors, calls, all_nodes, new_ids>>

\* expect("valid node")
SerializeFails ==
  /\ Walked
  /\ \E k \in ids : ~ValidNode(k)
  /\ Panic
  /\ UNCHANGED <<input, iterator, written, read>>

-----------------------------------------------------------------------------
(* HistoryGraph::from_serialized *)

\* Mutant: the node is read, and stays in serialised_nodes.
CallKeeps(id, rest) ==
  /\ calls' = <<[id |-> id, todo |-> serialized[id]]>> \o rest
  /\ UNCHANGED remaining

\* deserialize_node(id) begins: the node is removed from serialised_nodes.
Call(id, rest) ==
  /\ remaining' = remaining \ {id}
  /\ calls' = <<[id |-> id, todo |-> serialized[id]]>> \o rest

\* The loop of deserialize_nodes
DeserializeNext(id) ==
  /\ pc = "read"
  /\ calls = <<>>
  /\ id \in remaining
  /\ Call(id, <<>>)
  /\ UNCHANGED <<input, pc, iterator, written, all_nodes, new_ids>>

\* Mutant: a parent is created again for each of its children.
VisitParentAgain ==
  LET c == Head(calls)
      p == Head(c.todo)
      rest == <<[id |-> c.id, todo |-> Tail(c.todo)]>> \o Tail(calls) IN
  /\ IF p \in remaining THEN Call(p, rest) /\ UNCHANGED pc
     ELSE Panic /\ UNCHANGED <<remaining, calls>>
  /\ UNCHANGED all_nodes

\* The next parent exists already; or deserialize_node is called for it, which
\* panics with "invalid node_id" if it was not serialised.
VisitParent ==
  LET c == Head(calls)
      p == Head(c.todo)
      rest == <<[id |-> c.id, todo |-> Tail(c.todo)]>> \o Tail(calls) IN
  /\ \/ p \in DOMAIN all_nodes /\ calls' = rest /\ UNCHANGED <<pc, remaining>>
     \/ p \notin DOMAIN all_nodes /\ p \in remaining /\ Call(p, rest) /\ UNCHANGED pc
     \/ p \notin DOMAIN all_nodes \cup remaining /\ Panic /\ UNCHANGED <<remaining, calls>>
  /\ UNCHANGED all_nodes

\* Mutant: parents that are given twice become one.
CreateWithout(id) ==
  /\ LET ps == Range(serialized[id]) IN
     all_nodes' = [k \in DOMAIN all_nodes \cup {id} |->
                     IF k # id THEN all_nodes[k]
                     ELSE CHOOSE s \in [1 .. Cardinality(ps) -> ps] : Range(s) = ps]
  /\ calls' = Tail(calls)
  /\ UNCHANGED <<pc, remaining>>

\* RelRc::with_parents of the nodes created for the parents, which must exist:
\* expect("valid dfs order")
Create(id) ==
  /\ IF Range(serialized[id]) \subseteq DOMAIN all_nodes
     THEN /\ all_nodes' = [k \in DOMAIN all_nodes \cup {id} |->
                             IF k = id THEN serialized[id] ELSE all_nodes[k]]
          /\ calls' = Tail(calls)
          /\ UNCHANGED pc
     ELSE Panic /\ UNCHANGED <<calls, all_nodes>>
  /\ UNCHANGED remaining

\* A step of deserialize_node
DeserializeNode ==
  /\ pc = "read"
  /\ calls # <<>>
  /\ \/ Head(calls).todo # <<>> /\ VisitParent
     \/ Head(calls).todo = <<>> /\ Create(Head(calls).id)
  /\ UNCHANGED <<input, iterator, written, new_ids>>

\* All nodes exist.  The registry is made of them: nodes_set has the ids that
\* deserialize_nodes created, so "invalid node_id" is never met, and every node
\* kept is in it.  What is left of the assertions of HistoryGraph::from_serialized
\* is that the graph has its nodes.
Rebuild ==
  /\ pc = "read"
  /\ calls = <<>>
  /\ remaining = {}
  /\ \/ graph \subseteq DOMAIN all_nodes /\ pc' = "done" /\ new_ids' = DOMAIN all_nodes
     \/ ~(graph \subseteq DOMAIN all_nodes) /\ Panic /\ UNCHANGED new_ids
  /\ UNCHANGED <<input, iterator, written, remaining, calls, all_nodes>>

\* Mutant: from_slotmap registers the nodes for good.
TrackedNone == {}

\* The nodes that know the new registry: HistoryGraph::new calls insert_node, and
\* so try_register_in, for the nodes of the graph.
Tracked == graph

\* The new graph is dropped, and with it all nodes.  Those that know the registry
\* take their ids out of it.
DropGraph ==
  /\ pc = "done"
  /\ new_ids' = new_ids \ Tracked
  /\ pc' = "dropped"
  /\ UNCHANGED <<input, iterator, written, remaining, calls, all_nodes>>

-----------------------------------------------------------------------------

Next ==
  \/ \E n \in todo : VisitNode(n)
  \/ NextNode
  \/ NextNone
  \/ SerializeRegistry
  \/ SerializeFails
  \/ \E id \in remaining : DeserializeNext(id)
  \/ DeserializeNode
  \/ Rebuild
  \/ DropGraph

Spec == Init /\ [][Next]_vars

FairSpec == Spec /\ WF_vars(Next)

-----------------------------------------------------------------------------
(* Reference *)

\* The nodes of the graph and their ancestors.
History == UNION {Ancestors(n) : n \in graph}

\* Some ancestor of n is reached by two edges.
Shared(n) ==
  \E p \in Ancestors(n) : \E c, d \in Ancestors(n) :
    \E i \in DOMAIN parents[c], j \in DOMAIN parents[d] :
      parents[c][i] = p /\ parents[d][j] = p /\ <<c, i>> # <<d, j>>

-----------------------------------------------------------------------------
(* Properties *)

\* What comes back is the graph that went in: the nodes of the graph and their
\* whole history, with the same edges in the same order, however to_serialized
\* and deserialize_node went through the ids.
RoundTrip ==
  pc \in {"done", "dropped"} =>
    DOMAIN all_nodes = History /\ \A n \in History : all_nodes[n] = parents[n]

\* Throughout the recursion of deserialize_node every serialised id is in one
\* of three places: in serialised_nodes, in one open call, or in all_nodes.
\* None is lost or started twice, and what was created has its parents
\* ("valid dfs order").
DfsOrder ==
  pc = "read" =>
    LET open == {calls[i].id : i \in DOMAIN calls} IN
    /\ \A i, j \in DOMAIN calls : calls[i].id = calls[j].id => i = j
    /\ DOMAIN serialized = remaining \cup open \cup DOMAIN all_nodes
    /\ remaining \cap (open \cup DOMAIN all_nodes) = {}
    /\ open \cap DOMAIN all_nodes = {}
    /\ \A n \in DOMAIN all_nodes : ParentsOf(n) \subseteq DOMAIN all_nodes

\* The round trip fails in three cases only: the registry has the id of a dead
\* node; it has a node with a parent that is neither registered nor part of the
\* history of the graph; or the graph lacks part of the history of one of its
\* nodes and that history has a shared ancestor.
PanicsExplained ==
  pc = "panic" =>
    \/ dead # {}
    \/ \E n \in registered : ~(ParentsOf(n) \subseteq registered \cup History)
    \/ \E n \in graph : Shared(n) /\ ~(Ancestors(n) \subseteq graph)

\* to_serialized followed by from_serialized ends.
Ends == <>(pc \in {"dropped", "panic"})

\* When a deserialised graph is dropped, the ids that stay behind in its registry
\* are those of ancestors that the graph did not contain: none if it had the
\* whole history of its nodes, as after RelRc::to_serialized.
IdsLeftBehind == pc = "dropped" => new_ids = History \ graph

\* "valid node" (serialize_inner_data): a graph that has the whole history of
\* its nodes can be serialised.
ClosedGraphSerializes == pc = "panic" => History # graph

\* "Iterate over all ancestors of the object, including self" (all_ancestors):
\* when the iterator ends, what it has seen is a node with all its ancestors.
AllAncestorsComplete == Exhausted => \E n \in seen : seen = Ancestors(n)

=============================================================================
