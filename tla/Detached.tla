------------------------------ MODULE Detached ------------------------------
(***************************************************************************)
(* Detaching an object and attaching it elsewhere (src/src/detached.rs):   *)
(* RelRc::detach(detach_from), then RelRc::attach(detached, attach_to).    *)
(*                                                                         *)
(* An object is named by its hash, as in the code: objects with the same   *)
(* hash have equal values and histories.  The data of a detached object    *)
(* are the hashes of its parents.                                          *)
(***************************************************************************)
EXTENDS Histories

VARIABLES
  current,      \* the object that is detached
  detach_from,  \* the hashes given to detach
  attach_to,    \* the objects given to attach
  pc,           \* where the program is: detach, attach, done or panic
  stack,        \* ancestors_upto: the objects to look at, the next one last
  all_data,     \* Detached: the hashes of the objects it has the data of
  events,       \* post_order_for_each: its stack, the next event last
  visited,      \* post_order_for_each: the objects it has pushed
  all_new       \* attach: the objects created (all_new_relrc)

input == <<parents, current, detach_from, attach_to>>
vars == <<input, pc, stack, all_data, events, visited, all_new>>

DfsEnter(v) == [kind |-> "enter", node |-> v]
DfsExit(v)  == [kind |-> "exit", node |-> v]

Init ==
  /\ parents \in Histories
  /\ current \in Node
  /\ detach_from \in SUBSET Node
  /\ attach_to \in SUBSET Node
  /\ pc = "detach"
  /\ stack = <<current>>
  /\ all_data = {}
  /\ events = <<>>
  /\ visited = {}
  /\ all_new = {}

-----------------------------------------------------------------------------
(* RelRc::detach *)

\* Mutant: the parents of an object in detach_from are looked at.
SkipLate(n) == n \in all_data

\* An object that ancestors_upto has already, or leaves out.
Skip(n) == n \in all_data \cup detach_from

\* Mutant: the object is left on the stack.
PeekAncestor ==
  /\ pc = "detach"
  /\ stack # <<>>
  /\ all_data' = all_data \cup ({Top(stack)} \ detach_from)
  /\ UNCHANGED <<input, stack, pc, events, visited, all_new>>

\* The loop of ancestors_upto, and Detached::new of what it returns
NextAncestor ==
  /\ pc = "detach"
  /\ stack # <<>>
  /\ LET n == Top(stack) IN
     \/ Skip(n) /\ stack' = Pop(stack) /\ UNCHANGED all_data
     \/ ~Skip(n) /\ stack' = Pop(stack) \o parents[n] /\ all_data' = all_data \cup {n}
  /\ UNCHANGED <<input, pc, events, visited, all_new>>

\* Detached::required_hashes
RequiredHashes == (UNION {ParentsOf(n) : n \in all_data}) \ all_data

\* Detached::attaches_to
AttachesTo == RequiredHashes \subseteq attach_to

-----------------------------------------------------------------------------
(* RelRc::attach *)

\* attach is called: the object is there already, or the search begins.
Attach ==
  /\ pc = "detach"
  /\ stack = <<>>
  /\ IF current \in attach_to THEN pc' = "done" /\ UNCHANGED events
     ELSE pc' = "attach" /\ events' = <<DfsEnter(current)>>
  /\ UNCHANGED <<input, stack, all_data, visited, all_new>>

\* Mutant: visited.insert(u) is not asked.
PushAll(v) == parents[v]

\* The successors of v that are pushed, in their order: visit(u) && visited.insert(u)
Push(v) ==
  LET pushed[i \in 0 .. Len(parents[v])] ==
        IF i = 0 THEN <<>>
        ELSE IF parents[v][i] \in attach_to \cup visited \cup Range(pushed[i - 1])
             THEN pushed[i - 1] ELSE Append(pushed[i - 1], parents[v][i])
  IN  pushed[Len(parents[v])]

\* Mutant: the successors go below the exit of v.
EnterAfter(v) ==
  /\ events' = [k \in DOMAIN Push(v) |-> DfsEnter(Push(v)[k])] \o Pop(events) \o <<DfsExit(v)>>
  /\ visited' = visited \cup Range(Push(v))
  /\ UNCHANGED <<pc, all_new>>

\* post_order_for_each meets DfsEnter(v) and asks attach for the successors of v,
\* its parents: the data of v must be there.
Enter(v) ==
  \/ /\ v \in all_data
     /\ events' = Pop(events) \o <<DfsExit(v)>> \o [k \in DOMAIN Push(v) |-> DfsEnter(Push(v)[k])]
     /\ visited' = visited \cup Range(Push(v))
     /\ UNCHANGED <<pc, all_new>>
  \/ v \notin all_data /\ pc' = "panic" /\ UNCHANGED <<events, visited, all_new>>

\* post_order_for_each meets DfsExit(v), and calls f: RelRc::with_parents of the
\* parents, "All parents must already be in all_new_relrc or attach_to".
Exit(v) ==
  /\ \/ ParentsOf(v) \subseteq all_new \cup attach_to
        /\ all_new' = all_new \cup {v} /\ events' = Pop(events) /\ UNCHANGED pc
     \/ ~(ParentsOf(v) \subseteq all_new \cup attach_to)
        /\ pc' = "panic" /\ UNCHANGED <<events, all_new>>
  /\ UNCHANGED visited

\* The loop of post_order_for_each
NextEvent ==
  /\ pc = "attach"
  /\ events # <<>>
  /\ \/ Top(events).kind = "enter" /\ Enter(Top(events).node)
     \/ Top(events).kind = "exit" /\ Exit(Top(events).node)
  /\ UNCHANGED <<input, stack, all_data>>

\* attach returns the object created for current.
Attached ==
  /\ pc = "attach"
  /\ events = <<>>
  /\ pc' = IF current \in all_new THEN "done" ELSE "panic"
  /\ UNCHANGED <<input, stack, all_data, events, visited, all_new>>

-----------------------------------------------------------------------------

Next == NextAncestor \/ Attach \/ NextEvent \/ Attached

Spec == Init /\ [][Next]_vars

\* Sequential code that waits for nothing
FairSpec == Spec /\ WF_vars(Next)

-----------------------------------------------------------------------------
(* Properties *)

\* What detach returns is the object with its history up to detach_from, however
\* its parents are shared; so all it requires is in detach_from: "the objects
\* that will be available when the object is re-attached".
DetachedUpto ==
  pc # "detach" =>
    all_data = Upto(current, detach_from) /\ RequiredHashes \subseteq detach_from

\* attach creates the history of the object up to the objects it attaches to,
\* and nothing that is in attach_to a second time.
AttachedUpto ==
  /\ all_new \cap attach_to = {}
  /\ pc = "done" => (current \in attach_to /\ all_new = {}) \/ all_new = Upto(current, attach_to)

\* Throughout post_order_for_each every object it has pushed is in one place: on
\* the stack, to be entered or to be left, or created; it is on the stack once,
\* and what was created has its parents.
PostOrder ==
  pc = "attach" =>
    LET open == {events[i].node : i \in DOMAIN events} IN
    /\ \A i, j \in DOMAIN events : events[i].node = events[j].node => i = j
    /\ open \cap all_new = {}
    /\ visited \cup {current} = open \cup all_new
    /\ \A n \in all_new : ParentsOf(n) \subseteq all_new \cup attach_to

\* attach panics in three cases only: a required object is missing; the object
\* itself was in detach_from, so that its data are not there; or a parent of
\* some object is an ancestor of a parent that comes after it.
AttachPanics ==
  pc = "panic" =>
    /\ current \notin attach_to
    /\ \/ ~AttachesTo
       \/ current \in detach_from
       \/ Tangled(all_data \ attach_to, attach_to)

\* detach and attach end.
Ends == <>(pc \in {"done", "panic"})

\* "Check if trying to attach `self` to the objects in `attach_to` will succeed"
\* (Detached::attaches_to): so it must for every object whose own data were
\* detached, that is, one that is not in detach_from.
AttachesToSuffices == AttachesTo /\ current \notin detach_from => pc # "panic"

=============================================================================
