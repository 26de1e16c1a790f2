----------------------------- MODULE Ownership ------------------------------
(***************************************************************************)
(* What the documentation of RelRc promises (node.rs, lines 27 and 28): an *)
(* object "will remain in memory for as long as there is at least one      *)
(* strong reference to it or to one of its descendants"; after that it is  *)
(* given up (README, lines 25 and 26).  There are no counts, no weak       *)
(* references and no order in which drops happen; an object that has lost  *)
(* its last owner may be collected at any later time.                      *)
(***************************************************************************)
CONSTANT Object

VARIABLES
  alive,        \* the objects in memory
  parents,      \* parents[a]: the objects that a owns
  held          \* the objects that the program has strong references to

vars == <<alive, parents, held>>

Init ==
  /\ alive = {}
  /\ parents = [a \in Object |-> {}]
  /\ held = {}

\* A new object is made that owns objects which the program holds.
Create(a, P) ==
  /\ a \notin alive
  /\ P \subseteq held
  /\ alive' = alive \cup {a}
  /\ parents' = [parents EXCEPT ![a] = P]
  /\ held' = held \cup {a}

\* The program gets hold of an object, or lets go of one.
Hold(a) == a \in alive /\ held' = held \cup {a} /\ UNCHANGED <<alive, parents>>
Release(a) == held' = held \ {a} /\ UNCHANGED <<alive, parents>>

Collectable(a) == a \in alive \ held /\ \A c \in alive : a \notin parents[c]

Collect(a) ==
  /\ Collectable(a)
  /\ alive' = alive \ {a}
  /\ parents' = [parents EXCEPT ![a] = {}]
  /\ UNCHANGED held

Next ==
  \E a \in Object :
    (\E P \in SUBSET Object : Create(a, P)) \/ Hold(a) \/ Release(a) \/ Collect(a)

Spec == Init /\ [][Next]_vars

\* No object stays collectable for ever.
Collected == \A a \in Object : []<>~Collectable(a)

=============================================================================
