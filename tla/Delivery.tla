------------------------------ MODULE Delivery ------------------------------
(***************************************************************************)
(* What transfers of objects promise (the documentation of                 *)
(* src/src/detached/mpi.rs): the object comes first, then any of the       *)
(* ancestors that the receiver does not have yet, one at a time, "until    *)
(* all ancestors have been transferred".  Nothing else is transferred, and *)
(* nothing twice.                                                          *)
(***************************************************************************)
EXTENDS Functions

CONSTANT Proc   \* the processes that send

VARIABLES
  parents,      \* parents[n]: the parents of the object n
  relrc,        \* relrc[p]: the object that p sends
  known,        \* known[p]: the objects that the receiver of p has
  have,         \* have[p]: the objects that p has transferred
  attached      \* attached[p]: the transfer is over

input == <<parents, relrc, known>>

Missing(p) ==
  IF have[p] = {} THEN {relrc[p]}
  ELSE (UNION {Range(parents[n]) : n \in have[p]}) \ (have[p] \cup known[p])

Init ==
  /\ have = [p \in Proc |-> {}]
  /\ attached = [p \in Proc |-> FALSE]

Transfer(p) ==
  /\ ~attached[p]
  /\ \E n \in Missing(p) : have' = [have EXCEPT ![p] = @ \cup {n}]
  /\ UNCHANGED attached

Attach(p) ==
  /\ ~attached[p]
  /\ Missing(p) = {}
  /\ attached' = [attached EXCEPT ![p] = TRUE]
  /\ UNCHANGED have

Next == (\E p \in Proc : Transfer(p) \/ Attach(p)) /\ UNCHANGED input

Spec == Init /\ [][Next]_<<input, have, attached>>

=============================================================================
