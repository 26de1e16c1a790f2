--------------------------- MODULE MCHistoryGraph ---------------------------
(* HistoryGraph for TLC: the slots of the program and of the graphs. *)
EXTENDS HistoryGraph, TLC

CONSTANT Variables      \* the strong references the program may hold

MCHandle == Variables \cup (Graphs \X (Slots \X (1 .. MaxVersion)))

Symmetry ==
  Permutations(Addr) \cup Permutations(Variables) \cup Permutations(Registries)
    \cup Permutations(Slots) \cup Permutations(Graphs)

=============================================================================
