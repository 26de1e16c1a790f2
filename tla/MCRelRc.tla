------------------------------ MODULE MCRelRc -------------------------------
(* RelRc for TLC: the sets of model values that may be permuted. *)
EXTENDS RelRc, TLC

Symmetry ==
  Permutations(Addr) \cup Permutations(Handle) \cup Permutations(Weak)
    \cup Permutations(Registries) \cup Permutations(Slots)

=============================================================================
