----------------------------- MODULE Histories ------------------------------
(***************************************************************************)
(* The histories that algorithms over RelRc graphs work on: every acyclic  *)
(* graph that RelRc::with_parents can build from N nodes.  Nodes are       *)
(* numbered in the order of their creation, the parents of a node existed  *)
(* before it, and the same parent may be given twice.                      *)
(***************************************************************************)
EXTENDS Naturals, Sequences, Functions

CONSTANTS
  N,            \* the number of nodes
  MaxParents    \* the most parents a node is given

ASSUME BoundsAssumption == N \in Nat \ {0} /\ MaxParents \in Nat

Node == 1 .. N

Histories ==
  {f \in [Node -> UNION {[1 .. k -> 1 .. N - 1] : k \in 0 .. MaxParents}] :
     \A n \in Node : \A i \in DOMAIN f[n] : f[n][i] < n}

VARIABLE parents    \* parents[n]: the parents of n, in the order of its edges

ParentsOf(n) == Range(parents[n])

\* Reference: for each node, the node and its ancestors up to the nodes of S, which
\* are left out with what lies behind them.
UptoAll(S) ==
  LET up[m \in Node] == IF m \in S THEN {} ELSE {m} \cup UNION {up[p] : p \in ParentsOf(m)}
  IN  up

Upto(n, S) == UptoAll(S)[n]

\* Reference: n and all its ancestors.
Ancestors(n) == Upto(n, {})

\* Vec::pop: the last element of a stack, and the others
Top(s) == s[Len(s)]
Pop(s) == SubSeq(s, 1, Len(s) - 1)

\* A node of S has a parent that is also an ancestor of a parent after it, on a
\* way that does not meet T.
Tangled(S, T) ==
  \E n \in S : \E i, j \in DOMAIN parents[n] :
    i < j /\ parents[n][i] \in Upto(parents[n][j], T) \ {parents[n][j]}

=============================================================================
