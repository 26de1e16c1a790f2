------------------------ MODULE SerializationProofs ------------------------
(***************************************************************************)
(* Proofs about Serialization: what the round trip of a graph gives back,  *)
(* and when it fails, for every history, every graph and every registry.   *)
(***************************************************************************)
EXTENDS Serialization, HistoriesProofs

-----------------------------------------------------------------------------
(* The inductive invariant *)

Activation == [id : Node, todo : Seq(Node)]

SerializationTypeOK ==
  /\ parents \in Histories
  /\ registered \in SUBSET Node
  /\ graph \in SUBSET registered
  /\ pc \in {"walk", "read", "done", "dropped", "panic"}
  /\ todo \in SUBSET graph
  /\ stack \in Seq(Node)
  /\ seen \in SUBSET Node
  /\ calls \in Seq(Activation)
  /\ DOMAIN all_nodes \in SUBSET Node

\* A loop over all_ancestors of n was run.  The set A of nodes to be kept has n
\* itself; and all ancestors, unless one of them is shared.
Kept(n, A) == n \in A /\ (Shared(n) \/ Ancestors(n) \subseteq A)

\* What all_ancestors of r has yielded, ys, or queued, q, has no node twice, and each
\* one came from one child.
Distinct(r, q, ys) ==
  /\ Range(q) \cap ys = {}
  /\ \A i, j \in DOMAIN q : q[i] = q[j] => i = j
  /\ \A p \in (ys \cup Range(q)) \ {r} : \E c \in ys : p \in ParentsOf(c)

\* The state of the loop over all_ancestors of r: what was yielded and what is queued
\* are ancestors, with their parents; and all different if no ancestor is shared.
AncestorsOf(r, q, ys) ==
  /\ ys \cup Range(q) \subseteq Ancestors(r)
  /\ ys = {} => q = <<r>>
  /\ ys # {} => r \in ys
  /\ \A m \in ys : ParentsOf(m) \subseteq ys \cup Range(q)
  /\ Shared(r) \/ Distinct(r, q, ys)

\* The loop of to_serialized over the nodes of the graph, of which td are left: one of
\* the others may be looked at; and of the rest, all that all_ancestors yielded is in A.
Walking(q, ys, A, td) ==
  /\ ys \subseteq A
  /\ A \subseteq History
  /\ q # <<>> \/ ys # {} =>
       \E r \in graph \ td : AncestorsOf(r, q, ys) /\ \A n \in (graph \ td) \ {r} : Kept(n, A)
  /\ q = <<>> /\ ys = {} => \A n \in graph \ td : Kept(n, A)

WalkInv ==
  /\ Walking(stack, seen, ancestors, todo)
  /\ ids = registered \cup ancestors
  /\ pc = "walk" => calls = <<>> /\ all_nodes = NoIds
  /\ pc = "read" => stack = <<>> /\ seen = {} /\ todo = {}

\* The ids of a stack of activations of deserialize_node, the innermost first
IdsOf(s) == {s[i].id : i \in DOMAIN s}

\* An activation is for an ancestor of the node of the one that made the call, which
\* was created before it.
Increasing(s) == \A i, j \in DOMAIN s : i < j => s[i].id < s[j].id

\* The parents of the node of an activation are still to be looked at; or they are in
\* the set D of nodes that exist, or are being created further in.
Waiting(s, D) ==
  \A i \in DOMAIN s :
    /\ Range(s[i].todo) \subseteq ParentsOf(s[i].id)
    /\ ParentsOf(s[i].id) \subseteq Range(s[i].todo) \cup D \cup {s[j].id : j \in 1 .. i - 1}

\* The recursion of deserialize_node over the ids A: those in rem are left, those of the
\* activations s are open, and the nodes of D exist.
Reading(rem, s, D, A) ==
  /\ Increasing(s)
  /\ Waiting(s, D)
  /\ A = rem \cup IdsOf(s) \cup D
  /\ rem \cap (IdsOf(s) \cup D) = {}
  /\ IdsOf(s) \cap D = {}
  /\ \A n \in D : ParentsOf(n) \subseteq D

ReadInv ==
  /\ DOMAIN serialized = ancestors
  /\ \A k \in ancestors : serialized[k] = parents[k]
  /\ Reading(remaining, calls, DOMAIN all_nodes, ancestors)
  /\ \A n \in DOMAIN all_nodes : all_nodes[n] = parents[n]

SerializationInv ==
  /\ SerializationTypeOK
  /\ WalkInv
  /\ pc = "read" => ReadInv
  /\ RoundTrip
  /\ pc = "done" => new_ids = History
  /\ IdsLeftBehind
  /\ PanicsExplained

\* What PanicsExplained says of the graph and its registry
Explained ==
  \/ dead # {}
  \/ \E n \in registered : ~(ParentsOf(n) \subseteq registered \cup History)
  \/ \E n \in graph : Shared(n) /\ ~(Ancestors(n) \subseteq graph)

-----------------------------------------------------------------------------
(* Sequences *)

\* The first element of a sequence, and the others
LEMMA TakeFront ==
  ASSUME NEW S, NEW s \in Seq(S), s # <<>>
  PROVE  /\ Len(s) \in Nat \ {0}
         /\ Head(s) = s[1] /\ Head(s) \in S
         /\ Tail(s) \in Seq(S)
         /\ Len(Tail(s)) = Len(s) - 1
         /\ \A i \in 1 .. Len(s) - 1 : Tail(s)[i] = s[i + 1]
         /\ Range(s) = {Head(s)} \cup Range(Tail(s))
<1>1. Len(s) \in Nat \ {0} /\ DOMAIN s = 1 .. Len(s)
  OBVIOUS
<1>2. Head(s) = s[1] /\ Head(s) \in S
  BY <1>1
<1>3. /\ Tail(s) \in Seq(S)
      /\ Len(Tail(s)) = Len(s) - 1
      /\ \A i \in 1 .. Len(s) - 1 : Tail(s)[i] = s[i + 1]
  BY <1>1
<1>4. Range(s) = {s[i] : i \in 1 .. Len(s)} /\ Range(Tail(s)) = {Tail(s)[i] : i \in 1 .. Len(s) - 1}
  BY <1>3, RangeOf, Zenon
<1>5. Range(s) \subseteq {Head(s)} \cup Range(Tail(s))
  <2> SUFFICES ASSUME NEW i \in 1 .. Len(s) PROVE s[i] \in {Head(s)} \cup Range(Tail(s))
    BY <1>4
  <2>1. CASE i = 1
    BY <2>1, <1>2
  <2>2. CASE i # 1
    <3>1. i - 1 \in 1 .. Len(s) - 1 /\ i - 1 + 1 = i
      BY <2>2, <1>1
    <3>2. s[i] = Tail(s)[i - 1]
      BY <3>1, <1>3
    <3> QED
      BY <3>1, <3>2, <1>4, Zenon
  <2> QED
    BY <2>1, <2>2
<1>6. {Head(s)} \cup Range(Tail(s)) \subseteq Range(s)
  <2>1. \A i \in 1 .. Len(s) - 1 : i + 1 \in 1 .. Len(s)
    BY <1>1
  <2> QED
    BY <2>1, <1>1, <1>2, <1>3, <1>4
<1> QED
  BY <1>1, <1>2, <1>3, <1>5, <1>6

\* u is s followed by t.
Joined(u, s, t) == u = s \o t

\* t is x in front of s.
Pushed(t, x, s) == t = <<x>> \o s

\* An element is put in front of a sequence.
LEMMA PushFront ==
  ASSUME NEW S, NEW s \in Seq(S), NEW x \in S, NEW t, Pushed(t, x, s)
  PROVE  /\ t \in Seq(S) /\ t # <<>> /\ t[1] = x
         /\ Len(t) = Len(s) + 1
         /\ DOMAIN t = 1 .. Len(s) + 1
         /\ \A i \in 1 .. Len(s) : t[i + 1] = s[i]
         /\ \A i \in 2 .. Len(s) + 1 : t[i] = s[i - 1] /\ i - 1 \in 1 .. Len(s)
<1>1. <<x>> \in Seq(S) /\ Len(<<x>>) = 1 /\ <<x>>[1] = x
  OBVIOUS
<1>2. /\ t \in Seq(S) /\ Len(t) = Len(s) + 1
      /\ \A i \in 1 .. Len(s) + 1 : t[i] = IF i <= 1 THEN <<x>>[i] ELSE s[i - 1]
  BY <1>1, Concatenated DEF Pushed
<1>3. Len(s) \in Nat /\ DOMAIN t = 1 .. Len(s) + 1
  BY <1>2
<1>4. t[1] = x
  BY <1>1, <1>2, <1>3
<1>5. ASSUME NEW i \in 2 .. Len(s) + 1 PROVE t[i] = s[i - 1] /\ i - 1 \in 1 .. Len(s)
  <2>1. i \in 1 .. Len(s) + 1 /\ ~(i <= 1) /\ i - 1 \in 1 .. Len(s)
    BY <1>3
  <2> QED
    BY <2>1, <1>2
<1>6. \A i \in 1 .. Len(s) : t[i + 1] = s[i]
  BY <1>2, <1>3
<1> QED
  BY <1>2, <1>3, <1>4, <1>5, <1>6

\* The elements of two sequences, one by one ...
LEMMA JoinedAt ==
  ASSUME NEW S, NEW s \in Seq(S), NEW t \in Seq(S), NEW u, Joined(u, s, t)
  PROVE  /\ u \in Seq(S)
         /\ Len(u) = Len(s) + Len(t)
         /\ \A i \in 1 .. Len(s) : u[i] = s[i]
         /\ \A i \in Len(s) + 1 .. Len(s) + Len(t) : u[i] = t[i - Len(s)] /\ i - Len(s) \in 1 .. Len(t)
<1>1. /\ u \in Seq(S) /\ Len(u) = Len(s) + Len(t)
      /\ \A i \in 1 .. Len(s) + Len(t) : u[i] = IF i <= Len(s) THEN s[i] ELSE t[i - Len(s)]
  BY Concatenated DEF Joined
<1>2. Len(s) \in Nat /\ Len(t) \in Nat
  OBVIOUS
<1>3. \A i \in 1 .. Len(s) : u[i] = s[i]
  BY <1>1, <1>2
<1>4. \A i \in Len(s) + 1 .. Len(s) + Len(t) : u[i] = t[i - Len(s)] /\ i - Len(s) \in 1 .. Len(t)
  BY <1>1, <1>2
<1> QED
  BY <1>1, <1>3, <1>4

\* ... and together
LEMMA JoinedRange ==
  ASSUME NEW S, NEW s \in Seq(S), NEW t \in Seq(S), NEW u, Joined(u, s, t)
  PROVE  u \in Seq(S) /\ Range(u) = Range(s) \cup Range(t)
BY Concatenated, RangeConcatenated DEF Joined

-----------------------------------------------------------------------------
(* The activations of deserialize_node *)

\* The ids of a stack of activations
LEMMA IdsOfSeq ==
  ASSUME NEW s \in Seq(Activation)
  PROVE  /\ IdsOf(s) = {s[i].id : i \in 1 .. Len(s)}
         /\ \A i \in 1 .. Len(s) : s[i].id \in Node /\ s[i].todo \in Seq(Node)
         /\ IdsOf(s) \subseteq Node
<1>1. DOMAIN s = 1 .. Len(s) /\ \A i \in 1 .. Len(s) : s[i] \in Activation
  OBVIOUS
<1>2. \A i \in 1 .. Len(s) : s[i].id \in Node /\ s[i].todo \in Seq(Node)
  BY <1>1 DEF Activation
<1> QED
  BY <1>1, <1>2 DEF IdsOf

\* deserialize_node is called: the new activation has all its parents in front of it.
LEMMA PushCall ==
  ASSUME NEW D, NEW s \in Seq(Activation), NEW c \in Activation, NEW t, Pushed(t, c, s),
         c.todo = parents[c.id],
         Increasing(s), Waiting(s, D \cup {c.id}),
         \A i \in 1 .. Len(s) : c.id < s[i].id
  PROVE  /\ t \in Seq(Activation)
         /\ IdsOf(t) = IdsOf(s) \cup {c.id}
         /\ Increasing(t)
         /\ Waiting(t, D)
<1>1. /\ t \in Seq(Activation) /\ t[1] = c /\ DOMAIN t = 1 .. Len(s) + 1 /\ Len(t) = Len(s) + 1
      /\ \A i \in 1 .. Len(s) : t[i + 1] = s[i]
      /\ \A i \in 2 .. Len(s) + 1 : t[i] = s[i - 1] /\ i - 1 \in 1 .. Len(s)
  BY PushFront
<1>2. Len(s) \in Nat /\ DOMAIN s = 1 .. Len(s)
  OBVIOUS
<1>3. IdsOf(t) = IdsOf(s) \cup {c.id}
  <2>1. IdsOf(t) = {t[i].id : i \in 1 .. Len(s) + 1} /\ IdsOf(s) = {s[i].id : i \in 1 .. Len(s)}
    BY <1>1, <1>2 DEF IdsOf
  <2>2. \A i \in 1 .. Len(s) + 1 : i = 1 \/ i \in 2 .. Len(s) + 1
    BY <1>2
  <2>3. \A i \in 1 .. Len(s) : i + 1 \in 1 .. Len(s) + 1
    BY <1>2
  <2>4. 1 \in 1 .. Len(s) + 1
    BY <1>2
  <2>5. ASSUME NEW i \in 1 .. Len(s) + 1 PROVE t[i].id \in IdsOf(s) \cup {c.id}
    <3>1. t[i] = c \/ (t[i] = s[i - 1] /\ i - 1 \in 1 .. Len(s))
      BY <2>2, <1>1
    <3> QED
      BY <3>1, <2>1
  <2>6. ASSUME NEW x \in IdsOf(s) PROVE x \in IdsOf(t)
    BY <2>1, <2>3, <1>1
  <2>7. c.id \in IdsOf(t)
    BY <2>1, <2>4, <1>1
  <2> QED
    BY <2>1, <2>5, <2>6, <2>7, ZenonT(30)
<1>4. Increasing(t)
  <2> SUFFICES ASSUME NEW i \in 1 .. Len(s) + 1, NEW j \in 1 .. Len(s) + 1, i < j
               PROVE  t[i].id < t[j].id
    BY <1>1 DEF Increasing
  <2>1. j \in 2 .. Len(s) + 1 /\ (i = 1 \/ i \in 2 .. Len(s) + 1)
    BY <1>2
  <2>2. t[j] = s[j - 1] /\ j - 1 \in 1 .. Len(s)
    BY <2>1, <1>1
  <2>3. CASE i = 1
    BY <2>2, <2>3, <1>1
  <2>4. CASE i \in 2 .. Len(s) + 1
    <3>1. t[i] = s[i - 1] /\ i - 1 \in 1 .. Len(s) /\ i - 1 < j - 1
      BY <2>4, <1>1, <1>2
    <3> QED
      BY <3>1, <2>2, <1>2 DEF Increasing
  <2> QED
    BY <2>1, <2>3, <2>4
<1>5. Waiting(t, D)
  <2> SUFFICES ASSUME NEW i \in 1 .. Len(s) + 1
               PROVE  /\ Range(t[i].todo) \subseteq ParentsOf(t[i].id)
                      /\ ParentsOf(t[i].id) \subseteq
                           Range(t[i].todo) \cup D \cup {t[j].id : j \in 1 .. i - 1}
    BY <1>1, Zenon DEF Waiting
  <2>1. CASE i = 1
    <3>1. Range(t[i].todo) = ParentsOf(t[i].id)
      BY <2>1, <1>1 DEF ParentsOf
    <3> QED
      BY <3>1
  <2>2. CASE i \in 2 .. Len(s) + 1
    <3>1. t[i] = s[i - 1] /\ i - 1 \in 1 .. Len(s)
      BY <2>2, <1>1
    <3>2. /\ Range(t[i].todo) \subseteq ParentsOf(t[i].id)
          /\ ParentsOf(t[i].id) \subseteq
               Range(t[i].todo) \cup (D \cup {c.id}) \cup {s[j].id : j \in 1 .. i - 1 - 1}
      BY <3>1, <1>2 DEF Waiting
    <3>3. \A j \in 1 .. i - 1 - 1 : j \in 1 .. Len(s) /\ j + 1 \in 1 .. i - 1
      BY <2>2, <1>2
    <3>4. {s[j].id : j \in 1 .. i - 1 - 1} \subseteq {t[j].id : j \in 1 .. i - 1}
      BY <3>3, <1>1
    <3>5. 1 \in 1 .. i - 1
      BY <2>2, <1>2
    <3>6. c.id \in {t[j].id : j \in 1 .. i - 1}
      BY <3>5, <1>1
    <3> HIDE DEF Waiting
    <3> QED
      BY <3>2, <3>4, <3>6, Zenon
  <2> QED
    BY <2>1, <2>2, <1>2
<1> QED
  BY <1>1, <1>3, <1>4, <1>5

\* An activation whose parents all exist returns.
LEMMA ReturnCall ==
  ASSUME NEW D, NEW s \in Seq(Activation), s # <<>>, Head(s).todo = <<>>,
         Increasing(s), Waiting(s, D)
  PROVE  /\ Tail(s) \in Seq(Activation)
         /\ Head(s).id \in Node
         /\ ParentsOf(Head(s).id) \subseteq D
         /\ IdsOf(s) = IdsOf(Tail(s)) \cup {Head(s).id}
         /\ Head(s).id \notin IdsOf(Tail(s))
         /\ Increasing(Tail(s))
         /\ Waiting(Tail(s), D \cup {Head(s).id})
<1> DEFINE t == Tail(s)
           n == Head(s).id
<1>1. /\ Len(s) \in Nat \ {0} /\ Head(s) = s[1] /\ Head(s) \in Activation
      /\ t \in Seq(Activation) /\ Len(t) = Len(s) - 1
      /\ \A i \in 1 .. Len(s) - 1 : t[i] = s[i + 1]
  BY TakeFront, Zenon
<1>2. DOMAIN s = 1 .. Len(s) /\ DOMAIN t = 1 .. Len(s) - 1 /\ n = s[1].id /\ n \in Node
  BY <1>1 DEF Activation
<1> HIDE DEF t, n
<1>3. \A i \in 1 .. Len(s) - 1 : i + 1 \in 1 .. Len(s) /\ 1 < i + 1 /\ 1 \in 1 .. Len(s)
  BY <1>1
<1>4. ParentsOf(n) \subseteq D
  <2>1. 1 \in DOMAIN s /\ 1 .. 1 - 1 = {}
    BY <1>1, <1>2
  <2>2. ParentsOf(s[1].id) \subseteq Range(s[1].todo) \cup D \cup {s[j].id : j \in 1 .. 1 - 1}
    BY <2>1 DEF Waiting
  <2>3. Range(s[1].todo) = {}
    BY <1>1 DEF Range
  <2> QED
    BY <2>1, <2>2, <2>3, <1>2
<1>5. IdsOf(s) = IdsOf(t) \cup {n}
  <2>1. IdsOf(s) = {s[i].id : i \in 1 .. Len(s)} /\ IdsOf(t) = {t[i].id : i \in 1 .. Len(s) - 1}
    BY <1>2 DEF IdsOf
  <2>2. \A i \in 1 .. Len(s) : i = 1 \/ (i - 1 \in 1 .. Len(s) - 1 /\ i - 1 + 1 = i)
    BY <1>1
  <2>3. ASSUME NEW i \in 1 .. Len(s) PROVE s[i].id \in IdsOf(t) \cup {n}
    <3>1. CASE i = 1
      BY <3>1, <1>2
    <3>2. CASE i # 1
      <4>1. s[i] = t[i - 1] /\ i - 1 \in 1 .. Len(s) - 1
        BY <3>2, <2>2, <1>1
      <4> QED
        BY <4>1, <2>1
    <3> QED
      BY <3>1, <3>2
  <2>4. IdsOf(t) \cup {n} \subseteq IdsOf(s)
    <3>1. 1 \in 1 .. Len(s)
      BY <1>1
    <3> QED
      BY <3>1, <2>1, <1>1, <1>2, <1>3
  <2> QED
    BY <2>1, <2>3, <2>4, ZenonT(30)
<1>6. n \notin IdsOf(t)
  <2> SUFFICES ASSUME NEW i \in 1 .. Len(s) - 1, n = t[i].id PROVE FALSE
    BY <1>2 DEF IdsOf
  <2>1. s[1].id < s[i + 1].id
    BY <1>2, <1>3 DEF Increasing
  <2>2. t[i] = s[i + 1]
    BY <1>1
  <2>3. n < n
    BY <2>1, <2>2, <1>2
  <2>4. n \in Nat
    BY <1>2, BoundsAssumption DEF Node
  <2> QED
    BY <2>3, <2>4
<1>7. Increasing(t)
  <2> SUFFICES ASSUME NEW i \in 1 .. Len(s) - 1, NEW j \in 1 .. Len(s) - 1, i < j
               PROVE  t[i].id < t[j].id
    BY <1>2 DEF Increasing
  <2>1. i + 1 < j + 1
    BY <1>1
  <2>2. s[i + 1].id < s[j + 1].id
    BY <2>1, <1>2, <1>3 DEF Increasing
  <2> QED
    BY <2>2, <1>1
<1>8. Waiting(t, D \cup {n})
  <2> SUFFICES ASSUME NEW i \in 1 .. Len(s) - 1
               PROVE  /\ Range(t[i].todo) \subseteq ParentsOf(t[i].id)
                      /\ ParentsOf(t[i].id) \subseteq
                           Range(t[i].todo) \cup (D \cup {n}) \cup {t[j].id : j \in 1 .. i - 1}
    BY <1>2, Zenon DEF Waiting
  <2>1. /\ Range(s[i + 1].todo) \subseteq ParentsOf(s[i + 1].id)
        /\ ParentsOf(s[i + 1].id) \subseteq
             Range(s[i + 1].todo) \cup D \cup {s[j].id : j \in 1 .. i + 1 - 1}
    BY <1>2, <1>3 DEF Waiting
  <2>2. ASSUME NEW j \in 1 .. i + 1 - 1 PROVE s[j].id = n \/ s[j].id \in {t[k].id : k \in 1 .. i - 1}
    <3>1. CASE j = 1
      BY <3>1, <1>2
    <3>2. CASE j # 1
      <4>1. j - 1 \in 1 .. i - 1 /\ j - 1 \in 1 .. Len(s) - 1 /\ j - 1 + 1 = j
        BY <3>2, <1>1
      <4>2. t[j - 1] = s[j]
        BY <4>1, <1>1
      <4> QED
        BY <4>1, <4>2
    <3> QED
      BY <3>1, <3>2
  <2>3. t[i] = s[i + 1]
    BY <1>1
  <2> QED
    BY <2>1, <2>2, <2>3
<1> QED
  BY <1>1, <1>2, <1>4, <1>5, <1>6, <1>7, <1>8 DEF t, n

\* The innermost activation goes on to the parent after p.
LEMMA AdvanceCall ==
  ASSUME parents \in Histories, NEW D, NEW s \in Seq(Activation), s # <<>>,
         Head(s).todo # <<>>, Increasing(s), Waiting(s, D),
         NEW p, p = Head(Head(s).todo),
         NEW t, Pushed(t, [id |-> Head(s).id, todo |-> Tail(Head(s).todo)], Tail(s))
  PROVE  /\ t \in Seq(Activation)
         /\ IdsOf(t) = IdsOf(s)
         /\ Increasing(t)
         /\ Waiting(t, D \cup {p})
         /\ Head(s).id \in IdsOf(s) /\ p \in ParentsOf(Head(s).id)
         /\ \A i \in 1 .. Len(t) : p < t[i].id
<1> DEFINE h == Head(s)
           c == [id |-> Head(s).id, todo |-> Tail(Head(s).todo)]
           r == Tail(s)
<1>1. /\ Len(s) \in Nat \ {0} /\ h = s[1] /\ h \in Activation
      /\ r \in Seq(Activation) /\ Len(r) = Len(s) - 1
      /\ \A i \in 1 .. Len(s) - 1 : r[i] = s[i + 1]
  BY TakeFront, Zenon
<1>2. h.id \in Node /\ h.todo \in Seq(Node)
  BY <1>1 DEF Activation
<1>3. Tail(h.todo) \in Seq(Node) /\ p \in Node /\ Range(h.todo) = {p} \cup Range(Tail(h.todo))
  <2> HIDE DEF h
  <2>1. h.todo # <<>> /\ p = Head(h.todo)
    BY DEF h
  <2> QED
    BY <2>1, <1>2, TakeFront, ZenonT(30)
<1>4. c \in Activation /\ c.id = h.id /\ c.todo = Tail(h.todo)
  BY <1>2, <1>3 DEF Activation
<1>5. Pushed(t, c, r)
  OBVIOUS
<1> HIDE DEF h, c, r
<1>6. /\ t \in Seq(Activation) /\ t[1] = c
      /\ Len(t) = Len(r) + 1
      /\ \A i \in 2 .. Len(r) + 1 : t[i] = r[i - 1] /\ i - 1 \in 1 .. Len(r)
  BY <1>1, <1>4, <1>5, PushFront
<1>7. Len(t) = Len(s) /\ DOMAIN t = 1 .. Len(s) /\ DOMAIN s = 1 .. Len(s)
  BY <1>1, <1>6
<1>8. ASSUME NEW i \in 2 .. Len(s) PROVE t[i] = s[i]
  <2>1. i \in 2 .. Len(r) + 1 /\ i - 1 + 1 = i
    BY <1>1
  <2> QED
    BY <2>1, <1>1, <1>6
<1>9. \A i \in 1 .. Len(s) : i = 1 \/ i \in 2 .. Len(s)
  BY <1>1
<1>10. \A i \in 1 .. Len(s) : t[i].id = s[i].id
  BY <1>1, <1>4, <1>6, <1>8, <1>9
<1>11. 1 \in 1 .. Len(s)
  BY <1>1
<1>12. IdsOf(t) = IdsOf(s) /\ Increasing(t) /\ h.id \in IdsOf(s)
  <2>1. IdsOf(t) = {t[i].id : i \in 1 .. Len(s)} /\ IdsOf(s) = {s[i].id : i \in 1 .. Len(s)}
    BY <1>7 DEF IdsOf
  <2>2. IdsOf(t) = IdsOf(s)
    BY <2>1, <1>10
  <2>3. h.id \in IdsOf(s)
    BY <2>1, <1>1, <1>11
  <2>4. Increasing(t)
    BY <1>7, <1>10 DEF Increasing
  <2> QED
    BY <2>2, <2>3, <2>4
<1>13. ASSUME NEW i \in 1 .. Len(s)
       PROVE  /\ Range(s[i].todo) \subseteq ParentsOf(s[i].id)
              /\ ParentsOf(s[i].id) \subseteq
                   Range(s[i].todo) \cup D \cup {s[j].id : j \in 1 .. i - 1}
  BY <1>7, Zenon DEF Waiting
<1>14. p \in ParentsOf(h.id)
  BY <1>1, <1>3, <1>11, <1>13, Zenon
<1>15. Waiting(t, D \cup {p})
  <2> SUFFICES ASSUME NEW i \in 1 .. Len(s)
               PROVE  /\ Range(t[i].todo) \subseteq ParentsOf(t[i].id)
                      /\ ParentsOf(t[i].id) \subseteq
                           Range(t[i].todo) \cup (D \cup {p}) \cup {t[j].id : j \in 1 .. i - 1}
    BY <1>7, Zenon DEF Waiting
  <2>1. Range(t[i].todo) \subseteq Range(s[i].todo) /\ Range(s[i].todo) \subseteq Range(t[i].todo) \cup {p}
    <3>1. CASE i = 1
      <4>1. t[i].todo = Tail(h.todo) /\ s[i].todo = h.todo
        BY <3>1, <1>1, <1>4, <1>6
      <4> QED
        BY <4>1, <1>3
    <3>2. CASE i \in 2 .. Len(s)
      BY <3>2, <1>8
    <3> QED
      BY <3>1, <3>2, <1>9
  <2>2. \A j \in 1 .. i - 1 : j \in 1 .. Len(s)
    BY <1>1
  <2>3. {t[j].id : j \in 1 .. i - 1} = {s[j].id : j \in 1 .. i - 1}
    BY <2>2, <1>10
  <2> QED
    BY <2>1, <2>3, <1>10, <1>13, Zenon
<1>16. ASSUME NEW i \in 1 .. Len(s) PROVE p < t[i].id
  <2>1. p < s[1].id /\ s[1].id \in Node
    BY <1>1, <1>2, <1>14, ParentsType
  <2>2. i = 1 \/ s[1].id < s[i].id
    <3>1. 1 \in DOMAIN s /\ i \in DOMAIN s /\ (i = 1 \/ 1 < i)
      BY <1>1, <1>7, <1>11
    <3> QED
      BY <3>1, <1>7, Zenon DEF Increasing
  <2>3. s[i].id \in Node
    BY IdsOfSeq
  <2>4. p \in Nat /\ s[1].id \in Nat /\ s[i].id \in Nat
    <3>1. Node \subseteq Nat
      BY BoundsAssumption DEF Node
    <3> QED
      BY <2>1, <2>3, <1>3, <3>1, Zenon
  <2>5. p < s[i].id
    BY <2>1, <2>2, <2>4
  <2> QED
    BY <2>5, <1>10
<1> QED
  BY <1>6, <1>7, <1>12, <1>14, <1>15, <1>16 DEF h

-----------------------------------------------------------------------------
(* Ancestors *)

\* A node is one of its ancestors; and the parents of an ancestor are.
LEMMA AncestorsClosed ==
  ASSUME parents \in Histories, NEW n \in Node
  PROVE  /\ n \in Ancestors(n)
         /\ \A m \in Ancestors(n) : m \in Node /\ m <= n /\ ParentsOf(m) \subseteq Ancestors(n)
<1>1. n \in Ancestors(n) /\ \A m \in Ancestors(n) : m \in Node /\ m <= n
  BY UptoType DEF Ancestors
<1>2. ASSUME NEW m \in Ancestors(n) PROVE ParentsOf(m) \subseteq Ancestors(n)
  <2>1. ParentsOf(m) \subseteq Upto(n, {}) \cup {}
    BY UptoParents DEF Ancestors
  <2> QED
    BY <2>1 DEF Ancestors
<1> QED
  BY <1>1, <1>2

\* A set with n and, with each node, its parents has the ancestors of n.
LEMMA AncestorsLeast ==
  ASSUME parents \in Histories, NEW C, NEW n \in Node, n \in C,
         \A m \in C : ParentsOf(m) \subseteq C
  PROVE  Ancestors(n) \subseteq C
<1>1. n \in C \cup {} /\ \A m \in Node : m \in C /\ m \notin {} => ParentsOf(m) \subseteq C \cup {}
  OBVIOUS
<1> QED
  BY <1>1, UptoLeast DEF Ancestors

\* The history of the graph has its nodes and their ancestors, and nothing else.
LEMMA HistoryClosed ==
  ASSUME parents \in Histories, graph \subseteq Node
  PROVE  /\ History \subseteq Node
         /\ graph \subseteq History
         /\ \A n \in graph : Ancestors(n) \subseteq History
         /\ \A m \in History : ParentsOf(m) \subseteq History
         /\ \A C : graph \subseteq C /\ (\A m \in C : ParentsOf(m) \subseteq C) => History \subseteq C
<1>1. \A n \in graph : n \in Ancestors(n) /\ Ancestors(n) \subseteq Node
  BY AncestorsClosed
<1>2. \A n \in graph : \A m \in Ancestors(n) : ParentsOf(m) \subseteq Ancestors(n)
  BY AncestorsClosed
<1>3. \A n \in graph : Ancestors(n) \subseteq History
  BY DEF History
<1>4. \A m \in History : \E n \in graph : m \in Ancestors(n)
  BY DEF History
<1>5. ASSUME NEW C, graph \subseteq C, \A m \in C : ParentsOf(m) \subseteq C PROVE History \subseteq C
  <2>1. \A n \in graph : Ancestors(n) \subseteq C
    BY <1>5, AncestorsLeast
  <2> QED
    BY <2>1, <1>4
<1>6. \A m \in History : ParentsOf(m) \subseteq History
  BY <1>2, <1>3, <1>4
<1>7. History \subseteq Node /\ graph \subseteq History
  BY <1>1, <1>3, <1>4
<1> QED
  BY <1>3, <1>5, <1>6, <1>7

\* Two edges to one node make a shared ancestor.
LEMMA SharedBy ==
  ASSUME parents \in Histories, NEW n \in Node, NEW c \in Ancestors(n), NEW d \in Ancestors(n),
         NEW i \in DOMAIN parents[c], NEW j \in DOMAIN parents[d],
         parents[c][i] = parents[d][j], c # d \/ i # j
  PROVE  Shared(n)
<1>1. c \in Node /\ ParentsOf(c) \subseteq Ancestors(n)
  BY AncestorsClosed
<1>2. parents[c][i] \in Ancestors(n)
  BY <1>1, ParentsType
<1>3. <<c, i>> # <<d, j>>
  OBVIOUS
<1> QED
  BY <1>2, <1>3 DEF Shared

\* A parent of two nodes is shared.
LEMMA SharedParent ==
  ASSUME parents \in Histories, NEW n \in Node, NEW c \in Ancestors(n), NEW d \in Ancestors(n),
         c # d, NEW p \in ParentsOf(c), p \in ParentsOf(d)
  PROVE  Shared(n)
<1>1. PICK i \in DOMAIN parents[c] : parents[c][i] = p
  BY DEF ParentsOf, Range
<1>2. PICK j \in DOMAIN parents[d] : parents[d][j] = p
  BY DEF ParentsOf, Range
<1> QED
  BY <1>1, <1>2, SharedBy

-----------------------------------------------------------------------------
(* all_ancestors *)

\* The iterator yields the head of its queue, and queues its parents: without a shared
\* ancestor all are new.
LEMMA YieldDistinct ==
  ASSUME parents \in Histories, NEW r \in Node, NEW q \in Seq(Node), NEW ys \in SUBSET Node,
         q # <<>>, Head(q) \notin ys, ~Shared(r), AncestorsOf(r, q, ys),
         NEW t, Joined(t, Tail(q), parents[Head(q)])
  PROVE  Distinct(r, t, ys \cup {Head(q)})
<1> DEFINE h == Head(q)
           u == Tail(q)
<1>1. /\ Len(q) \in Nat \ {0} /\ h = q[1] /\ h \in Node
      /\ u \in Seq(Node) /\ Len(u) = Len(q) - 1
      /\ \A i \in 1 .. Len(q) - 1 : u[i] = q[i + 1]
      /\ Range(q) = {h} \cup Range(u)
  BY TakeFront, Zenon
<1>2. h \notin ys /\ Joined(t, u, parents[h])
  OBVIOUS
<1> HIDE DEF h, u
<1>3. /\ parents[h] \in Seq(Node) /\ Range(parents[h]) = ParentsOf(h)
      /\ DOMAIN parents[h] = 1 .. Len(parents[h])
      /\ \A p \in ParentsOf(h) : p \in Node /\ p < h
  BY <1>1, ParentsType DEF ParentsOf
<1>4. /\ t \in Seq(Node) /\ Len(t) = Len(u) + Len(parents[h])
      /\ \A i \in 1 .. Len(u) : t[i] = u[i]
      /\ \A i \in Len(u) + 1 .. Len(u) + Len(parents[h]) :
           t[i] = parents[h][i - Len(u)] /\ i - Len(u) \in 1 .. Len(parents[h])
      /\ Range(t) = Range(u) \cup ParentsOf(h)
  <2> DEFINE ps == parents[h]
  <2>1. ps \in Seq(Node) /\ Joined(t, u, ps) /\ Range(ps) = ParentsOf(h)
    BY <1>2, <1>3
  <2> HIDE DEF ps
  <2>2. /\ t \in Seq(Node) /\ Len(t) = Len(u) + Len(ps)
        /\ \A i \in 1 .. Len(u) : t[i] = u[i]
        /\ \A i \in Len(u) + 1 .. Len(u) + Len(ps) : t[i] = ps[i - Len(u)] /\ i - Len(u) \in 1 .. Len(ps)
        /\ Range(t) = Range(u) \cup Range(ps)
    <3>0. u \in Seq(Node)
      BY <1>1
    <3>1. t \in Seq(Node) /\ Range(t) = Range(u) \cup Range(ps)
      BY <2>1, <3>0, JoinedRange
    <3>2. /\ Len(t) = Len(u) + Len(ps)
          /\ \A i \in 1 .. Len(u) : t[i] = u[i]
          /\ \A i \in Len(u) + 1 .. Len(u) + Len(ps) : t[i] = ps[i - Len(u)] /\ i - Len(u) \in 1 .. Len(ps)
      BY <2>1, <3>0, JoinedAt
    <3> QED
      BY <3>1, <3>2, Zenon
  <2> QED
    BY <2>1, <2>2, Zenon DEF ps
<1>5. /\ ys \cup Range(q) \subseteq Ancestors(r)
      /\ Range(q) \cap ys = {}
      /\ \A i, j \in DOMAIN q : q[i] = q[j] => i = j
      /\ \A p \in (ys \cup Range(q)) \ {r} : \E c \in ys : p \in ParentsOf(c)
  BY DEF AncestorsOf, Distinct
<1>6. h \in Ancestors(r) /\ ys \subseteq Ancestors(r) /\ h <= r
  BY <1>1, <1>5, AncestorsClosed
<1>7. \A p \in ParentsOf(h) : p # r /\ p # h
  BY <1>1, <1>3, <1>6, BoundsAssumption DEF Node
<1>8. ASSUME NEW p \in ParentsOf(h), p \in ys \cup Range(q) PROVE FALSE
  <2>1. PICK c \in ys : p \in ParentsOf(c)
    BY <1>5, <1>7, <1>8
  <2>2. c # h /\ c \in Ancestors(r)
    BY <2>1, <1>2, <1>6
  <2> QED
    BY <2>1, <2>2, <1>6, SharedParent, Zenon
<1>9. h \notin Range(u)
  <2> SUFFICES ASSUME NEW i \in 1 .. Len(u), u[i] = h PROVE FALSE
    BY <1>1, RangeOf
  <2>1. i \in 1 .. Len(q) - 1 /\ i + 1 \in DOMAIN q /\ 1 \in DOMAIN q /\ i + 1 # 1
    BY <1>1
  <2> QED
    BY <2>1, <1>1, <1>5
<1>10. Range(t) \cap (ys \cup {h}) = {}
  <2>1. Range(u) \cap (ys \cup {h}) = {}
    BY <1>1, <1>5, <1>9
  <2>2. ParentsOf(h) \cap (ys \cup {h}) = {}
    BY <1>7, <1>8
  <2> QED
    BY <2>1, <2>2, <1>4
<1>11. \A p \in (ys \cup {h} \cup Range(t)) \ {r} : \E c \in ys \cup {h} : p \in ParentsOf(c)
  <2> SUFFICES ASSUME NEW p \in ys \cup {h} \cup Range(t), p # r
               PROVE  \E c \in ys \cup {h} : p \in ParentsOf(c)
    OBVIOUS
  <2>1. p \in ParentsOf(h) \/ p \in (ys \cup Range(q)) \ {r}
    BY <1>1, <1>4
  <2> QED
    BY <2>1, <1>5
<1>12. ASSUME NEW i \in 1 .. Len(t), NEW j \in 1 .. Len(t), i < j PROVE t[i] # t[j]
  <2>1. Len(u) \in Nat /\ Len(parents[h]) \in Nat
    BY <1>1, <1>3
  <2>2. CASE j \in 1 .. Len(u)
    <3>1. i \in 1 .. Len(u) /\ i + 1 \in 1 .. Len(q) /\ j + 1 \in 1 .. Len(q) /\ i + 1 # j + 1
      BY <2>1, <2>2, <1>1, <1>12
    <3>2. t[i] = q[i + 1] /\ t[j] = q[j + 1]
      BY <3>1, <2>2, <1>1, <1>4
    <3>3. DOMAIN q = 1 .. Len(q)
      OBVIOUS
    <3> QED
      BY <3>1, <3>2, <3>3, <1>5, Zenon
  <2>3. CASE j \notin 1 .. Len(u)
    <3>1. j \in Len(u) + 1 .. Len(u) + Len(parents[h])
      BY <2>1, <2>3, <1>4
    <3>2. t[j] = parents[h][j - Len(u)] /\ j - Len(u) \in 1 .. Len(parents[h])
      BY <3>1, <1>4, Zenon
    <3>3. t[j] \in ParentsOf(h)
      BY <3>2, <1>3, RangeOf
    <3>4. CASE i \in 1 .. Len(u)
      <4>1. t[i] \in Range(q)
        BY <3>4, <1>1, <1>4, RangeOf, ZenonT(30)
      <4> QED
        BY <4>1, <3>3, <1>8
    <3>5. CASE i \notin 1 .. Len(u)
      <4>1. i \in Len(u) + 1 .. Len(u) + Len(parents[h]) /\ i - Len(u) # j - Len(u)
        BY <2>1, <3>5, <1>4, <1>12
      <4>2. t[i] = parents[h][i - Len(u)] /\ i - Len(u) \in 1 .. Len(parents[h])
        BY <4>1, <1>4
      <4>3. ASSUME NEW a \in DOMAIN parents[h], NEW b \in DOMAIN parents[h], a # b
            PROVE  parents[h][a] # parents[h][b]
        BY <4>3, <1>6, SharedBy, Zenon
      <4> QED
        BY <4>1, <4>2, <4>3, <3>2, <1>3, Zenon
    <3> QED
      BY <3>4, <3>5
  <2> QED
    BY <2>2, <2>3
<1>13. \A i, j \in DOMAIN t : t[i] = t[j] => i = j
  <2>1. DOMAIN t = 1 .. Len(t) /\ \A i, j \in 1 .. Len(t) : i < j \/ j < i \/ i = j
    BY <1>4
  <2> QED
    BY <2>1, <1>12
<1>14. Distinct(r, t, ys \cup {h})
  BY <1>10, <1>11, <1>13, Zenon DEF Distinct
<1> QED
  BY <1>14 DEF h

\* The iterator yields the head of its queue.
LEMMA Yield ==
  ASSUME parents \in Histories, NEW r \in Node, NEW q \in Seq(Node), NEW ys \in SUBSET Node,
         q # <<>>, Head(q) \notin ys, AncestorsOf(r, q, ys),
         NEW t, Joined(t, Tail(q), parents[Head(q)])
  PROVE  /\ t \in Seq(Node)
         /\ Head(q) \in Ancestors(r)
         /\ AncestorsOf(r, t, ys \cup {Head(q)})
<1> DEFINE h == Head(q)
           u == Tail(q)
<1>1. h \in Node /\ h = q[1] /\ u \in Seq(Node) /\ Range(q) = {h} \cup Range(u)
  BY TakeFront, Zenon
<1>2. Joined(t, u, parents[h])
  OBVIOUS
<1>3. Shared(r) \/ Distinct(r, t, ys \cup {h})
  BY YieldDistinct, ZenonT(30)
<1> HIDE DEF h, u
<1>4. parents[h] \in Seq(Node) /\ Range(parents[h]) = ParentsOf(h)
  BY <1>1, ParentsType, Zenon DEF ParentsOf
<1>5. t \in Seq(Node) /\ Range(t) = Range(u) \cup ParentsOf(h)
  BY <1>1, <1>2, <1>4, JoinedRange
<1>6. /\ ys \cup Range(q) \subseteq Ancestors(r)
      /\ ys = {} => q = <<r>>
      /\ ys # {} => r \in ys
      /\ \A m \in ys : ParentsOf(m) \subseteq ys \cup Range(q)
  BY DEF AncestorsOf
<1>7. h \in Ancestors(r) /\ ParentsOf(h) \subseteq Ancestors(r)
  BY <1>1, <1>6, AncestorsClosed
<1>8. r \in ys \cup {h}
  BY <1>1, <1>6
<1>9. ys \cup {h} \cup Range(t) \subseteq Ancestors(r)
  BY <1>1, <1>5, <1>6, <1>7, Zenon
<1>10. \A m \in ys \cup {h} : ParentsOf(m) \subseteq ys \cup {h} \cup Range(t)
  BY <1>1, <1>5, <1>6, Zenon
<1>11. AncestorsOf(r, t, ys \cup {h})
  BY <1>3, <1>8, <1>9, <1>10 DEF AncestorsOf
<1> QED
  BY <1>5, <1>7, <1>11 DEF h

\* The iterator ends.
LEMMA Exhaust ==
  ASSUME parents \in Histories, NEW r \in Node, NEW q \in Seq(Node), NEW ys \in SUBSET Node,
         q # <<>> \/ ys # {}, q # <<>> => Head(q) \in ys,
         AncestorsOf(r, q, ys), NEW A, ys \subseteq A
  PROVE  Kept(r, A)
<1>1. r \in ys
  <2>1. CASE ys = {}
    BY <2>1 DEF AncestorsOf
  <2> QED
    BY <2>1 DEF AncestorsOf
<1>2. ASSUME ~Shared(r) PROVE Ancestors(r) \subseteq ys
  <2>1. Range(q) \cap ys = {}
    BY <1>2 DEF AncestorsOf, Distinct
  <2>2. q = <<>>
    <3>1. ASSUME q # <<>> PROVE Head(q) \in Range(q)
      BY <3>1, TakeFront, Zenon
    <3> QED
      BY <3>1, <2>1
  <2>3. Range(q) = {}
    BY <2>2 DEF Range
  <2>4. \A m \in ys : ParentsOf(m) \subseteq ys
    BY <2>3, Zenon DEF AncestorsOf
  <2> QED
    BY <2>4, <1>1, AncestorsLeast
<1> QED
  BY <1>1, <1>2 DEF Kept

-----------------------------------------------------------------------------
(* The loop of to_serialized *)

\* all_ancestors of the next node
LEMMA WalkStarts ==
  ASSUME parents \in Histories, graph \subseteq Node, NEW A, NEW td \in SUBSET graph,
         NEW n \in td, Walking(<<>>, {}, A, td)
  PROVE  Walking(<<n>>, {}, A, td \ {n})
<1>1. A \subseteq History /\ \A m \in graph \ td : Kept(m, A)
  BY DEF Walking
<1>2. <<n>> # <<>> /\ DOMAIN <<n>> = {1} /\ <<n>>[1] = n /\ Range(<<n>>) = {n}
  BY DEF Range
<1>3. {} \cup Range(<<n>>) \subseteq Ancestors(n)
  BY <1>2, AncestorsClosed
<1>4. Distinct(n, <<n>>, {})
  BY <1>2 DEF Distinct
<1>5. AncestorsOf(n, <<n>>, {})
  BY <1>3, <1>4 DEF AncestorsOf
<1>6. n \in graph \ (td \ {n}) /\ (graph \ (td \ {n})) \ {n} \subseteq graph \ td
  OBVIOUS
<1> QED
  BY <1>1, <1>2, <1>5, <1>6, Zenon DEF Walking

\* The iterator yields a node, which is then to be kept.
LEMMA WalkYields ==
  ASSUME parents \in Histories, graph \subseteq Node, NEW A, NEW td \in SUBSET graph,
         NEW q \in Seq(Node), NEW ys \in SUBSET Node, q # <<>>, Head(q) \notin ys,
         Walking(q, ys, A, td), NEW t, Joined(t, Tail(q), parents[Head(q)])
  PROVE  t \in Seq(Node) /\ Head(q) \in Node /\ Walking(t, ys \cup {Head(q)}, A \cup {Head(q)}, td)
<1>1. PICK r \in graph \ td : AncestorsOf(r, q, ys) /\ \A n \in (graph \ td) \ {r} : Kept(n, A)
  BY DEF Walking
<1>2. /\ t \in Seq(Node)
      /\ Head(q) \in Ancestors(r)
      /\ AncestorsOf(r, t, ys \cup {Head(q)})
  BY <1>1, Yield, Zenon
<1>3. Head(q) \in Node /\ Head(q) \in History
  BY <1>1, <1>2, AncestorsClosed, HistoryClosed
<1>4. \A n \in (graph \ td) \ {r} : Kept(n, A \cup {Head(q)})
  BY <1>1 DEF Kept
<1>5. ys \cup {Head(q)} # {} /\ ys \subseteq A /\ A \subseteq History
  BY DEF Walking
<1> QED
  BY <1>1, <1>2, <1>3, <1>4, <1>5, Zenon DEF Walking

\* The iterator returns None.
LEMMA WalkEnds ==
  ASSUME parents \in Histories, graph \subseteq Node, NEW A, NEW td \in SUBSET graph,
         NEW q \in Seq(Node), NEW ys \in SUBSET Node, q # <<>> \/ ys # {},
         q # <<>> => Head(q) \in ys, Walking(q, ys, A, td)
  PROVE  Walking(<<>>, {}, A, td)
<1>1. PICK r \in graph \ td : AncestorsOf(r, q, ys) /\ \A n \in (graph \ td) \ {r} : Kept(n, A)
  BY DEF Walking
<1>2. ys \subseteq A /\ A \subseteq History
  BY DEF Walking
<1>3. Kept(r, A)
  BY <1>1, <1>2, Exhaust, Zenon
<1>4. \A n \in graph \ td : Kept(n, A)
  BY <1>1, <1>3
<1> QED
  BY <1>2, <1>4, Zenon DEF Walking

\* At the end of the loop the nodes of the graph are to be kept; and their whole history
\* is, unless the graph lacks part of a history with a shared ancestor.
LEMMA WalkKeeps ==
  ASSUME parents \in Histories, graph \subseteq Node, NEW A, Walking(<<>>, {}, A, {})
  PROVE  /\ graph \subseteq A /\ A \subseteq History
         /\ Explained \/ A = History
<1>1. A \subseteq History /\ \A n \in graph : Kept(n, A)
  BY DEF Walking
<1>2. graph \subseteq A
  BY <1>1 DEF Kept
<1>3. ASSUME ~Explained, NEW n \in graph PROVE Ancestors(n) \subseteq A
  <2>1. Shared(n) => Ancestors(n) \subseteq graph
    BY <1>3 DEF Explained
  <2> QED
    BY <2>1, <1>1, <1>2 DEF Kept
<1>4. ASSUME ~Explained PROVE A = History
  <2>1. \A n \in graph : Ancestors(n) \subseteq A
    BY <1>3, <1>4, Zenon
  <2> QED
    BY <2>1, <1>1 DEF History
<1> QED
  BY <1>1, <1>2, <1>4

-----------------------------------------------------------------------------
(* The recursion of deserialize_node *)

\* The loop of deserialize_nodes calls it ...
LEMMA ReadCalls ==
  ASSUME parents \in Histories, NEW A \in SUBSET Node, NEW rem, NEW D, NEW id \in rem,
         Reading(rem, <<>>, D, A),
         NEW t, Pushed(t, [id |-> id, todo |-> parents[id]], <<>>)
  PROVE  t \in Seq(Activation) /\ Reading(rem \ {id}, t, D, A)
<1> DEFINE c == [id |-> id, todo |-> parents[id]]
           e == <<>>
<1>1. id \in Node
  BY DEF Reading
<1>2. c \in Activation /\ c.id = id /\ c.todo = parents[c.id]
  BY <1>1, ParentsType, Zenon DEF Activation
<1>3. e \in Seq(Activation)
  OBVIOUS
<1>4. Len(e) = 0 /\ DOMAIN e = {} /\ 1 .. Len(e) = {}
  OBVIOUS
<1>5. Pushed(t, c, e) /\ Reading(rem, e, D, A)
  BY Zenon
<1> HIDE DEF c, e
<1>6. Increasing(e) /\ Waiting(e, D \cup {c.id}) /\ IdsOf(e) = {}
  BY <1>4, Zenon DEF Increasing, Waiting, IdsOf
<1>7. \A i \in 1 .. Len(e) : c.id < e[i].id
  BY <1>4, Zenon
<1>8. /\ t \in Seq(Activation)
      /\ IdsOf(t) = IdsOf(e) \cup {c.id}
      /\ Increasing(t)
      /\ Waiting(t, D)
  BY <1>2, <1>3, <1>5, <1>6, <1>7, PushCall, ZenonT(30)
<1>9. IdsOf(t) = {id}
  BY <1>2, <1>6, <1>8, Zenon
<1>10. A = rem \cup D /\ rem \cap D = {} /\ \A n \in D : ParentsOf(n) \subseteq D
  BY <1>5, <1>6, Zenon DEF Reading
<1>11. /\ A = (rem \ {id}) \cup {id} \cup D /\ (rem \ {id}) \cap ({id} \cup D) = {}
       /\ {id} \cap D = {}
  BY <1>10
<1> QED
  BY <1>8, <1>9, <1>10, <1>11, Zenon DEF Reading

\* ... and it calls itself for a parent that does not exist, ...
LEMMA ReadRecurses ==
  ASSUME parents \in Histories, NEW A \in SUBSET Node, NEW rem, NEW D,
         NEW s \in Seq(Activation), s # <<>>, Head(s).todo # <<>>, Reading(rem, s, D, A),
         NEW p, p = Head(Head(s).todo), p \in rem,
         NEW r, Pushed(r, [id |-> Head(s).id, todo |-> Tail(Head(s).todo)], Tail(s)),
         NEW t, Pushed(t, [id |-> p, todo |-> parents[p]], r)
  PROVE  t \in Seq(Activation) /\ Reading(rem \ {p}, t, D, A)
<1> DEFINE c == [id |-> p, todo |-> parents[p]]
<1>1. p \in Node /\ Increasing(s) /\ Waiting(s, D)
  BY Zenon DEF Reading
<1>2. c \in Activation /\ c.id = p /\ c.todo = parents[c.id]
  BY <1>1, ParentsType, Zenon DEF Activation
<1>3. Pushed(t, c, r)
  OBVIOUS
<1>4. /\ r \in Seq(Activation)
      /\ IdsOf(r) = IdsOf(s)
      /\ Increasing(r)
      /\ Waiting(r, D \cup {p})
      /\ \A i \in 1 .. Len(r) : p < r[i].id
  BY <1>1, AdvanceCall, Zenon
<1> HIDE DEF c
<1>5. /\ t \in Seq(Activation)
      /\ IdsOf(t) = IdsOf(r) \cup {c.id}
      /\ Increasing(t)
      /\ Waiting(t, D)
  <2>1. Waiting(r, D \cup {c.id}) /\ \A i \in 1 .. Len(r) : c.id < r[i].id
    BY <1>2, <1>4, ZenonT(30)
  <2>2. r \in Seq(Activation) /\ Increasing(r) /\ c \in Activation /\ c.todo = parents[c.id]
    BY <1>2, <1>4, Zenon
  <2> QED
    BY <2>1, <2>2, <1>3, PushCall, Zenon
<1>6. IdsOf(t) = IdsOf(s) \cup {p}
  BY <1>2, <1>4, <1>5, Zenon
<1> QED
  BY <1>5, <1>6, ZenonT(30) DEF Reading

\* ... goes on after one that does, ...
LEMMA ReadGoesOn ==
  ASSUME parents \in Histories, NEW A, NEW rem, NEW D,
         NEW s \in Seq(Activation), s # <<>>, Head(s).todo # <<>>, Reading(rem, s, D, A),
         Head(Head(s).todo) \in D,
         NEW r, Pushed(r, [id |-> Head(s).id, todo |-> Tail(Head(s).todo)], Tail(s))
  PROVE  r \in Seq(Activation) /\ Reading(rem, r, D, A)
<1>1. PICK p : p = Head(Head(s).todo)
  BY ZenonT(30)
<1>2. Increasing(s) /\ Waiting(s, D)
  BY Zenon DEF Reading
<1>3. /\ r \in Seq(Activation)
      /\ IdsOf(r) = IdsOf(s)
      /\ Increasing(r)
      /\ Waiting(r, D \cup {p})
  BY <1>1, <1>2, AdvanceCall, ZenonT(30)
<1>4. D \cup {p} = D
  BY <1>1, Zenon
<1> QED
  BY <1>3, <1>4, Zenon DEF Reading

\* ... meets no node that is being created ...
LEMMA ReadMeets ==
  ASSUME parents \in Histories, NEW A, NEW rem, NEW D,
         NEW s \in Seq(Activation), s # <<>>, Head(s).todo # <<>>, Reading(rem, s, D, A)
  PROVE  /\ Head(s).id \in A /\ Head(Head(s).todo) \in ParentsOf(Head(s).id)
         /\ Head(Head(s).todo) \in A => Head(Head(s).todo) \in rem \cup D
<1>1. PICK p : p = Head(Head(s).todo)
  OBVIOUS
<1>2. PICK r : Pushed(r, [id |-> Head(s).id, todo |-> Tail(Head(s).todo)], Tail(s))
  BY Zenon DEF Pushed
<1>3. Increasing(s) /\ Waiting(s, D)
  BY DEF Reading
<1>4. /\ r \in Seq(Activation)
      /\ IdsOf(r) = IdsOf(s)
      /\ Head(s).id \in IdsOf(s) /\ p \in ParentsOf(Head(s).id)
      /\ \A i \in 1 .. Len(r) : p < r[i].id
  BY <1>1, <1>2, <1>3, AdvanceCall, Zenon
<1>5. p \notin IdsOf(s)
  <2> SUFFICES ASSUME NEW i \in 1 .. Len(r), p = r[i].id PROVE FALSE
    BY <1>4, IdsOfSeq, Zenon
  <2>1. r[i].id \in Nat
    BY <1>4, IdsOfSeq, BoundsAssumption DEF Node
  <2> QED
    BY <2>1, <1>4
<1> QED
  BY <1>1, <1>4, <1>5, Zenon DEF Reading

\* ... and creates the node once the parents exist.
LEMMA ReadReturns ==
  ASSUME NEW A, NEW rem, NEW D, NEW s \in Seq(Activation), s # <<>>, Head(s).todo = <<>>,
         Reading(rem, s, D, A)
  PROVE  /\ Tail(s) \in Seq(Activation)
         /\ Head(s).id \in A /\ Head(s).id \in Node /\ ParentsOf(Head(s).id) \subseteq D
         /\ Reading(rem, Tail(s), D \cup {Head(s).id}, A)
<1>1. PICK n, t : n = Head(s).id /\ t = Tail(s)
  BY Zenon
<1>2. Increasing(s) /\ Waiting(s, D)
  BY DEF Reading
<1>3. /\ t \in Seq(Activation)
      /\ n \in Node
      /\ ParentsOf(n) \subseteq D
      /\ IdsOf(s) = IdsOf(t) \cup {n}
      /\ n \notin IdsOf(t)
      /\ Increasing(t)
      /\ Waiting(t, D \cup {n})
  BY <1>1, <1>2, ReturnCall, ZenonT(30)
<1>4. Reading(rem, t, D \cup {n}, A) /\ n \in A
  BY <1>3 DEF Reading
<1> QED
  BY <1>1, <1>3, <1>4

-----------------------------------------------------------------------------
(* The steps *)

\* The graph and its registry stay as they are.
LEMMA InputFrame ==
  ASSUME UNCHANGED input
  PROVE  /\ parents' = parents /\ registered' = registered /\ dead' = dead /\ graph' = graph
         /\ \A n : ParentsOf(n)' = ParentsOf(n)
         /\ \A n : Ancestors(n)' = Ancestors(n)
         /\ \A n : Shared(n)' = Shared(n)
         /\ History' = History
         /\ Explained' = Explained
<1>1. parents' = parents /\ registered' = registered /\ dead' = dead /\ graph' = graph
  BY DEF input
<1>2. \A n : ParentsOf(n)' = ParentsOf(n)
  BY <1>1 DEF ParentsOf
<1>3. \A n : Ancestors(n)' = Ancestors(n)
  BY <1>1 DEF ParentsOf, Ancestors, Upto, UptoAll
<1>4. \A n : Shared(n)' = Shared(n)
  BY <1>1, <1>3 DEF Shared
<1>5. History' = History
  BY <1>1, <1>3 DEF History
<1>6. Explained' = Explained
  BY <1>1, <1>2, <1>3, <1>4, <1>5 DEF Explained
<1> QED
  BY <1>1, <1>2, <1>3, <1>4, <1>5, <1>6

\* So do what the loops of to_serialized and of deserialize_node have reached, as far as
\* they are not concerned.
LEMMA LoopFrame ==
  ASSUME UNCHANGED input
  PROVE  /\ \A q, ys, A, td : Walking(q, ys, A, td)' = Walking(q, ys, A, td)
         /\ \A rem, s, D, A : Reading(rem, s, D, A)' = Reading(rem, s, D, A)
<1>1. \A n, A : Kept(n, A)' = Kept(n, A)
  BY InputFrame DEF Kept
<1>2. \A r, q, ys : Distinct(r, q, ys)' = Distinct(r, q, ys)
  BY InputFrame DEF Distinct
<1>3. \A r, q, ys : AncestorsOf(r, q, ys)' = AncestorsOf(r, q, ys)
  BY <1>2, InputFrame DEF AncestorsOf
<1>4. \A q, ys, A, td : Walking(q, ys, A, td)' = Walking(q, ys, A, td)
  BY <1>1, <1>3, InputFrame DEF Walking
<1>5. \A s, D : Waiting(s, D)' = Waiting(s, D)
  BY InputFrame, ZenonT(30) DEF Waiting
<1>6. \A rem, s, D, A : Reading(rem, s, D, A)' = Reading(rem, s, D, A)
  <2>1. \A s : Increasing(s)' = Increasing(s) /\ IdsOf(s)' = IdsOf(s)
    BY DEF Increasing, IdsOf
  <2>2. \A n : ParentsOf(n)' = ParentsOf(n)
    BY InputFrame, Zenon
  <2> QED
    BY <1>5, <2>1, <2>2 DEF Reading
<1> QED
  BY <1>4, <1>6, Zenon

\* VisitNode preserves the invariant.
LEMMA VisitNodeStep ==
  ASSUME SerializationInv, NEW n \in todo, VisitNode(n)
  PROVE  SerializationInv'
<1>1. /\ parents \in Histories /\ graph \subseteq Node /\ todo \in SUBSET graph /\ n \in Node
      /\ Walking(stack, seen, ancestors, todo)
  BY Zenon DEF SerializationInv, SerializationTypeOK, WalkInv
<1>2. /\ pc = "walk" /\ pc' = "walk" /\ stack = <<>> /\ seen = {}
      /\ UNCHANGED input /\ todo' = todo \ {n} /\ stack' = <<n>>
      /\ UNCHANGED <<seen, ids, ancestors, serialized, remaining, calls, all_nodes, new_ids>>
  BY DEF VisitNode, Iterating, read
<1>3. Walking(<<n>>, {}, ancestors, todo \ {n})
  BY <1>1, <1>2, WalkStarts, Zenon
<1>4. Walking(stack, seen, ancestors, todo)'
  BY <1>2, <1>3, LoopFrame, Zenon
<1>5. WalkInv'
  BY <1>2, <1>4, InputFrame DEF SerializationInv, WalkInv
<1>6. SerializationTypeOK'
  <2>1. SerializationTypeOK
    BY DEF SerializationInv
  <2>2. <<n>> \in Seq(Node)
    BY <1>1
  <2>3. graph' = graph
    BY <1>2, InputFrame, Zenon
  <2>4. todo' \in SUBSET graph'
    BY <1>1, <1>2, <2>3, Zenon
  <2> QED
    BY <1>2, <2>1, <2>2, <2>4, InputFrame, Zenon DEF SerializationTypeOK
<1> QED
  BY <1>2, <1>5, <1>6, ZenonT(30) DEF SerializationInv, RoundTrip, IdsLeftBehind, PanicsExplained

\* NextNode preserves the invariant.
LEMMA NextNodeStep ==
  ASSUME SerializationInv, NextNode
  PROVE  SerializationInv'
<1>1. /\ parents \in Histories /\ graph \subseteq Node /\ todo \in SUBSET graph
      /\ stack \in Seq(Node) /\ seen \in SUBSET Node
      /\ Walking(stack, seen, ancestors, todo)
  BY DEF SerializationInv, SerializationTypeOK, WalkInv
<1>2. /\ pc = "walk" /\ pc' = "walk" /\ stack # <<>> /\ Head(stack) \notin seen
      /\ UNCHANGED input
      /\ seen' = seen \cup {Head(stack)}
      /\ ids' = ids \cup {Head(stack)}
      /\ ancestors' = ancestors \cup {Head(stack)}
      /\ UNCHANGED <<todo, serialized, remaining, calls, all_nodes, new_ids>>
  BY DEF NextNode, read
<1>3. PICK t : t = stack' /\ Joined(t, Tail(stack), parents[Head(stack)])
  BY Zenon DEF NextNode, ExtendBy, Joined
<1>4. /\ t \in Seq(Node) /\ Head(stack) \in Node
      /\ Walking(t, seen \cup {Head(stack)}, ancestors \cup {Head(stack)}, todo)
  BY <1>1, <1>2, <1>3, WalkYields, Zenon
<1>5. Walking(stack, seen, ancestors, todo)'
  BY <1>2, <1>3, <1>4, LoopFrame, Zenon
<1>6. WalkInv'
  BY <1>2, <1>5, InputFrame, Zenon DEF SerializationInv, WalkInv
<1>7. SerializationTypeOK'
  BY <1>1, <1>2, <1>3, <1>4, InputFrame DEF SerializationInv, SerializationTypeOK
<1> QED
  BY <1>2, <1>6, <1>7, Zenon DEF SerializationInv, RoundTrip, IdsLeftBehind, PanicsExplained

\* NextNone preserves the invariant.
LEMMA NextNoneStep ==
  ASSUME SerializationInv, NextNone
  PROVE  SerializationInv'
<1>1. /\ parents \in Histories /\ graph \subseteq Node /\ todo \in SUBSET graph
      /\ stack \in Seq(Node) /\ seen \in SUBSET Node
      /\ Walking(stack, seen, ancestors, todo)
  BY DEF SerializationInv, SerializationTypeOK, WalkInv
<1>2. /\ pc = "walk" /\ pc' = "walk"
      /\ stack # <<>> \/ seen # {}
      /\ stack # <<>> => Head(stack) \in seen
      /\ stack' = <<>> /\ seen' = {}
      /\ UNCHANGED input
      /\ UNCHANGED <<todo, ids, ancestors, serialized, remaining, calls, all_nodes, new_ids>>
  BY DEF NextNone, Exhausted, Iterating, written, read
<1>3. Walking(<<>>, {}, ancestors, todo)
  BY <1>1, <1>2, WalkEnds, Zenon
<1>4. Walking(stack, seen, ancestors, todo)'
  BY <1>2, <1>3, LoopFrame, Zenon
<1>5. WalkInv'
  BY <1>2, <1>4, InputFrame, Zenon DEF SerializationInv, WalkInv
<1>6. SerializationTypeOK'
  BY <1>1, <1>2, InputFrame DEF SerializationInv, SerializationTypeOK
<1> QED
  BY <1>2, <1>5, <1>6, Zenon DEF SerializationInv, RoundTrip, IdsLeftBehind, PanicsExplained

\* What the walk has found stays while the nodes are read.
LEMMA WalkFrame ==
  ASSUME SerializationInv, UNCHANGED <<input, stack, seen, todo, ids, ancestors>>,
         pc' # "walk", pc' = "read" => stack = <<>> /\ seen = {} /\ todo = {}
  PROVE  WalkInv'
<1>1. UNCHANGED input /\ stack' = stack /\ seen' = seen /\ todo' = todo
      /\ ids' = ids /\ ancestors' = ancestors
  OBVIOUS
<1>2. Walking(stack, seen, ancestors, todo)'
  <2>1. Walking(stack, seen, ancestors, todo)
    BY ZenonT(30) DEF SerializationInv, WalkInv
  <2> QED
    BY <1>1, <2>1, LoopFrame
<1> QED
  BY <1>1, <1>2, InputFrame DEF SerializationInv, WalkInv

\* Where the program panics.
LEMMA PanicStep ==
  ASSUME SerializationInv, Panic, Explained,
         UNCHANGED <<input, stack, seen, todo, ids, ancestors, calls, all_nodes>>
  PROVE  SerializationInv'
<1>1. pc' = "panic" /\ UNCHANGED input /\ Explained'
  BY InputFrame DEF Panic
<1>2. WalkInv'
  BY <1>1, WalkFrame, Zenon
<1>3. SerializationTypeOK'
  BY <1>1, InputFrame, Zenon DEF SerializationInv, SerializationTypeOK
<1>4. PanicsExplained'
  BY <1>1 DEF PanicsExplained, Explained
<1> QED
  BY <1>1, <1>2, <1>3, <1>4, Zenon DEF SerializationInv, RoundTrip, IdsLeftBehind

\* SerializeFails preserves the invariant.
LEMMA SerializeFailsStep ==
  ASSUME SerializationInv, SerializeFails
  PROVE  SerializationInv'
<1>1. /\ parents \in Histories /\ graph \subseteq Node
      /\ Walking(stack, seen, ancestors, todo) /\ ids = registered \cup ancestors
  BY DEF SerializationInv, SerializationTypeOK, WalkInv
<1>2. stack = <<>> /\ seen = {} /\ todo = {} /\ Panic /\ \E k \in ids : ~ValidNode(k)
  BY DEF SerializeFails, Walked, Iterating
<1>3. Explained \/ ancestors = History
  BY <1>1, <1>2, WalkKeeps, Zenon
<1>4. Explained
  <2> SUFFICES ASSUME ancestors = History, dead = {},
                      \A n \in registered : ParentsOf(n) \subseteq registered \cup History
               PROVE  FALSE
    BY <1>3 DEF Explained
  <2>1. PICK k \in ids : ~(ParentsOf(k) \subseteq ids)
    BY <1>2, Zenon DEF ValidNode
  <2> QED
    BY <2>1, <1>1, HistoryClosed
<1> QED
  BY <1>2, <1>4, PanicStep, ZenonT(30) DEF SerializeFails, iterator, written, read

\* SerializeRegistry preserves the invariant.
LEMMA SerializeRegistryStep ==
  ASSUME SerializationInv, SerializeRegistry
  PROVE  SerializationInv'
<1>1. ids = registered \cup ancestors /\ calls = <<>> /\ all_nodes = NoIds
  BY DEF SerializationInv, WalkInv, SerializeRegistry, Walked
<1>2. /\ pc' = "read" /\ stack = <<>> /\ seen = {} /\ todo = {}
      /\ serialized' = [k \in Retain |-> parents[k]] /\ remaining' = Retain
      /\ UNCHANGED <<input, stack, seen, todo, ids, ancestors, calls, all_nodes>>
  BY DEF SerializeRegistry, Walked, Iterating, iterator
<1>3. Retain = ancestors
  BY <1>1 DEF Retain
<1>4. WalkInv'
  BY <1>2, WalkFrame
<1>5. SerializationTypeOK'
  BY <1>2, InputFrame, ZenonT(30) DEF SerializationInv, SerializationTypeOK
<1>6. Reading(ancestors, <<>>, {}, ancestors)
  BY DEF Reading, Increasing, Waiting, IdsOf
<1>7. DOMAIN all_nodes' = {} /\ UNCHANGED input /\ calls' = <<>> /\ ancestors' = ancestors
  BY <1>1, <1>2, Zenon DEF NoIds
<1>8. Reading(remaining, calls, DOMAIN all_nodes, ancestors)'
  BY <1>2, <1>3, <1>6, <1>7, LoopFrame
<1>9. ReadInv'
  BY <1>2, <1>3, <1>7, <1>8, InputFrame, ZenonT(30) DEF ReadInv
<1> QED
  BY <1>2, <1>4, <1>5, <1>9, Zenon DEF SerializationInv, RoundTrip, IdsLeftBehind, PanicsExplained

\* A step of deserialize_nodes, after which the recursion goes on.
LEMMA ReadStep ==
  ASSUME SerializationInv, pc = "read", pc' = "read", UNCHANGED <<input, iterator, written>>,
         calls' \in Seq(Activation), DOMAIN all_nodes' \in SUBSET Node,
         Reading(remaining', calls', DOMAIN all_nodes', ancestors),
         \A n \in DOMAIN all_nodes' : all_nodes'[n] = parents[n]
  PROVE  SerializationInv'
<1>1. /\ UNCHANGED input /\ stack' = stack /\ seen' = seen /\ todo' = todo /\ ids' = ids
      /\ ancestors' = ancestors /\ serialized' = serialized
  BY DEF iterator, written
<1>2. stack = <<>> /\ seen = {} /\ todo = {} /\ ReadInv
  BY ZenonT(30) DEF SerializationInv, WalkInv
<1>3. WalkInv'
  BY <1>1, <1>2, WalkFrame
<1>4. SerializationTypeOK'
  BY <1>1, InputFrame, ZenonT(30) DEF SerializationInv, SerializationTypeOK
<1>5. Reading(remaining, calls, DOMAIN all_nodes, ancestors)'
  BY <1>1, LoopFrame, ZenonT(30)
<1>6. ReadInv'
  BY <1>1, <1>2, <1>5, InputFrame, ZenonT(30) DEF ReadInv
<1> QED
  BY <1>3, <1>4, <1>6, Zenon DEF SerializationInv, RoundTrip, IdsLeftBehind, PanicsExplained

\* What holds while the nodes are read.
LEMMA ReadFacts ==
  ASSUME SerializationInv, pc = "read"
  PROVE  /\ parents \in Histories /\ graph \subseteq Node
         /\ calls \in Seq(Activation) /\ DOMAIN all_nodes \in SUBSET Node
         /\ ancestors \in SUBSET Node /\ graph \subseteq ancestors /\ ancestors \subseteq History
         /\ Explained \/ ancestors = History
         /\ Reading(remaining, calls, DOMAIN all_nodes, ancestors)
         /\ \A k \in ancestors : serialized[k] = parents[k]
         /\ \A n \in DOMAIN all_nodes : all_nodes[n] = parents[n]
<1>1. /\ parents \in Histories /\ graph \subseteq Node
      /\ calls \in Seq(Activation) /\ DOMAIN all_nodes \in SUBSET Node
  BY DEF SerializationInv, SerializationTypeOK
<1>2. Walking(<<>>, {}, ancestors, {}) /\ ReadInv
  BY DEF SerializationInv, WalkInv
<1>3. /\ graph \subseteq ancestors /\ ancestors \subseteq History
      /\ Explained \/ ancestors = History
  BY <1>1, <1>2, WalkKeeps, Zenon
<1>4. ancestors \in SUBSET Node
  BY <1>1, <1>3, HistoryClosed
<1> QED
  BY <1>1, <1>2, <1>3, <1>4, Zenon DEF ReadInv

\* DeserializeNext preserves the invariant.
LEMMA DeserializeNextStep ==
  ASSUME SerializationInv, NEW id \in remaining, DeserializeNext(id)
  PROVE  SerializationInv'
<1>1. /\ pc = "read" /\ pc' = "read" /\ calls = <<>> /\ remaining' = remaining \ {id}
      /\ all_nodes' = all_nodes /\ UNCHANGED <<input, iterator, written>>
  BY Zenon DEF DeserializeNext, Call
<1>2. /\ parents \in Histories /\ DOMAIN all_nodes \in SUBSET Node /\ ancestors \in SUBSET Node
      /\ Reading(remaining, <<>>, DOMAIN all_nodes, ancestors)
      /\ \A k \in ancestors : serialized[k] = parents[k]
      /\ \A n \in DOMAIN all_nodes : all_nodes[n] = parents[n]
  BY <1>1, ReadFacts, Zenon
<1>3. id \in ancestors
  BY <1>2, Zenon DEF Reading
<1>4. PICK t : t = calls' /\ Pushed(t, [id |-> id, todo |-> parents[id]], <<>>)
  BY <1>2, <1>3, Zenon DEF DeserializeNext, Call, Pushed
<1>5. t \in Seq(Activation) /\ Reading(remaining \ {id}, t, DOMAIN all_nodes, ancestors)
  BY <1>2, <1>4, ReadCalls, ZenonT(30)
<1> QED
  BY <1>1, <1>2, <1>4, <1>5, ReadStep, Zenon

\* VisitParent preserves the invariant: if it fails, the parent was not serialised,
\* and the walk over the ancestors did not reach it.
LEMMA VisitParentStep ==
  ASSUME SerializationInv, pc = "read", calls # <<>>, Head(calls).todo # <<>>,
         VisitParent, UNCHANGED <<input, iterator, written>>
  PROVE  SerializationInv'
<1> DEFINE D == DOMAIN all_nodes
<1>1. PICK p : p = Head(Head(calls).todo)
  OBVIOUS
<1>2. PICK r : Pushed(r, [id |-> Head(calls).id, todo |-> Tail(Head(calls).todo)], Tail(calls))
  BY ZenonT(30) DEF Pushed
<1>3. /\ parents \in Histories /\ graph \subseteq Node /\ calls \in Seq(Activation)
      /\ D \in SUBSET Node
      /\ ancestors \in SUBSET Node /\ ancestors \subseteq History
      /\ Explained \/ ancestors = History
      /\ Reading(remaining, calls, D, ancestors)
      /\ \A k \in ancestors : serialized[k] = parents[k]
      /\ \A n \in D : all_nodes[n] = parents[n]
  BY ReadFacts, Zenon
<1>4. /\ all_nodes' = all_nodes
      /\ \/ p \in D /\ calls' = r /\ UNCHANGED <<pc, remaining>>
         \/ /\ p \notin D /\ p \in remaining /\ remaining' = remaining \ {p} /\ UNCHANGED pc
            /\ calls' = <<[id |-> p, todo |-> serialized[p]]>> \o r
         \/ p \notin D \cup remaining /\ Panic /\ UNCHANGED <<remaining, calls>>
  BY <1>1, <1>2, ZenonT(30) DEF VisitParent, Call, Pushed
<1> HIDE DEF D
<1>5. CASE p \in D /\ calls' = r /\ UNCHANGED <<pc, remaining>>
  <2>1. r \in Seq(Activation) /\ Reading(remaining, r, D, ancestors)
    BY <1>1, <1>2, <1>3, <1>5, ReadGoesOn, Zenon
  <2> QED
    BY <2>1, <1>3, <1>4, <1>5, ReadStep, Zenon DEF D
<1>6. CASE /\ p \notin D /\ p \in remaining /\ remaining' = remaining \ {p} /\ UNCHANGED pc
           /\ calls' = <<[id |-> p, todo |-> serialized[p]]>> \o r
  <2>1. p \in ancestors
    BY <1>3, <1>6 DEF Reading
  <2>2. PICK t : t = calls' /\ Pushed(t, [id |-> p, todo |-> parents[p]], r)
    BY <2>1, <1>3, <1>6, Zenon DEF Pushed
  <2>3. t \in Seq(Activation) /\ Reading(remaining \ {p}, t, D, ancestors)
    BY <2>2, <1>1, <1>2, <1>3, <1>6, ReadRecurses, ZenonT(30)
  <2> QED
    BY <2>2, <2>3, <1>3, <1>4, <1>6, ReadStep, ZenonT(30) DEF D
<1>7. CASE p \notin D \cup remaining /\ Panic /\ UNCHANGED <<remaining, calls>>
  <2>1. Head(calls).id \in ancestors /\ p \in ParentsOf(Head(calls).id) /\ p \notin ancestors
    <3>1. /\ Head(calls).id \in ancestors /\ Head(Head(calls).todo) \in ParentsOf(Head(calls).id)
          /\ Head(Head(calls).todo) \in ancestors => Head(Head(calls).todo) \in remaining \cup D
      BY <1>3, ReadMeets
    <3> QED
      BY <3>1, <1>1, <1>7, ZenonT(30)
  <2>2. Explained
    BY <2>1, <1>3, HistoryClosed, ZenonT(30)
  <2> QED
    BY <2>2, <1>4, <1>7, PanicStep, ZenonT(30) DEF iterator, written
<1> QED
  BY <1>4, <1>5, <1>6, <1>7, ZenonT(30)

\* Create preserves the invariant: it does not fail, the parents exist.
LEMMA CreateStep ==
  ASSUME SerializationInv, pc = "read", calls # <<>>, Head(calls).todo = <<>>,
         Create(Head(calls).id), UNCHANGED <<input, iterator, written>>
  PROVE  SerializationInv'
<1> DEFINE D == DOMAIN all_nodes
<1>1. PICK n, t : n = Head(calls).id /\ t = Tail(calls)
  BY ZenonT(30)
<1>2. /\ calls \in Seq(Activation) /\ D \in SUBSET Node
      /\ Reading(remaining, calls, D, ancestors)
      /\ \A k \in ancestors : serialized[k] = parents[k]
      /\ \A m \in D : all_nodes[m] = parents[m]
  BY ReadFacts, Zenon
<1>3. /\ t \in Seq(Activation)
      /\ n \in ancestors /\ n \in Node /\ ParentsOf(n) \subseteq D
      /\ Reading(remaining, t, D \cup {n}, ancestors)
  BY <1>1, <1>2, ReadReturns, ZenonT(30)
<1>4. serialized[n] = parents[n] /\ Range(serialized[n]) \subseteq DOMAIN all_nodes
  BY <1>2, <1>3 DEF ParentsOf
<1>5. /\ all_nodes' = [k \in D \cup {n} |-> IF k = n THEN serialized[n] ELSE all_nodes[k]]
      /\ calls' = t /\ pc' = pc /\ remaining' = remaining
  BY <1>1, <1>4, ZenonT(30) DEF Create
<1> HIDE DEF D
<1>6. DOMAIN all_nodes' = D \cup {n} /\ \A m \in D \cup {n} : all_nodes'[m] = parents[m]
  BY <1>2, <1>4, <1>5
<1> QED
  BY <1>2, <1>3, <1>5, <1>6, ReadStep, ZenonT(30) DEF D

\* Rebuild preserves the invariant: all of the history exists again, and the nodes of the
\* graph are there.
LEMMA RebuildStep ==
  ASSUME SerializationInv, Rebuild
  PROVE  SerializationInv'
<1> DEFINE D == DOMAIN all_nodes
<1>1. /\ pc = "read" /\ calls = <<>> /\ remaining = {}
      /\ UNCHANGED <<input, iterator, written, remaining, calls, all_nodes>>
      /\ graph \subseteq D => pc' = "done" /\ new_ids' = D
  BY ZenonT(30) DEF Rebuild
<1>2. /\ parents \in Histories /\ graph \subseteq Node
      /\ graph \subseteq ancestors /\ ancestors \subseteq History
      /\ Reading({}, <<>>, D, ancestors)
      /\ \A n \in D : all_nodes[n] = parents[n]
  BY <1>1, ReadFacts
<1>3. D = ancestors /\ \A n \in D : ParentsOf(n) \subseteq D
  BY <1>2 DEF Reading, IdsOf
<1>4. D = History
  BY <1>2, <1>3, HistoryClosed, Zenon
<1>5. pc' = "done" /\ new_ids' = History
  BY <1>1, <1>2, <1>3, <1>4
<1>6. WalkInv'
  BY <1>1, <1>5, WalkFrame DEF iterator, written
<1>7. SerializationTypeOK'
  BY <1>1, <1>5, InputFrame, ZenonT(30) DEF iterator, written, SerializationInv, SerializationTypeOK
<1>8. RoundTrip' /\ History' = History
  BY <1>1, <1>2, <1>4, InputFrame DEF RoundTrip
<1> QED
  BY <1>5, <1>6, <1>7, <1>8 DEF SerializationInv, IdsLeftBehind, PanicsExplained

\* DropGraph preserves the invariant.
LEMMA DropGraphStep ==
  ASSUME SerializationInv, DropGraph
  PROVE  SerializationInv'
<1>1. /\ pc = "done" /\ pc' = "dropped" /\ new_ids' = new_ids \ graph
      /\ UNCHANGED <<input, iterator, written, remaining, calls, all_nodes>>
  BY DEF DropGraph, Tracked
<1>2. WalkInv'
  BY <1>1, WalkFrame DEF iterator, written
<1>3. SerializationTypeOK'
  BY <1>1, InputFrame DEF iterator, written, SerializationInv, SerializationTypeOK
<1>4. RoundTrip'
  BY <1>1, InputFrame DEF SerializationInv, RoundTrip
<1>5. IdsLeftBehind'
  BY <1>1, InputFrame DEF SerializationInv, IdsLeftBehind
<1> QED
  BY <1>1, <1>2, <1>3, <1>4, <1>5 DEF SerializationInv, PanicsExplained

\* The invariant holds at the start.
LEMMA SerializationInit == Init => SerializationInv
<1> SUFFICES ASSUME Init PROVE SerializationInv
  OBVIOUS
<1>1. /\ registered \in SUBSET Node /\ graph \in SUBSET registered /\ parents \in Histories
      /\ pc = "walk" /\ todo = graph /\ stack = <<>> /\ seen = {} /\ ids = registered
      /\ ancestors = {} /\ calls = <<>> /\ all_nodes = NoIds
  BY DEF Init
<1>2. stack \in Seq(Node) /\ calls \in Seq(Activation)
  BY <1>1
<1>3. DOMAIN all_nodes = {}
  BY <1>1 DEF NoIds
<1>4. SerializationTypeOK
  BY <1>1, <1>2, <1>3 DEF SerializationTypeOK
<1>5. WalkInv
  BY <1>1 DEF WalkInv, Walking
<1> QED
  BY <1>1, <1>4, <1>5 DEF SerializationInv, RoundTrip, IdsLeftBehind, PanicsExplained

\* The invariant holds throughout.
LEMMA SerializationInvariance == Spec => []SerializationInv
<1>1. ASSUME SerializationInv, UNCHANGED vars PROVE SerializationInv'
  <2>1. UNCHANGED <<input, pc, stack, seen, todo, ids, ancestors, serialized,
                    remaining, calls, all_nodes, new_ids>>
    BY <1>1 DEF vars, iterator, written, read
  <2>2. SerializationTypeOK'
    BY <1>1, <2>1, InputFrame DEF SerializationInv, SerializationTypeOK
  <2>3. Walking(stack, seen, ancestors, todo)'
    BY <1>1, <2>1, LoopFrame DEF SerializationInv, WalkInv
  <2>4. WalkInv'
    BY <1>1, <2>1, <2>3, InputFrame DEF SerializationInv, WalkInv
  <2>5. ASSUME pc = "read" PROVE ReadInv'
    <3>1. ReadInv
      BY <1>1, <2>5 DEF SerializationInv
    <3>2. Reading(remaining, calls, DOMAIN all_nodes, ancestors)'
      BY <3>1, <2>1, LoopFrame, ZenonT(30) DEF ReadInv
    <3> QED
      BY <3>1, <3>2, <2>1, InputFrame, Zenon DEF ReadInv
  <2>6. RoundTrip' /\ IdsLeftBehind' /\ (pc' = "done" => new_ids' = History')
    BY <1>1, <2>1, InputFrame, Zenon DEF SerializationInv, RoundTrip, IdsLeftBehind
  <2>7. PanicsExplained'
    <3>1. pc = "panic" => Explained
      BY <1>1 DEF SerializationInv, PanicsExplained, Explained
    <3>2. pc' = "panic" => Explained'
      BY <3>1, <2>1, InputFrame
    <3> QED
      BY <3>2 DEF PanicsExplained, Explained
  <2> QED
    BY <2>1, <2>2, <2>4, <2>5, <2>6, <2>7 DEF SerializationInv
<1>2. ASSUME SerializationInv, DeserializeNode PROVE SerializationInv'
  BY <1>2, VisitParentStep, CreateStep DEF DeserializeNode
<1>3. SerializationInv /\ [Next]_vars => SerializationInv'
  BY <1>1, <1>2, VisitNodeStep, NextNodeStep, NextNoneStep, SerializeRegistryStep,
     SerializeFailsStep, DeserializeNextStep, RebuildStep, DropGraphStep, ZenonT(30) DEF Next
<1> QED
  BY <1>3, SerializationInit, PTL DEF Spec

-----------------------------------------------------------------------------
(* What the round trip guarantees *)

\* What from_serialized creates is the history of the graph that to_serialized was given,
\* with all its edges in their order.
THEOREM RoundTripIsExact == Spec => []RoundTrip
<1>1. SerializationInv => RoundTrip
  BY DEF SerializationInv
<1> QED
  BY <1>1, SerializationInvariance, PTL

\* deserialize_node loses no id and creates none twice, and no node before its parents:
\* "valid dfs order" is never violated.
THEOREM DeserializesInDfsOrder == Spec => []DfsOrder
<1>1. ASSUME SerializationInv PROVE DfsOrder
  <2> DEFINE I == IdsOf(calls)
  <2> SUFFICES ASSUME pc = "read"
               PROVE  /\ \A i, j \in DOMAIN calls : calls[i].id = calls[j].id => i = j
                      /\ DOMAIN serialized = remaining \cup I \cup DOMAIN all_nodes
                      /\ remaining \cap (I \cup DOMAIN all_nodes) = {}
                      /\ I \cap DOMAIN all_nodes = {}
                      /\ \A n \in DOMAIN all_nodes : ParentsOf(n) \subseteq DOMAIN all_nodes
    BY ZenonT(30) DEF DfsOrder, IdsOf
  <2>1. ReadInv /\ calls \in Seq(Activation) /\ Increasing(calls)
    BY <1>1, Zenon DEF SerializationInv, SerializationTypeOK, ReadInv, Reading
  <2>2. ASSUME NEW i \in DOMAIN calls, NEW j \in DOMAIN calls, i < j PROVE calls[i].id # calls[j].id
    <3>1. calls[i].id < calls[j].id
      BY <2>1, <2>2 DEF Increasing
    <3>2. calls[i].id \in Nat
      BY <2>1, IdsOfSeq, BoundsAssumption DEF Node
    <3> QED
      BY <3>1, <3>2
  <2>3. \A i, j \in DOMAIN calls : i < j \/ j < i \/ i = j
    BY <2>1
  <2>4. \A i, j \in DOMAIN calls : calls[i].id = calls[j].id => i = j
    BY <2>2, <2>3
  <2> QED
    BY <2>1, <2>4, ZenonT(30) DEF ReadInv, Reading
<1> QED
  BY <1>1, SerializationInvariance, PTL

\* to_serialized and from_serialized panic for three reasons only: the id of a dead node, a
\* parent without an id, or the end of all_ancestors at the first shared ancestor.
THEOREM RoundTripPanicsExplained == Spec => []PanicsExplained
<1>1. SerializationInv => PanicsExplained
  BY DEF SerializationInv
<1> QED
  BY <1>1, SerializationInvariance, PTL

\* The ids that a dropped graph leaves in its registry are those of the nodes of its history
\* that it did not contain (from_slotmap, try_register_in).
THEOREM RoundTripIdsLeftBehind == Spec => []IdsLeftBehind
<1>1. SerializationInv => IdsLeftBehind
  BY DEF SerializationInv
<1> QED
  BY <1>1, SerializationInvariance, PTL

=============================================================================
