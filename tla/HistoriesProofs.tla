-------------------------- MODULE HistoriesProofs --------------------------
(***************************************************************************)
(* Facts about histories: what Upto computes, for every history.           *)
(***************************************************************************)
EXTENDS Histories, WellFoundedInduction, TLAPS

-----------------------------------------------------------------------------
(* Induction *)

\* A set of natural numbers has a least element.
LEMMA LeastNumber ==
  ASSUME NEW T \in SUBSET Nat, T # {}
  PROVE  \E x \in T : \A y \in T : x <= y
<1>1. PICK x \in T : \A y \in T : <<y, x>> \notin OpToRel(<, Nat)
  BY NatLessThanWellFounded, WFMin, Zenon
<1>2. OpToRel(<, Nat) = {ss \in Nat \X Nat : ss[1] < ss[2]}
  BY DEF OpToRel
<1>3. ASSUME NEW y \in T PROVE x <= y
  <2>1. <<y, x>> \in Nat \X Nat /\ ~(y < x)
    BY <1>1, <1>2, Zenon
  <2> QED
    BY <2>1
<1> QED
  BY <1>3

-----------------------------------------------------------------------------
(* Sequences *)

\* A function on 1 .. m is a sequence.
LEMMA FcnIsSeq ==
  ASSUME NEW S, NEW m \in Nat, NEW f \in [1 .. m -> S]
  PROVE  f \in Seq(S) /\ Len(f) = m /\ DOMAIN f = 1 .. m
OBVIOUS

\* Two sequences with the same elements are equal.
LEMMA SameElements ==
  ASSUME NEW S, NEW s \in Seq(S), NEW t \in Seq(S), Len(s) = Len(t),
         \A i \in 1 .. Len(s) : s[i] = t[i]
  PROVE  s = t
OBVIOUS

\* An element after a sequence
LEMMA Appended ==
  ASSUME NEW S, NEW s \in Seq(S), NEW x \in S
  PROVE  /\ Append(s, x) \in Seq(S)
         /\ Append(s, x) # <<>>
         /\ Len(Append(s, x)) = Len(s) + 1
         /\ \A i \in 1 .. Len(s) : Append(s, x)[i] = s[i]
         /\ Append(s, x)[Len(s) + 1] = x
OBVIOUS

\* A sequence after another
LEMMA Concatenated ==
  ASSUME NEW S, NEW s \in Seq(S), NEW t \in Seq(S)
  PROVE  /\ s \o t \in Seq(S)
         /\ Len(s \o t) = Len(s) + Len(t)
         /\ \A i \in 1 .. Len(s) + Len(t) :
              (s \o t)[i] = IF i <= Len(s) THEN s[i] ELSE t[i - Len(s)]
OBVIOUS

\* A part of a sequence
LEMMA PartOf ==
  ASSUME NEW S, NEW s \in Seq(S), NEW f \in 1 .. Len(s) + 1, NEW l \in f - 1 .. Len(s)
  PROVE  /\ SubSeq(s, f, l) \in Seq(S)
         /\ Len(SubSeq(s, f, l)) = l - f + 1
         /\ \A i \in 1 .. l - f + 1 : SubSeq(s, f, l)[i] = s[f + i - 1]
OBVIOUS

\* The part that has everything, and one that has nothing
LEMMA WholeAndEmpty ==
  ASSUME NEW S, NEW s \in Seq(S)
  PROVE  /\ SubSeq(s, 1, Len(s)) = s
         /\ \A f, l \in Int : l < f => SubSeq(s, f, l) = <<>>
OBVIOUS

\* A queue that holds the elements f to l of s: the next element is appended ...
LEMMA QueueAppend ==
  ASSUME NEW S, NEW s \in Seq(S), NEW f \in 1 .. Len(s) + 1, NEW l \in f - 1 .. Len(s) - 1
  PROVE  Append(SubSeq(s, f, l), s[l + 1]) = SubSeq(s, f, l + 1)
<1>1. l \in f - 1 .. Len(s) /\ l + 1 \in f - 1 .. Len(s) /\ s[l + 1] \in S
  OBVIOUS
<1>2. PICK q, r : q = SubSeq(s, f, l) /\ r = SubSeq(s, f, l + 1)
  BY Zenon
<1>3. /\ q \in Seq(S) /\ Len(q) = l - f + 1
      /\ \A i \in 1 .. l - f + 1 : q[i] = s[f + i - 1]
  BY <1>1, <1>2, PartOf
<1>4. /\ r \in Seq(S) /\ Len(r) = l + 1 - f + 1
      /\ \A i \in 1 .. l + 1 - f + 1 : r[i] = s[f + i - 1]
  BY <1>1, <1>2, PartOf
<1>5. PICK a : a = Append(q, s[l + 1])
  BY Zenon
<1>6. /\ a \in Seq(S) /\ Len(a) = Len(q) + 1
      /\ \A i \in 1 .. Len(q) : a[i] = q[i]
      /\ a[Len(q) + 1] = s[l + 1]
  BY <1>1, <1>3, <1>5, Appended
<1>7. ASSUME NEW i \in 1 .. Len(a) PROVE a[i] = r[i]
  <2>1. CASE i \in 1 .. Len(q)
    <3>1. i \in 1 .. l - f + 1 /\ i \in 1 .. l + 1 - f + 1
      BY <2>1, <1>3
    <3>2. a[i] = q[i] /\ q[i] = s[f + i - 1] /\ r[i] = s[f + i - 1]
      BY <2>1, <3>1, <1>3, <1>4, <1>6
    <3> QED
      BY <3>2
  <2>2. CASE i = Len(q) + 1
    BY <2>2, <1>1, <1>3, <1>4, <1>6
  <2> QED
    BY <2>1, <2>2, <1>3, <1>6
<1>8. Len(a) = Len(r)
  BY <1>3, <1>4, <1>6
<1>9. a = r
  BY <1>4, <1>6, <1>7, <1>8, SameElements, Zenon
<1> QED
  BY <1>2, <1>5, <1>9

\* ... and the first one taken.
LEMMA QueueTake ==
  ASSUME NEW S, NEW s \in Seq(S), NEW f \in 1 .. Len(s), NEW l \in f .. Len(s)
  PROVE  /\ SubSeq(s, f, l) # <<>>
         /\ Head(SubSeq(s, f, l)) = s[f]
         /\ Tail(SubSeq(s, f, l)) = SubSeq(s, f + 1, l)
<1>1. PICK q, r : q = SubSeq(s, f, l) /\ r = SubSeq(s, f + 1, l)
  BY Zenon
<1>2. /\ f \in 1 .. Len(s) + 1 /\ l \in f - 1 .. Len(s)
      /\ f + 1 \in 1 .. Len(s) + 1 /\ l \in f + 1 - 1 .. Len(s)
  OBVIOUS
<1>3. /\ q \in Seq(S) /\ Len(q) = l - f + 1
      /\ \A i \in 1 .. l - f + 1 : q[i] = s[f + i - 1]
  BY <1>1, <1>2, PartOf
<1>4. /\ r \in Seq(S) /\ Len(r) = l - (f + 1) + 1
      /\ \A i \in 1 .. l - (f + 1) + 1 : r[i] = s[f + 1 + i - 1]
  BY <1>1, <1>2, PartOf
<1>5. q # <<>> /\ Head(q) = q[1] /\ q[1] = s[f]
  BY <1>3
<1>6. /\ Tail(q) \in Seq(S) /\ Len(Tail(q)) = Len(q) - 1
      /\ \A i \in 1 .. Len(q) - 1 : Tail(q)[i] = q[i + 1]
  BY <1>3, <1>5
<1>7. ASSUME NEW i \in 1 .. Len(r) PROVE Tail(q)[i] = r[i]
  <2>1. i \in 1 .. Len(q) - 1 /\ i + 1 \in 1 .. l - f + 1 /\ f + (i + 1) - 1 = f + 1 + i - 1
    BY <1>2, <1>3, <1>4
  <2> QED
    BY <2>1, <1>3, <1>4, <1>6
<1>8. Tail(q) = r
  <2>1. Len(Tail(q)) = Len(r)
    BY <1>3, <1>4, <1>6
  <2> QED
    BY <2>1, <1>4, <1>6, <1>7, SameElements, Zenon
<1> QED
  BY <1>1, <1>5, <1>8

\* The elements of a sequence
LEMMA RangeOf ==
  ASSUME NEW S, NEW s \in Seq(S)
  PROVE  /\ Range(s) = {s[i] : i \in 1 .. Len(s)}
         /\ Range(s) \subseteq S
         /\ \A i \in 1 .. Len(s) : s[i] \in Range(s)
BY DEF Range

\* The elements of two sequences
LEMMA RangeConcatenated ==
  ASSUME NEW S, NEW s \in Seq(S), NEW t \in Seq(S)
  PROVE  Range(s \o t) = Range(s) \cup Range(t)
<1>1. PICK u : u = s \o t
  BY Zenon
<1>2. /\ u \in Seq(S) /\ Len(u) = Len(s) + Len(t) /\ Len(s) \in Nat /\ Len(t) \in Nat
      /\ \A i \in 1 .. Len(s) + Len(t) : u[i] = IF i <= Len(s) THEN s[i] ELSE t[i - Len(s)]
  BY <1>1, Concatenated
<1>3. \A i \in 1 .. Len(s) : i \in 1 .. Len(u) /\ u[i] = s[i]
  BY <1>2
<1>4. ASSUME NEW i \in 1 .. Len(t) PROVE i + Len(s) \in 1 .. Len(u) /\ u[i + Len(s)] = t[i]
  <2>1. i + Len(s) \in 1 .. Len(s) + Len(t) /\ ~(i + Len(s) <= Len(s)) /\ i + Len(s) - Len(s) = i
    BY <1>2
  <2> QED
    BY <2>1, <1>2
<1>5. ASSUME NEW i \in 1 .. Len(u)
      PROVE  (i \in 1 .. Len(s) /\ u[i] = s[i]) \/ (i - Len(s) \in 1 .. Len(t) /\ u[i] = t[i - Len(s)])
  BY <1>2
<1>6. /\ Range(s) = {s[i] : i \in 1 .. Len(s)} /\ Range(t) = {t[i] : i \in 1 .. Len(t)}
      /\ Range(u) = {u[i] : i \in 1 .. Len(u)}
  BY <1>2, RangeOf, Zenon
<1>7. Range(u) \subseteq Range(s) \cup Range(t)
  BY <1>5, <1>6
<1>8. Range(s) \subseteq Range(u)
  BY <1>3, <1>6
<1>9. Range(t) \subseteq Range(u)
  BY <1>4, <1>6
<1> QED
  BY <1>1, <1>7, <1>8, <1>9

\* A stack loses its top.
LEMMA PopStack ==
  ASSUME NEW S, NEW s \in Seq(S), s # <<>>
  PROVE  /\ Len(s) \in Nat \ {0}
         /\ Top(s) \in S
         /\ Pop(s) \in Seq(S)
         /\ Len(Pop(s)) = Len(s) - 1
         /\ \A i \in 1 .. Len(s) - 1 : Pop(s)[i] = s[i]
         /\ Range(s) = Range(Pop(s)) \cup {Top(s)}
<1>1. Len(s) \in Nat /\ Len(s) # 0 /\ DOMAIN s = 1 .. Len(s)
  OBVIOUS
<1>2. Top(s) \in S
  BY <1>1 DEF Top
<1>3. /\ Pop(s) \in Seq(S) /\ Len(Pop(s)) = Len(s) - 1
      /\ \A i \in 1 .. Len(s) - 1 : Pop(s)[i] = s[i]
  BY <1>1 DEF Pop
<1>4. Range(s) = {s[i] : i \in 1 .. Len(s)} /\ Range(Pop(s)) = {Pop(s)[i] : i \in 1 .. Len(s) - 1}
  BY <1>3, RangeOf
<1>5. 1 .. Len(s) = (1 .. Len(s) - 1) \cup {Len(s)}
  BY <1>1
<1>6. \A i \in 1 .. Len(s) - 1 : i \in 1 .. Len(s)
  BY <1>5, Zenon
<1>7. Range(s) = {s[i] : i \in 1 .. Len(s) - 1} \cup {s[Len(s)]}
  BY <1>4, <1>5, Zenon
<1>8. Range(Pop(s)) = {s[i] : i \in 1 .. Len(s) - 1}
  BY <1>3, <1>4, Zenon
<1>9. Range(s) = Range(Pop(s)) \cup {Top(s)}
  BY <1>7, <1>8, Zenon DEF Top
<1> QED
  BY <1>1, <1>2, <1>3, <1>9, Zenon

-----------------------------------------------------------------------------
(* Parents *)

\* The parents of a node are nodes that were created before it.
LEMMA ParentsType ==
  ASSUME parents \in Histories, NEW n \in Node
  PROVE  /\ parents[n] \in Seq(Node)
         /\ Len(parents[n]) \in Nat
         /\ DOMAIN parents[n] = 1 .. Len(parents[n])
         /\ \A i \in DOMAIN parents[n] : parents[n][i] \in Node /\ parents[n][i] < n
         /\ \A p \in ParentsOf(n) : p \in Node /\ p < n
         /\ \A i \in DOMAIN parents[n] : parents[n][i] \in ParentsOf(n)
<1>1. parents[n] \in UNION {[1 .. k -> 1 .. N - 1] : k \in 0 .. MaxParents}
  BY DEF Histories
<1>2. PICK m \in 0 .. MaxParents : parents[n] \in [1 .. m -> 1 .. N - 1]
  BY <1>1
<1>3. m \in Nat /\ 1 .. N - 1 \subseteq Node
  BY <1>2, BoundsAssumption DEF Node
<1>4. parents[n] \in Seq(Node) /\ Len(parents[n]) = m /\ DOMAIN parents[n] = 1 .. m
  BY <1>2, <1>3
<1>5. \A i \in DOMAIN parents[n] : parents[n][i] \in Node /\ parents[n][i] < n
  BY <1>2, <1>3 DEF Histories
<1> QED
  BY <1>3, <1>4, <1>5 DEF ParentsOf, Range

-----------------------------------------------------------------------------
(* Upto *)

\* The equation of UptoAll(S), for the nodes up to k
IsUpto(f, S, k) ==
  f = [m \in 1 .. k |-> IF m \in S THEN {} ELSE {m} \cup UNION {f[p] : p \in ParentsOf(m)}]

\* The equation has a solution: that for k nodes extends to k + 1.
LEMMA UptoExists ==
  ASSUME parents \in Histories, NEW S
  PROVE  \E f : IsUpto(f, S, N)
<1> DEFINE T == {k \in 0 .. N : ~ \E f : IsUpto(f, S, k)}
<1>1. N \in Nat
  BY BoundsAssumption
<1>2. SUFFICES ASSUME T # {} PROVE FALSE
  BY <1>1
<1>3. PICK k \in T : \A y \in T : k <= y
  <2>1. T \in SUBSET Nat
    BY <1>1
  <2> HIDE DEF T
  <2> QED
    BY <2>1, <1>2, LeastNumber
<1>4. k # 0
  <2>1. 1 .. 0 = {}
    OBVIOUS
  <2>2. IsUpto([m \in {} |-> {}], S, 0)
    BY <2>1 DEF IsUpto
  <2> QED
    BY <2>2, <1>3
<1>5. k - 1 \in 0 .. N /\ k \in Node
  BY <1>1, <1>3, <1>4 DEF Node
<1>6. PICK f : IsUpto(f, S, k - 1)
  BY <1>1, <1>3, <1>5
<1> DEFINE e(g, m) == IF m \in S THEN {} ELSE {m} \cup UNION {g[p] : p \in ParentsOf(m)}
<1> DEFINE g == [m \in 1 .. k |-> IF m = k THEN e(f, k) ELSE f[m]]
<1>7. \A m \in 1 .. k : \A p \in ParentsOf(m) : p \in 1 .. k - 1 /\ p < m
  BY <1>1, <1>5, ParentsType DEF Node
<1>8. \A m \in 1 .. k : \A p \in ParentsOf(m) : g[p] = f[p]
  BY <1>7, <1>5, <1>1
<1>9. \A m \in 1 .. k : e(g, m) = e(f, m)
  BY <1>8, Zenon
<1>10. \A m \in 1 .. k : g[m] = e(f, m)
  <2>1. \A m \in 1 .. k - 1 : f[m] = e(f, m)
    BY <1>6, Zenon DEF IsUpto
  <2> QED
    BY <2>1, <1>5, <1>1
<1>11. \A m \in 1 .. k : g[m] = e(g, m)
  BY <1>9, <1>10, Zenon
<1>12. g = [m \in 1 .. k |-> e(g, m)]
  BY <1>11, Zenon
<1> QED
  BY <1>12, <1>3, Zenon DEF IsUpto

\* Upto satisfies the equation that defines it.
LEMMA UptoDef ==
  ASSUME parents \in Histories, NEW S, NEW n \in Node
  PROVE  Upto(n, S) = IF n \in S THEN {} ELSE {n} \cup UNION {Upto(p, S) : p \in ParentsOf(n)}
<1>1. IsUpto(UptoAll(S), S, N)
  <2>1. UptoAll(S) = CHOOSE f : IsUpto(f, S, N)
    BY DEF IsUpto, UptoAll, Node
  <2> QED
    BY <2>1, UptoExists
<1> QED
  BY <1>1, Zenon DEF IsUpto, Upto, Node

\* Upto(n, S) is contained in every set that has n, if it is not in S, and with
\* each node its parents that are not in S.
LEMMA UptoLeast ==
  ASSUME parents \in Histories, NEW S, NEW C, NEW n \in Node, n \in C \cup S,
         \A m \in Node : m \in C /\ m \notin S => ParentsOf(m) \subseteq C \cup S
  PROVE  Upto(n, S) \subseteq C
<1> DEFINE T == {m \in Node : m \in C \cup S /\ ~(Upto(m, S) \subseteq C)}
<1>1. SUFFICES ASSUME T # {} PROVE FALSE
  OBVIOUS
<1>2. PICK k \in T : \A y \in T : k <= y
  <2>1. T \in SUBSET Nat
    BY BoundsAssumption DEF Node
  <2> HIDE DEF T
  <2> QED
    BY <2>1, <1>1, LeastNumber
<1>3. k \in Nat /\ k \notin S /\ k \in C
  BY <1>2, UptoDef, BoundsAssumption DEF Node
<1>4. \A p \in ParentsOf(k) : p \in Node /\ p < k /\ p \in C \cup S
  BY <1>2, <1>3, ParentsType
<1>5. \A p \in ParentsOf(k) : Upto(p, S) \subseteq C
  <2> SUFFICES ASSUME NEW p \in ParentsOf(k) PROVE p \notin T
    BY <1>4
  <2>1. p \in Nat /\ ~(k <= p)
    BY <1>3, <1>4, BoundsAssumption DEF Node
  <2> HIDE DEF T
  <2> QED
    BY <2>1, <1>2
<1>6. Upto(k, S) = {k} \cup UNION {Upto(p, S) : p \in ParentsOf(k)}
  BY <1>2, <1>3, UptoDef
<1> QED
  BY <1>2, <1>3, <1>5, <1>6

\* What Upto(n, S) has: nodes that are not in S and not younger than n.
LEMMA UptoType ==
  ASSUME parents \in Histories, NEW S, NEW n \in Node
  PROVE  /\ \A m \in Upto(n, S) : m \in Node /\ m <= n /\ m \notin S
         /\ n \notin S => n \in Upto(n, S)
         /\ n \in S => Upto(n, S) = {}
<1> DEFINE C == {m \in Node : m <= n /\ m \notin S}
<1>1. n \in Nat /\ Node \subseteq Nat
  BY BoundsAssumption DEF Node
<1>2. \A m \in Node : m \in C /\ m \notin S => ParentsOf(m) \subseteq C \cup S
  <2> SUFFICES ASSUME NEW m \in Node, m <= n, NEW p \in ParentsOf(m), p \notin S
               PROVE  p \in Node /\ p <= n
    OBVIOUS
  <2>1. p \in Node /\ p < m
    BY ParentsType
  <2> QED
    BY <2>1, <1>1
<1>3. n \in C \cup S
  BY <1>1
<1>4. Upto(n, S) \subseteq C
  <2> HIDE DEF C
  <2> QED
    BY <1>2, <1>3, UptoLeast
<1> QED
  BY <1>4, UptoDef

\* With a node, Upto(n, S) has its parents that are not in S.
LEMMA UptoParents ==
  ASSUME parents \in Histories, NEW S, NEW n \in Node, NEW m \in Upto(n, S)
  PROVE  ParentsOf(m) \subseteq Upto(n, S) \cup S
<1> DEFINE T == {k \in Node : \E j \in Upto(k, S) : ~(ParentsOf(j) \subseteq Upto(k, S) \cup S)}
<1>1. SUFFICES ASSUME T # {} PROVE FALSE
  OBVIOUS
<1>2. PICK k \in T : \A y \in T : k <= y
  <2>1. T \in SUBSET Nat
    BY BoundsAssumption DEF Node
  <2> HIDE DEF T
  <2> QED
    BY <2>1, <1>1, LeastNumber
<1>3. PICK j \in Upto(k, S) : ~(ParentsOf(j) \subseteq Upto(k, S) \cup S)
  BY <1>2
<1>4. k \in Node /\ k \in Nat /\ k \notin S
  BY <1>2, <1>3, UptoType, BoundsAssumption DEF Node
<1>5. Upto(k, S) = {k} \cup UNION {Upto(p, S) : p \in ParentsOf(k)}
  BY <1>4, UptoDef
<1>6. CASE j = k
  <2>1. \A p \in ParentsOf(k) : p \in S \/ p \in Upto(p, S)
    BY <1>4, ParentsType, UptoType, Zenon
  <2> QED
    BY <2>1, <1>3, <1>5, <1>6
<1>7. CASE j # k
  <2>1. PICK p \in ParentsOf(k) : j \in Upto(p, S)
    BY <1>3, <1>5, <1>7
  <2>2. p \in Node /\ p \in Nat /\ p < k
    BY <2>1, <1>4, ParentsType, BoundsAssumption DEF Node
  <2>3. p \notin T
    <3>1. ~(k <= p)
      BY <2>2, <1>4
    <3> HIDE DEF T
    <3> QED
      BY <3>1, <1>2
  <2>4. ParentsOf(j) \subseteq Upto(p, S) \cup S
    BY <2>1, <2>2, <2>3
  <2> QED
    BY <2>1, <2>4, <1>3, <1>5
<1> QED
  BY <1>6, <1>7

=============================================================================
