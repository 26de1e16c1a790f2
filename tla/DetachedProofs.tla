--------------------------- MODULE DetachedProofs ---------------------------
(***************************************************************************)
(* Proofs about Detached: what detach takes along, what attach creates and *)
(* when it fails, for every history and all sets of objects.               *)
(***************************************************************************)
EXTENDS Detached, HistoriesProofs

-----------------------------------------------------------------------------
(* The inductive invariant *)

Event == [kind : {"enter", "exit"}, node : Node]

DetachedTypeOK ==
  /\ parents \in Histories
  /\ current \in Node
  /\ detach_from \in SUBSET Node
  /\ attach_to \in SUBSET Node
  /\ pc \in {"detach", "attach", "done", "panic"}
  /\ stack \in Seq(Node)
  /\ all_data \in SUBSET Node
  /\ events \in Seq(Event)
  /\ visited \in SUBSET Node
  /\ all_new \in SUBSET Node

\* ancestors_upto takes nothing that it should not, and what it has not taken yet
\* is on its stack.
SearchInv ==
  /\ all_data \subseteq Upto(current, detach_from)
  /\ Range(stack) \subseteq Upto(current, detach_from) \cup detach_from
  /\ current \in all_data \cup detach_from \cup Range(stack)
  /\ \A n \in all_data : ParentsOf(n) \subseteq all_data \cup detach_from \cup Range(stack)
  /\ pc # "detach" => stack = <<>>

Open == {events[i].node : i \in DOMAIN events}

\* The event e is below one of u on the stack of post_order_for_each: u is reached
\* from the object of e, which is to be left; or from a parent that comes after it,
\* if it is to be entered.
Below(e, u) ==
  IF e.kind = "exit" THEN u \in Upto(e.node, attach_to)
  ELSE \E w \in all_data \ attach_to : \E i, j \in DOMAIN parents[w] :
         i < j /\ parents[w][i] = e.node /\ u \in Upto(parents[w][j], attach_to)

OpenInv ==
  /\ \A i, j \in DOMAIN events : events[i].node = events[j].node => i = j
  /\ \A i, j \in DOMAIN events : i < j => Below(events[i], events[j].node)
  /\ \A i \in DOMAIN events :
       events[i].kind = "exit" => ParentsOf(events[i].node) \subseteq visited \cup attach_to
  /\ Open \subseteq Upto(current, attach_to)
  /\ Open \cap all_new = {}
  /\ visited \cup {current} = Open \cup all_new
  /\ \A u \in visited : \E w \in all_data \ attach_to : u \in ParentsOf(w)
  /\ \A n \in all_new : ParentsOf(n) \subseteq all_new \cup attach_to

AttachInv ==
  /\ all_new \subseteq Upto(current, attach_to)
  /\ pc = "detach" => events = <<>> /\ visited = {} /\ all_new = {}
  /\ pc = "attach" => current \notin attach_to /\ OpenInv
  /\ AttachedUpto
  /\ AttachPanics

DetachedInv == DetachedTypeOK /\ SearchInv /\ AttachInv

-----------------------------------------------------------------------------
(* ancestors_upto *)

\* The parents of a node are nodes.
LEMMA ParentsRange ==
  ASSUME parents \in Histories, NEW n \in Node
  PROVE  ParentsOf(n) \subseteq Node /\ parents[n] \in Seq(Node) /\ Range(parents[n]) = ParentsOf(n)
BY ParentsType DEF ParentsOf

\* Upto(current, detach_from), attached or not, depends on the input only.
LEMMA DetachedFrame ==
  ASSUME UNCHANGED input
  PROVE  /\ parents' = parents /\ current' = current /\ detach_from' = detach_from
         /\ attach_to' = attach_to
         /\ \A n : ParentsOf(n)' = ParentsOf(n)
         /\ \A n, S : Upto(n, S)' = Upto(n, S)
BY DEF input, ParentsOf, Upto, UptoAll

\* A step of ancestors_upto
LEMMA SearchStep ==
  ASSUME DetachedTypeOK, SearchInv, NextAncestor
  PROVE  SearchInv' /\ stack' \in Seq(Node) /\ all_data' \in SUBSET Node
<1> DEFINE n == Top(stack)
           U == Upto(current, detach_from)
<1>1. stack \in Seq(Node) /\ stack # <<>> /\ parents \in Histories /\ current \in Node
      /\ all_data \subseteq Node
  BY DEF DetachedTypeOK, NextAncestor
<1>2. /\ n \in Node /\ Pop(stack) \in Seq(Node)
      /\ Range(stack) = Range(Pop(stack)) \cup {n}
  BY <1>1, PopStack
<1>3. /\ UNCHANGED input /\ pc = "detach" /\ pc' = "detach"
      /\ \/ Skip(n) /\ stack' = Pop(stack) /\ all_data' = all_data
         \/ ~Skip(n) /\ stack' = Pop(stack) \o parents[n] /\ all_data' = all_data \cup {n}
  BY DEF NextAncestor
<1>4. /\ current' = current /\ detach_from' = detach_from
      /\ \A m : ParentsOf(m)' = ParentsOf(m)
      /\ Upto(current, detach_from)' = U
  BY <1>3, DetachedFrame
<1>5. /\ all_data \subseteq U
      /\ Range(stack) \subseteq U \cup detach_from
      /\ current \in all_data \cup detach_from \cup Range(stack)
      /\ \A m \in all_data : ParentsOf(m) \subseteq all_data \cup detach_from \cup Range(stack)
  BY DEF SearchInv
<1> HIDE DEF n, U
<1>6. CASE Skip(n) /\ stack' = Pop(stack) /\ all_data' = all_data
  <2>1. Range(stack') \subseteq Range(stack) /\ Range(stack) \subseteq Range(stack') \cup all_data' \cup detach_from'
    BY <1>2, <1>4, <1>6 DEF Skip
  <2> QED
    BY <1>1, <1>2, <1>3, <1>4, <1>5, <1>6, <2>1 DEF SearchInv
<1>7. CASE ~Skip(n) /\ stack' = Pop(stack) \o parents[n] /\ all_data' = all_data \cup {n}
  <2>1. parents[n] \in Seq(Node) /\ Range(parents[n]) = ParentsOf(n) /\ ParentsOf(n) \subseteq Node
    BY <1>1, <1>2, ParentsRange
  <2>2. stack' \in Seq(Node) /\ Range(stack') = Range(Pop(stack)) \cup ParentsOf(n)
    BY <2>1, <1>2, <1>7, Concatenated, RangeConcatenated
  <2>3. n \in U
    BY <1>2, <1>5, <1>7 DEF Skip
  <2>4. ParentsOf(n) \subseteq U \cup detach_from
    BY <2>3, <1>1, UptoParents DEF U
  <2>5. all_data' \subseteq U /\ Range(stack') \subseteq U \cup detach_from
    BY <2>2, <2>3, <2>4, <1>2, <1>5, <1>7
  <2>6. all_data \cup detach_from \cup Range(stack) \subseteq all_data' \cup detach_from' \cup Range(stack')
    BY <2>2, <1>2, <1>4, <1>7
  <2>7. \A m \in all_data' : ParentsOf(m) \subseteq all_data' \cup detach_from' \cup Range(stack')
    BY <2>2, <2>6, <1>5, <1>7
  <2>8. current' \in all_data' \cup detach_from' \cup Range(stack')
    BY <2>6, <1>4, <1>5
  <2>9. SearchInv'
    BY <2>5, <2>7, <2>8, <1>3, <1>4 DEF SearchInv
  <2> QED
    BY <2>2, <2>9, <1>1, <1>2, <1>7
<1> QED
  BY <1>3, <1>6, <1>7

\* What ancestors_upto returns
LEMMA SearchEnds ==
  ASSUME DetachedTypeOK, SearchInv, stack = <<>>
  PROVE  /\ all_data = Upto(current, detach_from)
         /\ RequiredHashes \subseteq detach_from
<1>1. Range(stack) = {}
  BY DEF Range
<1>2. /\ current \in all_data \cup detach_from
      /\ \A n \in all_data : ParentsOf(n) \subseteq all_data \cup detach_from
      /\ all_data \subseteq Upto(current, detach_from)
  BY <1>1 DEF SearchInv
<1>3. Upto(current, detach_from) \subseteq all_data
  BY <1>2, UptoLeast, Zenon DEF DetachedTypeOK
<1>4. RequiredHashes \subseteq detach_from
  BY <1>2 DEF RequiredHashes
<1> QED
  BY <1>2, <1>3, <1>4

-----------------------------------------------------------------------------
(* The successors that are pushed *)

\* The loop over the successors has s on the stack, and comes to u.
Extend(s, u) == IF u \in attach_to \cup visited \cup Range(s) THEN s ELSE Append(s, u)

IsPushed(f, v, k) ==
  f = [i \in 0 .. k |-> IF i = 0 THEN <<>> ELSE Extend(f[i - 1], parents[v][i])]

\* The recursion of Push has a solution up to every length.
LEMMA PushedExists ==
  ASSUME NEW v, NEW l \in Nat
  PROVE  \E f : IsPushed(f, v, l)
<1> DEFINE T == {k \in Nat : ~ \E f : IsPushed(f, v, k)}
<1>1. SUFFICES ASSUME T # {} PROVE FALSE
  OBVIOUS
<1>2. PICK k \in T : \A y \in T : k <= y
  <2>1. T \in SUBSET Nat
    OBVIOUS
  <2> HIDE DEF T
  <2> QED
    BY <2>1, <1>1, LeastNumber
<1>3. k # 0
  <2>1. 0 .. 0 = {0}
    OBVIOUS
  <2>2. IsPushed([i \in 0 .. 0 |-> <<>>], v, 0)
    BY <2>1 DEF IsPushed
  <2> QED
    BY <2>2, <1>2
<1>4. k \in Nat /\ k - 1 \in Nat /\ ~(k <= k - 1)
  BY <1>2, <1>3
<1>5. PICK f : IsPushed(f, v, k - 1)
  BY <1>2, <1>4
<1> DEFINE e(g, i) == IF i = 0 THEN <<>> ELSE Extend(g[i - 1], parents[v][i])
           g == [i \in 0 .. k |-> IF i = k THEN e(f, k) ELSE f[i]]
<1>6. \A i \in 0 .. k - 1 : f[i] = e(f, i)
  BY <1>5 DEF IsPushed
<1>7. \A i \in 0 .. k : i # 0 => g[i - 1] = f[i - 1]
  BY <1>4
<1>8. \A i \in 0 .. k : g[i] = e(g, i)
  <2> SUFFICES ASSUME NEW i \in 0 .. k PROVE g[i] = e(g, i)
    OBVIOUS
  <2>1. e(g, i) = e(f, i)
    BY <1>7
  <2>2. g[i] = e(f, i)
    <3>1. CASE i = k
      BY <3>1
    <3>2. CASE i # k
      <4>1. i \in 0 .. k - 1 /\ g[i] = f[i]
        BY <3>2, <1>4
      <4> QED
        BY <4>1, <1>6
    <3> QED
      BY <3>1, <3>2
  <2> QED
    BY <2>1, <2>2
<1>9. g = [i \in 0 .. k |-> e(g, i)]
  BY <1>8
<1> QED
  BY <1>9, <1>2, Zenon DEF IsPushed

\* s has the first k successors of v that are to be visited and were not, each once
\* and in their order.
Pushed(s, v, k) ==
  /\ s \in Seq(Node)
  /\ Range(s) = {parents[v][i] : i \in 1 .. k} \ (attach_to \cup visited)
  /\ \A a, b \in 1 .. Len(s) : s[a] = s[b] => a = b
  /\ \A a, b \in 1 .. Len(s) : a < b =>
       \E i, j \in 1 .. k : i < j /\ s[a] = parents[v][i] /\ s[b] = parents[v][j]

\* The loop over the parents of v looks at one more of them.
LEMMA PushedExtends ==
  ASSUME parents \in Histories, NEW v \in Node, NEW k \in Nat, k + 1 \in DOMAIN parents[v],
         NEW s, Pushed(s, v, k)
  PROVE  Pushed(Extend(s, parents[v][k + 1]), v, k + 1)
<1> DEFINE u == parents[v][k + 1]
           t == Extend(s, u)
<1>1. u \in Node /\ s \in Seq(Node) /\ Len(s) \in Nat
  BY ParentsType DEF Pushed
<1>2. {parents[v][i] : i \in 1 .. k + 1} = {parents[v][i] : i \in 1 .. k} \cup {u}
  <2>1. 1 .. k + 1 = (1 .. k) \cup {k + 1}
    OBVIOUS
  <2> QED
    BY <2>1
<1>3. CASE u \in attach_to \cup visited \cup Range(s)
  <2>1. t = s
    BY <1>3 DEF Extend
  <2>2. Range(s) = {parents[v][i] : i \in 1 .. k + 1} \ (attach_to \cup visited)
    BY <1>2, <1>3 DEF Pushed
  <2>3. 1 .. k \subseteq 1 .. k + 1
    OBVIOUS
  <2> HIDE DEF u
  <2> QED
    BY <2>1, <2>2, <2>3 DEF Pushed, u
<1>4. CASE u \notin attach_to \cup visited \cup Range(s)
  <2>1. t = Append(s, u)
    BY <1>4 DEF Extend
  <2>2. /\ t \in Seq(Node) /\ Len(t) = Len(s) + 1
        /\ \A a \in 1 .. Len(s) : t[a] = s[a]
        /\ t[Len(s) + 1] = u
    BY <2>1, <1>1, Appended
  <2> HIDE DEF t, u
  <2>3. \A a \in 1 .. Len(t) : a = Len(s) + 1 \/ a \in 1 .. Len(s)
    BY <2>2, <1>1
  <2>4. \A a \in 1 .. Len(s) : s[a] \in Range(s)
    BY <1>1, RangeOf
  <2>5. Range(t) = Range(s) \cup {u}
    <3>1. Range(t) = {t[a] : a \in 1 .. Len(t)} /\ Range(s) = {s[a] : a \in 1 .. Len(s)}
      BY <2>2, <1>1, RangeOf
    <3>2. 1 .. Len(t) = (1 .. Len(s)) \cup {Len(s) + 1}
      BY <2>2, <1>1
    <3> QED
      BY <3>1, <3>2, <2>2
  <2>6. Range(t) = {parents[v][i] : i \in 1 .. k + 1} \ (attach_to \cup visited)
    BY <2>5, <1>2, <1>4, ZenonT(30) DEF Pushed
  <2>7. ASSUME NEW a \in 1 .. Len(t), NEW b \in 1 .. Len(t), t[a] = t[b]
        PROVE  a = b
    <3>1. CASE a \in 1 .. Len(s) /\ b \in 1 .. Len(s)
      BY <3>1, <2>2, <2>7 DEF Pushed
    <3>2. CASE a = Len(s) + 1 /\ b \in 1 .. Len(s)
      BY <3>2, <2>2, <2>4, <2>7, <1>4
    <3>3. CASE a \in 1 .. Len(s) /\ b = Len(s) + 1
      BY <3>3, <2>2, <2>4, <2>7, <1>4
    <3> QED
      BY <3>1, <3>2, <3>3, <2>3
  <2>8. ASSUME NEW a \in 1 .. Len(t), NEW b \in 1 .. Len(t), a < b
        PROVE  \E i, j \in 1 .. k + 1 : i < j /\ t[a] = parents[v][i] /\ t[b] = parents[v][j]
    <3>1. a \in 1 .. Len(s)
      BY <2>2, <2>8, <1>1
    <3>2. CASE b \in 1 .. Len(s)
      <4>1. PICK i \in 1 .. k, j \in 1 .. k : i < j /\ s[a] = parents[v][i] /\ s[b] = parents[v][j]
        BY <3>1, <3>2, <2>8, Zenon DEF Pushed
      <4>2. i \in 1 .. k + 1 /\ j \in 1 .. k + 1
        OBVIOUS
      <4> QED
        BY <4>1, <4>2, <3>1, <3>2, <2>2
    <3>3. CASE b = Len(s) + 1
      <4>1. s[a] \in {parents[v][i] : i \in 1 .. k}
        BY <3>1, <2>4 DEF Pushed
      <4>2. PICK i \in 1 .. k : s[a] = parents[v][i]
        BY <4>1
      <4>3. i \in 1 .. k + 1 /\ k + 1 \in 1 .. k + 1 /\ i < k + 1
        OBVIOUS
      <4> QED
        BY <4>2, <4>3, <3>1, <3>3, <2>2 DEF u
    <3> QED
      BY <3>2, <3>3, <2>3
  <2> QED
    BY <2>2, <2>6, <2>7, <2>8 DEF Pushed, t, u
<1> QED
  BY <1>3, <1>4

\* What Push(v) is.
LEMMA PushIs ==
  ASSUME parents \in Histories, NEW v \in Node
  PROVE  Pushed(Push(v), v, Len(parents[v]))
<1> DEFINE l == Len(parents[v])
<1>1. l \in Nat /\ DOMAIN parents[v] = 1 .. l
  BY ParentsType
<1>2. PICK f : IsPushed(f, v, l) /\ Push(v) = f[l]
  <2> DEFINE f == CHOOSE f : IsPushed(f, v, l)
  <2>1. IsPushed(f, v, l)
    BY <1>1, PushedExists, Zenon
  <2>2. Push(v) = f[l]
    BY DEF Push, IsPushed, Extend
  <2> QED
    BY <2>1, <2>2, Zenon
<1> DEFINE T == {k \in 0 .. l : ~Pushed(f[k], v, k)}
<1>3. T = {}
  <2>1. SUFFICES ASSUME T # {} PROVE FALSE
    OBVIOUS
  <2>2. PICK k \in T : \A y \in T : k <= y
    <3>1. T \in SUBSET Nat
      BY <1>1
    <3> HIDE DEF T
    <3> QED
      BY <3>1, <2>1, LeastNumber
  <2>3. k # 0
    <3>1. f[0] = <<>>
      BY <1>1, <1>2 DEF IsPushed
    <3>2. <<>> \in Seq(Node) /\ Range(<<>>) = {} /\ Len(<<>>) = 0 /\ 1 .. 0 = {}
      BY DEF Range
    <3>3. Pushed(<<>>, v, 0)
      BY <3>2 DEF Pushed
    <3> QED
      BY <3>1, <3>3, <2>2
  <2>4. k - 1 \in Nat /\ k - 1 \in 0 .. l /\ ~(k <= k - 1) /\ k - 1 + 1 = k /\ k \in DOMAIN parents[v]
    BY <1>1, <2>2, <2>3
  <2>5. Pushed(f[k - 1], v, k - 1)
    BY <2>2, <2>4
  <2>6. f[k] = Extend(f[k - 1], parents[v][k])
    BY <1>2, <2>2, <2>3, Zenon DEF IsPushed
  <2>7. Pushed(f[k], v, k)
    BY <2>4, <2>5, <2>6, PushedExtends
  <2> QED
    BY <2>2, <2>7
<1> QED
  BY <1>1, <1>2, <1>3

-----------------------------------------------------------------------------
(* post_order_for_each *)

\* What attach computes from depends on the input and the detached data only.
LEMMA AttachFrame ==
  ASSUME UNCHANGED <<input, all_data>>
  PROVE  /\ \A e, u : Below(e, u)' = Below(e, u)
         /\ AttachesTo' = AttachesTo
         /\ Tangled(all_data \ attach_to, attach_to)' = Tangled(all_data \ attach_to, attach_to)
<1>1. /\ parents' = parents /\ attach_to' = attach_to /\ all_data' = all_data
      /\ \A n : ParentsOf(n)' = ParentsOf(n)
      /\ \A n, S : Upto(n, S)' = Upto(n, S)
  BY DetachedFrame
<1>2. \A n : Upto(n, attach_to)' = Upto(n, attach_to)
  BY <1>1 DEF Upto, UptoAll, ParentsOf
<1>3. \A e, u : Below(e, u)' = Below(e, u)
  BY <1>1 DEF Below, Upto, UptoAll, ParentsOf
<1>4. AttachesTo' = AttachesTo
  BY <1>1 DEF AttachesTo, RequiredHashes
<1>5. Tangled(all_data \ attach_to, attach_to)' = Tangled(all_data \ attach_to, attach_to)
  BY <1>1 DEF Tangled, Upto, UptoAll, ParentsOf
<1> QED
  BY <1>3, <1>4, <1>5

\* The result of ancestors_upto stays once it is complete.
LEMMA SearchFrame ==
  ASSUME SearchInv, UNCHANGED <<input, stack, all_data>>, stack = <<>>
  PROVE  SearchInv'
<1>1. /\ current' = current /\ detach_from' = detach_from /\ stack' = stack /\ all_data' = all_data
      /\ \A n : ParentsOf(n)' = ParentsOf(n)
      /\ Upto(current, detach_from)' = Upto(current, detach_from)
  BY DetachedFrame
<1> QED
  BY <1>1 DEF SearchInv

\* What is reached from what lies above e is reached through its parents too.
LEMMA BelowParent ==
  ASSUME DetachedTypeOK, NEW e \in Event, NEW v, Below(e, v), NEW u \in ParentsOf(v), u \notin attach_to
  PROVE  Below(e, u)
<1>1. parents \in Histories /\ attach_to \subseteq Node /\ all_data \subseteq Node
  BY DEF DetachedTypeOK
<1>2. CASE e.kind = "exit"
  <2>1. e.node \in Node /\ v \in Upto(e.node, attach_to)
    BY <1>2 DEF Event, Below
  <2>2. u \in Upto(e.node, attach_to)
    BY <2>1, <1>1, UptoParents
  <2> QED
    BY <2>2, <1>2 DEF Below
<1>3. CASE e.kind # "exit"
  <2>1. PICK w \in all_data \ attach_to : \E i, j \in DOMAIN parents[w] :
          i < j /\ parents[w][i] = e.node /\ v \in Upto(parents[w][j], attach_to)
    BY <1>3 DEF Below
  <2>2. PICK i \in DOMAIN parents[w], j \in DOMAIN parents[w] :
          i < j /\ parents[w][i] = e.node /\ v \in Upto(parents[w][j], attach_to)
    BY <2>1
  <2>3. parents[w][j] \in Node
    BY <2>1, <2>2, <1>1, ParentsType
  <2>4. u \in Upto(parents[w][j], attach_to)
    BY <2>2, <2>3, <1>1, UptoParents
  <2> QED
    BY <2>1, <2>2, <2>4, <1>3 DEF Below
<1> QED
  BY <1>2, <1>3

\* The next event
LEMMA TopEvent ==
  ASSUME DetachedInv, pc = "attach", events # <<>>
  PROVE  /\ Len(events) \in Nat \ {0} /\ DOMAIN events = 1 .. Len(events)
         /\ Top(events) = events[Len(events)] /\ Top(events) \in Event
         /\ \A i \in DOMAIN events : events[i] \in Event /\ events[i].node \in Open
         /\ Top(events).node \in Node
         /\ Top(events).node \notin attach_to
         /\ Top(events).node <= current
         /\ Top(events).node \in Upto(current, attach_to)
         /\ Top(events).node \in Open
         /\ Top(events).node \notin all_new
<1>1. events \in Seq(Event) /\ parents \in Histories /\ current \in Node
  BY DEF DetachedInv, DetachedTypeOK
<1>2. /\ Len(events) \in Nat \ {0} /\ DOMAIN events = 1 .. Len(events)
      /\ Top(events) = events[Len(events)] /\ Top(events) \in Event
  BY <1>1, PopStack DEF Top
<1>3. Top(events).node \in Open
  BY <1>2 DEF Open
<1>4. Open \subseteq Upto(current, attach_to) /\ Open \cap all_new = {}
  BY DEF DetachedInv, AttachInv, OpenInv
<1>5. \A i \in DOMAIN events : events[i] \in Event /\ events[i].node \in Open
  BY <1>1 DEF Open
<1> QED
  BY <1>1, <1>2, <1>3, <1>4, <1>5, UptoType

\* The exit of v and the entries of s take the place of the last event of es.
Entered(es, new, v, s) ==
  /\ new \in Seq(Event) /\ Len(new) = Len(es) + Len(s)
  /\ \A i \in 1 .. Len(es) - 1 : new[i] = es[i]
  /\ new[Len(es)] = DfsExit(v)
  /\ \A k \in 1 .. Len(s) : new[Len(es) + k] = DfsEnter(s[k])

\* The new stack, part by part: the old events, the exit of v, the entries of s.
LEMMA EventsEntered ==
  ASSUME NEW es \in Seq(Event), es # <<>>, NEW v \in Node, NEW s \in Seq(Node), NEW new,
         new = Pop(es) \o <<DfsExit(v)>> \o [k \in DOMAIN s |-> DfsEnter(s[k])]
  PROVE  Entered(es, new, v, s)
<1> DEFINE x == <<DfsExit(v)>>
           y == [k \in DOMAIN s |-> DfsEnter(s[k])]
           b == Pop(es)
<1>1. Len(es) \in Nat \ {0} /\ b \in Seq(Event) /\ Len(b) = Len(es) - 1
      /\ \A i \in 1 .. Len(es) - 1 : b[i] = es[i]
  BY PopStack, Zenon
<1>2. DfsExit(v) \in Event
  BY DEF Event, DfsExit
<1>3. x \in Seq(Event) /\ Len(x) = 1 /\ x[1] = DfsExit(v)
  BY <1>2
<1>4. y \in Seq(Event) /\ Len(y) = Len(s) /\ \A k \in 1 .. Len(s) : y[k] = DfsEnter(s[k])
  <2>1. Len(s) \in Nat /\ DOMAIN s = 1 .. Len(s) /\ \A k \in 1 .. Len(s) : s[k] \in Node
    OBVIOUS
  <2>2. \A k \in 1 .. Len(s) : DfsEnter(s[k]) \in Event
    BY <2>1 DEF Event, DfsEnter
  <2>3. y \in [1 .. Len(s) -> Event]
    BY <2>1, <2>2
  <2> QED
    BY <2>1, <2>3, FcnIsSeq
<1>5. new = b \o x \o y
  OBVIOUS
<1> HIDE DEF x, y, b
<1>6. /\ b \o x \in Seq(Event) /\ Len(b \o x) = Len(b) + Len(x)
      /\ \A i \in 1 .. Len(b) + Len(x) : (b \o x)[i] = IF i <= Len(b) THEN b[i] ELSE x[i - Len(b)]
  <2>1. b \in Seq(Event) /\ x \in Seq(Event)
    BY <1>1, <1>3
  <2> QED
    BY <2>1, Concatenated
<1> DEFINE c == b \o x
<1> HIDE DEF c
<1>7. /\ c \in Seq(Event) /\ Len(c) = Len(es)
      /\ \A i \in 1 .. Len(es) - 1 : c[i] = es[i]
      /\ c[Len(es)] = DfsExit(v)
  BY <1>1, <1>3, <1>6 DEF c
<1>8. /\ c \o y \in Seq(Event) /\ Len(c \o y) = Len(c) + Len(y)
      /\ \A i \in 1 .. Len(c) + Len(y) : (c \o y)[i] = IF i <= Len(c) THEN c[i] ELSE y[i - Len(c)]
  <2>1. c \in Seq(Event) /\ y \in Seq(Event)
    BY <1>4, <1>7
  <2> QED
    BY <2>1, Concatenated
<1>9. new = c \o y
  BY <1>5, Zenon DEF c
<1>10. Len(s) \in Nat
  OBVIOUS
<1>11. \A k \in 1 .. Len(s) : (c \o y)[Len(es) + k] = DfsEnter(s[k])
  <2> SUFFICES ASSUME NEW k \in 1 .. Len(s) PROVE (c \o y)[Len(es) + k] = DfsEnter(s[k])
    BY Zenon
  <2>1. /\ Len(es) + k \in 1 .. Len(c) + Len(y) /\ ~(Len(es) + k <= Len(c))
        /\ Len(es) + k - Len(c) = k
    BY <1>1, <1>4, <1>7, <1>10
  <2> QED
    BY <2>1, <1>4, <1>8
<1>12. \A i \in 1 .. Len(es) : (c \o y)[i] = c[i]
  BY <1>1, <1>4, <1>7, <1>8, <1>10
<1>13. Len(c \o y) = Len(es) + Len(s)
  BY <1>4, <1>7, <1>8
<1>14. (\A i \in 1 .. Len(es) - 1 : (c \o y)[i] = es[i]) /\ (c \o y)[Len(es)] = DfsExit(v)
  BY <1>1, <1>7, <1>12
<1> QED
  BY <1>8, <1>9, <1>11, <1>13, <1>14, Zenon DEF Entered

\* The fields of the two kinds of events.
LEMMA EventFields ==
  \A v : /\ DfsEnter(v).kind = "enter" /\ DfsEnter(v).node = v
         /\ DfsExit(v).kind = "exit" /\ DfsExit(v).node = v
BY DEF DfsEnter, DfsExit

NodesEntered(es, new, s, L, M) ==
  /\ DOMAIN new = 1 .. L + M
  /\ \A i \in 1 .. L + M : i \in 1 .. L - 1 \/ i = L \/ \E k \in 1 .. M : i = L + k
  /\ \A i \in 1 .. L : new[i].node = es[i].node
  /\ \A k \in 1 .. M : new[L + k].node = s[k]
  /\ {new[i].node : i \in DOMAIN new} = {es[i].node : i \in DOMAIN es} \cup Range(s)

\* The objects of the events
LEMMA EnteredNodes ==
  ASSUME NEW es \in Seq(Event), NEW new, NEW v, NEW s \in Seq(Node), Entered(es, new, v, s),
         NEW L, NEW M, L = Len(es), M = Len(s), L # 0, es[L].node = v
  PROVE  NodesEntered(es, new, s, L, M)
<1>1. L \in Nat /\ M \in Nat /\ DOMAIN es = 1 .. L
  OBVIOUS
<1>2. DOMAIN new = 1 .. L + M
  BY DEF Entered
<1>3. ASSUME NEW i \in 1 .. L + M PROVE i \in 1 .. L - 1 \/ i = L \/ \E k \in 1 .. M : i = L + k
  <2>1. CASE i > L
    <3>1. i - L \in 1 .. M /\ i = L + (i - L)
      BY <1>1, <2>1
    <3> QED
      BY <3>1, Zenon
  <2>2. CASE ~(i > L)
    BY <1>1, <2>2
  <2> QED
    BY <2>1, <2>2
<1>4. ASSUME NEW i \in 1 .. L PROVE new[i].node = es[i].node
  <2>1. CASE i = L
    BY <2>1, EventFields DEF Entered
  <2>2. CASE i # L
    <3>1. i \in 1 .. Len(es) - 1
      BY <1>1, <2>2
    <3> QED
      BY <3>1 DEF Entered
  <2> QED
    BY <2>1, <2>2
<1>5. ASSUME NEW k \in 1 .. M PROVE new[L + k].node = s[k]
  BY EventFields DEF Entered
<1>6. Range(s) = {s[k] : k \in 1 .. M}
  BY RangeOf
<1>7. (\A i \in 1 .. L : i \in 1 .. L + M) /\ \A k \in 1 .. M : L + k \in 1 .. L + M
  BY <1>1
<1>8. ASSUME NEW i \in 1 .. L + M
      PROVE  new[i].node \in {es[h].node : h \in 1 .. L} \cup {s[k] : k \in 1 .. M}
  <2>1. CASE i \in 1 .. L
    BY <2>1, <1>4
  <2>2. CASE \E k \in 1 .. M : i = L + k
    BY <2>2, <1>5
  <2>3. i \in 1 .. L \/ \E k \in 1 .. M : i = L + k
    BY <1>1, <1>3
  <2> QED
    BY <2>1, <2>2, <2>3
<1>9. ASSUME NEW x \in {es[h].node : h \in 1 .. L} \cup {s[k] : k \in 1 .. M}
      PROVE  x \in {new[i].node : i \in 1 .. L + M}
  <2>1. CASE x \in {es[h].node : h \in 1 .. L}
    <3>1. PICK h \in 1 .. L : x = es[h].node
      BY <2>1
    <3>2. h \in 1 .. L + M /\ x = new[h].node
      BY <3>1, <1>4, <1>7
    <3> QED
      BY <3>2
  <2>2. CASE x \in {s[k] : k \in 1 .. M}
    <3>1. PICK k \in 1 .. M : x = s[k]
      BY <2>2
    <3>2. L + k \in 1 .. L + M /\ x = new[L + k].node
      BY <3>1, <1>5, <1>7
    <3> QED
      BY <3>2
  <2> QED
    BY <2>1, <2>2
<1>10. {new[i].node : i \in 1 .. L + M} = {es[h].node : h \in 1 .. L} \cup {s[k] : k \in 1 .. M}
  <2>1. {new[i].node : i \in 1 .. L + M} \subseteq {es[h].node : h \in 1 .. L} \cup {s[k] : k \in 1 .. M}
    BY <1>8, ZenonT(30)
  <2>2. {es[h].node : h \in 1 .. L} \cup {s[k] : k \in 1 .. M} \subseteq {new[i].node : i \in 1 .. L + M}
    BY <1>9, Zenon
  <2> QED
    BY <2>1, <2>2, Zenon
<1>11. {new[i].node : i \in DOMAIN new} = {es[i].node : i \in DOMAIN es} \cup Range(s)
  BY <1>1, <1>2, <1>6, <1>10, Zenon
<1> QED
  BY <1>2, <1>3, <1>4, <1>5, <1>11 DEF NodesEntered

\* Entering v keeps the invariant: only unvisited parents are pushed, above v.
LEMMA EnterKeeps ==
  ASSUME DetachedInv, pc = "attach", events # <<>>, UNCHANGED <<input, stack, all_data, pc, all_new>>,
         NEW v, v = Top(events).node, v \in all_data,
         NEW s \in Seq(Node), Pushed(s, v, Len(parents[v])), Entered(events, events', v, s),
         visited' = visited \cup Range(s)
  PROVE  DetachedInv'
<1>1. DetachedTypeOK /\ SearchInv /\ AttachInv /\ OpenInv /\ parents \in Histories /\ current \in Node
      /\ events \in Seq(Event) /\ current \notin attach_to
  BY DEF DetachedInv, DetachedTypeOK, AttachInv
<1>2. PICK L, M : L = Len(events) /\ M = Len(s)
  BY Zenon
<1>3. /\ v \in Node /\ v \notin attach_to /\ v <= current /\ v \in Upto(current, attach_to)
      /\ v \in Open /\ v \notin all_new
      /\ L \in Nat \ {0} /\ DOMAIN events = 1 .. L /\ events[L].node = v
      /\ \A i \in 1 .. L : events[i] \in Event /\ events[i].node \in Open
  BY <1>2, TopEvent
<1>4. /\ parents' = parents /\ current' = current /\ attach_to' = attach_to
      /\ all_data' = all_data /\ all_new' = all_new /\ pc' = "attach" /\ stack' = stack
      /\ detach_from' = detach_from
      /\ \A n : ParentsOf(n)' = ParentsOf(n)
      /\ Upto(current, attach_to)' = Upto(current, attach_to)
  BY DetachedFrame
<1>5. /\ M \in Nat /\ \A k \in 1 .. M : s[k] \in Range(s)
      /\ Range(s) = ParentsOf(v) \ (attach_to \cup visited)
      /\ \A a, b \in 1 .. M : s[a] = s[b] => a = b
      /\ \A a, b \in 1 .. M : a < b =>
           \E i, j \in DOMAIN parents[v] : i < j /\ s[a] = parents[v][i] /\ s[b] = parents[v][j]
  <2>1. DOMAIN parents[v] = 1 .. Len(parents[v])
        /\ ParentsOf(v) = {parents[v][i] : i \in 1 .. Len(parents[v])}
    BY <1>1, <1>3, ParentsType, Zenon DEF ParentsOf, Range
  <2>2. M \in Nat /\ \A k \in 1 .. M : s[k] \in Range(s)
    BY <1>2, RangeOf
  <2>3. Range(s) = ParentsOf(v) \ (attach_to \cup visited)
    BY <2>1 DEF Pushed
  <2>4. \A a, b \in 1 .. M : s[a] = s[b] => a = b
    BY <1>2, ZenonT(30) DEF Pushed
  <2>5. \A a, b \in 1 .. M : a < b =>
           \E i, j \in DOMAIN parents[v] : i < j /\ s[a] = parents[v][i] /\ s[b] = parents[v][j]
    <3> SUFFICES ASSUME NEW a \in 1 .. M, NEW b \in 1 .. M, a < b
                 PROVE  \E i, j \in DOMAIN parents[v] : i < j /\ s[a] = parents[v][i] /\ s[b] = parents[v][j]
      OBVIOUS
    <3>1. \E i, j \in 1 .. Len(parents[v]) : i < j /\ s[a] = parents[v][i] /\ s[b] = parents[v][j]
      BY <1>2 DEF Pushed
    <3> QED
      BY <2>1, <3>1, Zenon
  <2> QED
    BY <2>2, <2>3, <2>4, <2>5
<1>6. /\ events' \in Seq(Event)
      /\ \A i \in 1 .. L - 1 : events'[i] = events[i]
      /\ events'[L] = DfsExit(v)
      /\ \A k \in 1 .. M : events'[L + k] = DfsEnter(s[k])
  BY <1>2, Zenon DEF Entered
<1>7. /\ DOMAIN events' = 1 .. L + M
      /\ \A i \in 1 .. L + M : i \in 1 .. L - 1 \/ i = L \/ \E k \in 1 .. M : i = L + k
      /\ \A i \in 1 .. L : events'[i].node = events[i].node
      /\ \A k \in 1 .. M : events'[L + k].node = s[k]
      /\ {events'[i].node : i \in DOMAIN events'} = {events[i].node : i \in DOMAIN events} \cup Range(s)
  <2> DEFINE new == events'
  <2>1. Entered(events, new, v, s)
    OBVIOUS
  <2> HIDE DEF new
  <2>2. L # 0
    BY <1>3
  <2>3. NodesEntered(events, new, s, L, M)
    BY <2>1, <2>2, <1>2, <1>1, <1>3, EnteredNodes
  <2> QED
    BY <2>3, Zenon DEF new, NodesEntered
<1>8. 1 .. L = (1 .. L - 1) \cup {L}
  BY <1>3
<1>9. \A u \in Range(s) : u \in Node /\ u \in ParentsOf(v) /\ u \notin attach_to /\ u \notin visited
                         /\ u \notin Open /\ u \notin all_new /\ u \in Upto(current, attach_to)
  <2> SUFFICES ASSUME NEW u \in Range(s)
               PROVE  u \in Node /\ u \in ParentsOf(v) /\ u \notin attach_to /\ u \notin visited
                      /\ u \notin Open /\ u \notin all_new /\ u \in Upto(current, attach_to)
    OBVIOUS
  <2>1. u \in ParentsOf(v) /\ u \notin attach_to /\ u \notin visited
    BY <1>5
  <2>2. u \in Node /\ u < v
    BY <2>1, <1>1, <1>3, ParentsType
  <2>3. u # current
    BY <2>2, <1>1, <1>3, BoundsAssumption DEF Node
  <2>4. visited \cup {current} = Open \cup all_new
    BY <1>1 DEF OpenInv
  <2>5. u \in Upto(current, attach_to)
    BY <2>1, <1>1, <1>3, UptoParents, ZenonT(30)
  <2> QED
    BY <2>1, <2>2, <2>3, <2>4, <2>5
<1>10. Open' = Open \cup Range(s)
  BY <1>7, Zenon DEF Open
<1>11. ASSUME NEW i \in 1 .. L + M, NEW j \in 1 .. L + M, events'[i].node = events'[j].node
       PROVE  i = j
  <2>1. CASE i \in 1 .. L /\ j \in 1 .. L
    <3>1. events[i].node = events[j].node
      BY <2>1, <1>7, <1>11, Zenon
    <3> QED
      BY <2>1, <3>1, <1>1, <1>3, ZenonT(30) DEF OpenInv
  <2>2. \A h \in 1 .. L : events'[h].node \notin Range(s)
    BY <1>3, <1>9, <1>7, Zenon
  <2>3. \A h \in 1 .. L + M : h \in 1 .. L \/ \E k \in 1 .. M : h = L + k /\ events'[h].node = s[k]
    BY <1>7, <1>8, ZenonT(30)
  <2>4. CASE i \notin 1 .. L
    <3>1. PICK k \in 1 .. M : i = L + k /\ events'[i].node = s[k]
      BY <2>3, <2>4, Zenon
    <3>2. s[k] \in Range(s) /\ events'[j].node = s[k]
      BY <3>1, <1>5, <1>11, Zenon
    <3>3. j \notin 1 .. L
      BY <2>2, <3>2, Zenon
    <3>4. PICK h \in 1 .. M : j = L + h /\ events'[j].node = s[h]
      BY <2>3, <3>3, ZenonT(30)
    <3>5. k = h
      BY <3>2, <3>4, <1>5
    <3> QED
      BY <3>1, <3>4, <3>5, Zenon
  <2>5. CASE j \notin 1 .. L
    <3>1. PICK k \in 1 .. M : j = L + k /\ events'[j].node = s[k]
      BY <2>3, <2>5, Zenon
    <3>2. s[k] \in Range(s) /\ events'[i].node = s[k]
      BY <3>1, <1>5, <1>11, Zenon
    <3>3. i \notin 1 .. L
      BY <2>2, <3>2, Zenon
    <3>4. PICK h \in 1 .. M : i = L + h /\ events'[i].node = s[h]
      BY <2>3, <3>3, ZenonT(30)
    <3>5. k = h
      BY <3>2, <3>4, <1>5
    <3> QED
      BY <3>1, <3>4, <3>5, Zenon
  <2> QED
    BY <2>1, <2>4, <2>5
<1>12. ASSUME NEW i \in 1 .. L + M, NEW j \in 1 .. L + M, i < j
       PROVE  Below(events'[i], events'[j].node)
  <2>1. CASE j \in 1 .. L
    <3>1. i \in 1 .. L - 1 /\ i \in 1 .. L
      BY <2>1, <1>3, <1>12
    <3>2. Below(events[i], events[j].node)
      BY <2>1, <3>1, <1>1, <1>3, <1>12, Zenon DEF OpenInv
    <3> QED
      BY <2>1, <3>1, <3>2, <1>6, <1>7, Zenon
  <2>2. CASE \E k \in 1 .. M : j = L + k
    <3>1. PICK k \in 1 .. M : j = L + k
      BY <2>2
    <3>2. events'[j].node = s[k] /\ s[k] \in Range(s) /\ s[k] \in ParentsOf(v)
          /\ s[k] \notin attach_to /\ s[k] \in Node
      BY <3>1, <1>5, <1>9, <1>7, ZenonT(30)
    <3>3. CASE i \in 1 .. L - 1
      <4>1. i \in 1 .. L /\ L \in 1 .. L /\ i < L
        BY <3>3, <1>3
      <4>2. Below(events[i], v) /\ events[i] \in Event
        <5>1. /\ i \in DOMAIN events /\ L \in DOMAIN events /\ events[i] \in Event
              /\ events[L].node = v
          BY <4>1, <1>3, Zenon
        <5>2. Below(events[i], events[L].node)
          BY <4>1, <5>1, <1>1, Zenon DEF OpenInv
        <5> QED
          BY <5>1, <5>2, Zenon
      <4>3. Below(events[i], s[k])
        BY <4>2, <3>2, <1>1, BelowParent, Zenon
      <4> QED
        BY <4>3, <3>2, <3>3, <1>6
    <3>4. CASE i = L
      <4>1. v \in Upto(v, attach_to)
        BY <1>1, <1>3, UptoType, Zenon
      <4>2. s[k] \in Upto(v, attach_to)
        BY <4>1, <3>2, <1>1, <1>3, UptoParents, Zenon
      <4> QED
        BY <4>2, <3>2, <3>4, <1>6, EventFields, Zenon DEF Below
    <3>5. CASE \E h \in 1 .. M : i = L + h
      <4>1. PICK h \in 1 .. M : i = L + h
        BY <3>5
      <4>2. h < k
        BY <4>1, <3>1, <1>3, <1>12
      <4>3. PICK a \in DOMAIN parents[v], b \in DOMAIN parents[v] :
              a < b /\ s[h] = parents[v][a] /\ s[k] = parents[v][b]
        BY <4>2, <1>5, ZenonT(30)
      <4>4. s[k] \in Upto(parents[v][b], attach_to)
        BY <4>3, <3>2, <1>1, UptoType, Zenon
      <4>5. events'[i] = DfsEnter(s[h])
        BY <4>1, <1>6, Zenon
      <4>6. events'[i].kind # "exit" /\ events'[i].node = parents[v][a]
        BY <4>3, <4>5, EventFields, ZenonT(30)
      <4>7. v \in all_data \ attach_to /\ s[k] = events'[j].node
        BY <3>2, <1>3, Zenon
      <4> QED
        BY <4>3, <4>4, <4>6, <4>7, Zenon DEF Below
    <3> QED
      BY <3>3, <3>4, <3>5, <1>7, Zenon
  <2> QED
    BY <2>1, <2>2, <1>7, <1>7, <1>8, Zenon
<1>13. ASSUME NEW i \in 1 .. L + M, events'[i].kind = "exit"
       PROVE  ParentsOf(events'[i].node) \subseteq visited' \cup attach_to
  <2>1. CASE i \in 1 .. L - 1
    <3>1. i \in DOMAIN events /\ events'[i] = events[i]
      BY <2>1, <1>3, <1>6, <1>8, ZenonT(30)
    <3> QED
      BY <3>1, <1>1, <1>13, Zenon DEF OpenInv
  <2>2. CASE i = L
    BY <2>2, <1>5, <1>6, EventFields, ZenonT(30)
  <2>3. CASE \E k \in 1 .. M : i = L + k
    <3>1. PICK k \in 1 .. M : i = L + k
      BY <2>3
    <3>2. events'[i] = DfsEnter(s[k])
      BY <3>1, <1>6, Zenon
    <3> QED
      BY <3>2, <1>13, EventFields, Zenon
  <2> QED
    BY <2>1, <2>2, <2>3, <1>7, ZenonT(30)
<1>14. /\ Open' \subseteq Upto(current, attach_to)
       /\ Open' \cap all_new = {}
       /\ visited' \cup {current} = Open' \cup all_new
  BY <1>1, <1>9, <1>10, Zenon DEF OpenInv
<1>15. \A u \in visited' : \E w \in all_data \ attach_to : u \in ParentsOf(w)
  BY <1>1, <1>3, <1>9, ZenonT(30) DEF OpenInv
<1>16. OpenInv'
  <2>1. \A i, j \in DOMAIN events' : events'[i].node = events'[j].node => i = j
    BY <1>7, <1>11, Zenon
  <2>2. \A i, j \in DOMAIN events' : i < j => Below(events[i], events[j].node)'
    <3>1. \A i, j \in DOMAIN events' : i < j => Below(events'[i], events'[j].node)
      BY <1>7, <1>12, Zenon
    <3> SUFFICES ASSUME NEW i \in DOMAIN events', NEW j \in DOMAIN events', i < j
                 PROVE  Below(events[i], events[j].node)'
      OBVIOUS
    <3>2. PICK e, u : e = events'[i] /\ u = events'[j].node
      OBVIOUS
    <3>3. Below(e, u)'
      BY <3>1, <3>2, AttachFrame, Zenon
    <3> QED
      BY <3>2, <3>3, ZenonT(30) DEF Below, Upto
  <2>3. \A i \in DOMAIN events' :
          events'[i].kind = "exit" => ParentsOf(events[i].node)' \subseteq visited' \cup attach_to'
    <3>1. \A i \in DOMAIN events' : ParentsOf(events[i].node)' = ParentsOf(events'[i].node)
      BY <1>4, Zenon DEF ParentsOf
    <3> QED
      BY <3>1, <1>4, <1>7, <1>13, Zenon
  <2>4. \A n \in all_new' : ParentsOf(n)' \subseteq all_new' \cup attach_to'
    BY <1>1, <1>4, Zenon DEF OpenInv
  <2>5. \A u \in visited' : \E w \in all_data' \ attach_to' : u \in ParentsOf(w)'
    BY <1>4, <1>15, Zenon
  <2>6. Open' \subseteq Upto(current, attach_to)' /\ Open' \cap all_new' = {}
        /\ visited' \cup {current'} = Open' \cup all_new'
    BY <1>4, <1>14, Zenon
  <2> QED
    BY <2>1, <2>2, <2>3, <2>4, <2>5, <2>6, Zenon DEF OpenInv
<1>17. AttachInv'
  BY <1>1, <1>4, <1>16 DEF AttachInv, AttachedUpto, AttachPanics
<1>18. DetachedTypeOK'
  BY <1>1, <1>4, <1>6, <1>9, Zenon DEF DetachedTypeOK, Histories
<1>19. SearchInv'
  BY <1>1, SearchFrame, Zenon DEF SearchInv
<1> QED
  BY <1>17, <1>18, <1>19 DEF DetachedInv

\* DfsEnter(v), with the data of v
LEMMA EnterStep ==
  ASSUME DetachedInv, pc = "attach", events # <<>>, UNCHANGED <<input, stack, all_data, pc, all_new>>,
         NEW v, v = Top(events).node, v \in all_data,
         events' = Pop(events) \o <<DfsExit(v)>> \o [k \in DOMAIN Push(v) |-> DfsEnter(Push(v)[k])],
         visited' = visited \cup Range(Push(v))
  PROVE  DetachedInv'
<1>1. parents \in Histories /\ events \in Seq(Event) /\ v \in Node
  BY TopEvent, Zenon DEF DetachedInv, DetachedTypeOK
<1>2. PICK s : s = Push(v)
  OBVIOUS
<1>3. Pushed(s, v, Len(parents[v])) /\ s \in Seq(Node)
  <2>1. Pushed(s, v, Len(parents[v]))
    BY <1>1, <1>2, PushIs, ZenonT(30)
  <2> QED
    BY <2>1, Zenon DEF Pushed
<1>4. Entered(events, events', v, s)
  <2> DEFINE new == events'
  <2>1. new = Pop(events) \o <<DfsExit(v)>> \o [k \in DOMAIN s |-> DfsEnter(s[k])]
    BY <1>2
  <2> HIDE DEF new
  <2>2. Entered(events, new, v, s)
    BY <2>1, <1>1, <1>3, EventsEntered, ZenonT(30)
  <2> QED
    BY <2>2 DEF new
<1>5. visited' = visited \cup Range(s)
  BY <1>2
<1> QED
  BY <1>3, <1>4, <1>5, EnterKeeps, ZenonT(30)

\* DfsExit(v), with the parents of v: the object is created.
LEMMA ExitStep ==
  ASSUME DetachedInv, pc = "attach", events # <<>>, UNCHANGED <<input, stack, all_data, pc, visited>>,
         NEW v, v = Top(events).node, ParentsOf(v) \subseteq all_new \cup attach_to,
         events' = Pop(events), all_new' = all_new \cup {v}
  PROVE  DetachedInv'
<1>1. DetachedTypeOK /\ SearchInv /\ AttachInv /\ OpenInv /\ parents \in Histories /\ current \in Node
      /\ events \in Seq(Event) /\ current \notin attach_to
  BY DEF DetachedInv, DetachedTypeOK, AttachInv
<1>2. PICK L : L = Len(events)
  OBVIOUS
<1>3. /\ v \in Node /\ v \in Upto(current, attach_to) /\ v \in Open
      /\ L \in Nat \ {0} /\ DOMAIN events = 1 .. L /\ events[L].node = v
  BY <1>2, TopEvent
<1>4. /\ parents' = parents /\ current' = current /\ attach_to' = attach_to
      /\ all_data' = all_data /\ pc' = "attach" /\ stack' = stack
      /\ detach_from' = detach_from /\ visited' = visited
      /\ \A n : ParentsOf(n)' = ParentsOf(n)
      /\ Upto(current, attach_to)' = Upto(current, attach_to)
  BY DetachedFrame
<1>5. events' \in Seq(Event) /\ DOMAIN events' = 1 .. L - 1 /\ \A i \in 1 .. L - 1 : events'[i] = events[i]
  <2>1. events' \in Seq(Event) /\ Len(events') = L - 1 /\ \A i \in 1 .. L - 1 : events'[i] = events[i]
    BY <1>1, <1>2, PopStack
  <2> QED
    BY <2>1
<1>6. 1 .. L = (1 .. L - 1) \cup {L} /\ L \notin 1 .. L - 1
  BY <1>3
<1>7. \A i, j \in DOMAIN events : events[i].node = events[j].node => i = j
  BY <1>1 DEF OpenInv
<1>8. Open = Open' \cup {v} /\ v \notin Open'
  <2>1. Open' = {events[i].node : i \in 1 .. L - 1}
    BY <1>5 DEF Open
  <2>2. Open = {events[i].node : i \in (1 .. L - 1) \cup {L}}
    BY <1>3, <1>6 DEF Open
  <2>3. \A i \in 1 .. L - 1 : events[i].node # v
    BY <1>3, <1>6, <1>7, ZenonT(30)
  <2> QED
    BY <2>1, <2>2, <2>3, <1>3, ZenonT(30)
<1>9. OpenInv'
  <2>1. \A i, j \in DOMAIN events' : events'[i].node = events'[j].node => i = j
    BY <1>3, <1>5, <1>6, <1>7
  <2>2. \A i, j \in DOMAIN events' : i < j => Below(events[i], events[j].node)'
    <3> SUFFICES ASSUME NEW i \in DOMAIN events', NEW j \in DOMAIN events', i < j
                 PROVE  Below(events[i], events[j].node)'
      OBVIOUS
    <3>1. PICK e, u : e = events'[i] /\ u = events'[j].node
      OBVIOUS
    <3>2. i \in DOMAIN events /\ j \in DOMAIN events /\ e = events[i] /\ u = events[j].node
      BY <3>1, <1>3, <1>5, <1>6, Zenon
    <3>3. Below(e, u)
      BY <3>2, <1>1 DEF OpenInv
    <3>4. Below(e, u)'
      BY <3>3, AttachFrame
    <3> QED
      BY <3>1, <3>4 DEF Below, Upto
  <2>3. \A i \in DOMAIN events' :
          events'[i].kind = "exit" => ParentsOf(events[i].node)' \subseteq visited' \cup attach_to'
    <3>1. \A i \in DOMAIN events' : i \in DOMAIN events /\ events'[i] = events[i]
      BY <1>3, <1>5, <1>6, Zenon
    <3>2. \A i \in DOMAIN events' : ParentsOf(events[i].node)' = ParentsOf(events[i].node)
      BY <3>1, <1>4, Zenon DEF ParentsOf
    <3> QED
      BY <3>1, <3>2, <1>1, <1>4, ZenonT(30) DEF OpenInv
  <2>4. /\ Open' \subseteq Upto(current, attach_to)' /\ Open' \cap all_new' = {}
        /\ visited' \cup {current'} = Open' \cup all_new'
    <3>1. /\ Open \subseteq Upto(current, attach_to) /\ Open \cap all_new = {}
          /\ visited \cup {current} = Open \cup all_new
      BY <1>1, Zenon DEF OpenInv
    <3> QED
      BY <3>1, <1>4, <1>8
  <2>5. \A u \in visited' : \E w \in all_data' \ attach_to' : u \in ParentsOf(w)'
    BY <1>1, <1>4, Zenon DEF OpenInv
  <2>6. \A n \in all_new' : ParentsOf(n)' \subseteq all_new' \cup attach_to'
    BY <1>1, <1>4 DEF OpenInv
  <2> QED
    BY <2>1, <2>2, <2>3, <2>4, <2>5, <2>6, Zenon DEF OpenInv
<1>10. all_new' \subseteq Upto(current, attach_to)' /\ all_new' \cap attach_to' = {}
  <2>1. all_new' \subseteq Upto(current, attach_to)
    BY <1>1, <1>3, Zenon DEF AttachInv
  <2> QED
    BY <2>1, <1>1, <1>4, UptoType
<1>11. AttachInv'
  BY <1>1, <1>4, <1>9, <1>10 DEF AttachInv, AttachedUpto, AttachPanics
<1>12. DetachedTypeOK'
  BY <1>1, <1>3, <1>4, <1>5, ZenonT(30) DEF DetachedTypeOK, Histories
<1>13. SearchInv'
  BY <1>1, SearchFrame DEF SearchInv
<1> QED
  BY <1>11, <1>12, <1>13, Zenon DEF DetachedInv

\* A panic, and the reason for it
LEMMA PanicKeeps ==
  ASSUME DetachedInv, pc = "attach", UNCHANGED <<input, stack, all_data, events, visited, all_new>>,
         pc' = "panic",
         ~AttachesTo \/ current \in detach_from \/ Tangled(all_data \ attach_to, attach_to)
  PROVE  DetachedInv'
<1>1. DetachedTypeOK /\ SearchInv /\ AttachInv /\ current \notin attach_to
  BY DEF DetachedInv, AttachInv
<1>2. /\ parents' = parents /\ current' = current /\ attach_to' = attach_to
      /\ detach_from' = detach_from /\ all_data' = all_data /\ stack' = stack
      /\ events' = events /\ visited' = visited /\ all_new' = all_new
      /\ Upto(current, attach_to)' = Upto(current, attach_to)
  BY DetachedFrame
<1>3. AttachPanics'
  BY <1>1, <1>2, AttachFrame, Zenon DEF AttachPanics
<1>4. AttachInv'
  BY <1>1, <1>2, <1>3 DEF AttachInv, AttachedUpto
<1>5. DetachedTypeOK'
  BY <1>1, <1>2, ZenonT(30) DEF DetachedTypeOK, Histories
<1>6. SearchInv'
  BY <1>1, SearchFrame DEF SearchInv
<1> QED
  BY <1>4, <1>5, <1>6 DEF DetachedInv

\* DfsEnter(v) without the data of v: v is required, or the object itself was
\* left out.
LEMMA EnterPanics ==
  ASSUME DetachedInv, pc = "attach", events # <<>>, Top(events).node \notin all_data
  PROVE  ~AttachesTo \/ current \in detach_from
<1> DEFINE v == Top(events).node
<1>1. DetachedTypeOK /\ SearchInv /\ OpenInv
  BY DEF DetachedInv, AttachInv
<1>2. v \in Open /\ v \notin attach_to /\ v \notin all_data
  BY TopEvent, Zenon
<1>3. v \in visited \cup {current}
  BY <1>1, <1>2, Zenon DEF OpenInv
<1>4. CASE v = current
  <2>1. all_data = Upto(current, detach_from)
    BY <1>1, SearchEnds DEF SearchInv
  <2> QED
    BY <2>1, <1>1, <1>2, <1>4, UptoType DEF DetachedTypeOK
<1>5. CASE v \in visited
  <2>1. PICK w \in all_data \ attach_to : v \in ParentsOf(w)
    BY <1>1, <1>5 DEF OpenInv
  <2>2. v \in RequiredHashes
    BY <2>1, <1>2, ZenonT(30) DEF RequiredHashes
  <2> QED
    BY <2>2, <1>2 DEF AttachesTo
<1> QED
  BY <1>3, <1>4, <1>5

\* DfsExit(v) without a parent u of v: u was pushed and is still to be entered, so
\* that it is an ancestor of a parent that comes after it.
LEMMA ExitPanics ==
  ASSUME DetachedInv, pc = "attach", events # <<>>, Top(events).kind = "exit",
         ~(ParentsOf(Top(events).node) \subseteq all_new \cup attach_to)
  PROVE  Tangled(all_data \ attach_to, attach_to)
<1>1. PICK v, L : v = Top(events).node /\ L = Len(events)
  OBVIOUS
<1>2. DetachedTypeOK /\ OpenInv /\ parents \in Histories
  BY Zenon DEF DetachedInv, AttachInv, DetachedTypeOK
<1>3. /\ v \in Node /\ L \in DOMAIN events /\ events[L].node = v /\ events[L].kind = "exit"
      /\ \A i \in DOMAIN events : events[i] \in Event
      /\ L \in Nat /\ DOMAIN events = 1 .. L
  BY <1>1, TopEvent
<1>4. PICK u \in ParentsOf(v) : u \notin all_new \cup attach_to
  BY <1>1, Zenon
<1>5. u \in Node /\ u < v /\ u \in Nat /\ v \in Nat
  BY <1>2, <1>3, ParentsType, BoundsAssumption DEF Node
<1>6. u \in visited
  BY <1>2, <1>3, <1>4 DEF OpenInv
<1>7. u \in Open
  BY <1>2, <1>4, <1>6 DEF OpenInv
<1>8. PICK i \in DOMAIN events : events[i].node = u
  BY <1>7 DEF Open
<1>9. i < L
  <2>1. i # L
    BY <1>3, <1>5, <1>8
  <2> QED
    BY <2>1, <1>3
<1>10. Below(events[i], v)
  BY <1>2, <1>3, <1>9 DEF OpenInv
<1>11. events[i].kind # "exit"
  <2>1. SUFFICES ASSUME events[i].kind = "exit" PROVE FALSE
    OBVIOUS
  <2>2. v \in Upto(u, attach_to)
    BY <2>1, <1>8, <1>10 DEF Below
  <2>3. v <= u
    BY <2>2, <1>2, <1>5, UptoType, Zenon
  <2> QED
    BY <2>3, <1>5
<1>12. PICK w \in all_data \ attach_to : \E a, b \in DOMAIN parents[w] :
         a < b /\ parents[w][a] = u /\ v \in Upto(parents[w][b], attach_to)
  BY <1>8, <1>10, <1>11 DEF Below
<1>13. PICK a \in DOMAIN parents[w], b \in DOMAIN parents[w] :
         a < b /\ parents[w][a] = u /\ v \in Upto(parents[w][b], attach_to)
  BY <1>12, Zenon
<1>14. parents[w][b] \in Node
  BY <1>2, <1>12, <1>13, ParentsType, ZenonT(30) DEF DetachedTypeOK
<1>15. u \in Upto(parents[w][b], attach_to) /\ v <= parents[w][b]
  <2>1. v \in Upto(parents[w][b], attach_to)
    BY <1>13, Zenon
  <2>2. v <= parents[w][b]
    BY <2>1, <1>2, <1>14, UptoType, Zenon
  <2>3. u \in Upto(parents[w][b], attach_to)
    <3>1. ParentsOf(v) \subseteq Upto(parents[w][b], attach_to) \cup attach_to
      BY <2>1, <1>2, <1>14, UptoParents, Zenon
    <3> QED
      BY <3>1, <1>4, Zenon
  <2> QED
    BY <2>2, <2>3, Zenon
<1>16. u # parents[w][b]
  BY <1>5, <1>14, <1>15, BoundsAssumption DEF Node
<1> QED
  BY <1>12, <1>13, <1>15, <1>16, Zenon DEF Tangled

-----------------------------------------------------------------------------
(* The invariant is inductive *)

\* The search starts at the current node; nothing is attached yet.
LEMMA DetachedInit == Init => DetachedInv
<1> SUFFICES ASSUME Init PROVE DetachedInv
  OBVIOUS
<1>1. DetachedTypeOK
  BY DEF Init, DetachedTypeOK
<1>2. stack = <<current>> /\ current \in Node /\ parents \in Histories
  BY DEF Init
<1>3. Range(stack) = {current}
  BY <1>2 DEF Range
<1>4. current \in Upto(current, detach_from) \cup detach_from
  BY <1>2, UptoType
<1>5. SearchInv
  BY <1>3, <1>4 DEF Init, SearchInv
<1>6. AttachInv
  BY DEF Init, AttachInv, AttachedUpto, AttachPanics
<1> QED
  BY <1>1, <1>5, <1>6 DEF DetachedInv

\* A step of ancestors_upto keeps the invariant.
LEMMA AncestorStep ==
  ASSUME DetachedInv, NextAncestor
  PROVE  DetachedInv'
<1>1. DetachedTypeOK /\ SearchInv /\ AttachInv
  BY DEF DetachedInv
<1>2. SearchInv' /\ stack' \in Seq(Node) /\ all_data' \in SUBSET Node
  BY <1>1, SearchStep
<1>3. UNCHANGED <<input, pc, events, visited, all_new>> /\ pc = "detach"
  BY DEF NextAncestor
<1>4. /\ parents' = parents /\ current' = current /\ attach_to' = attach_to
      /\ detach_from' = detach_from
      /\ Upto(current, attach_to)' = Upto(current, attach_to)
  BY <1>3, DetachedFrame
<1>5. DetachedTypeOK'
  BY <1>1, <1>2, <1>3, <1>4, ZenonT(30) DEF DetachedTypeOK, Histories
<1>6. AttachInv'
  BY <1>1, <1>3, <1>4 DEF AttachInv, AttachedUpto, AttachPanics
<1> QED
  BY <1>2, <1>5, <1>6 DEF DetachedInv

\* The start of attach keeps the invariant.
LEMMA AttachStep ==
  ASSUME DetachedInv, Attach
  PROVE  DetachedInv'
<1>1. DetachedTypeOK /\ SearchInv /\ AttachInv /\ parents \in Histories /\ current \in Node
  BY DEF DetachedInv, DetachedTypeOK
<1>2. /\ UNCHANGED <<input, stack, all_data, visited, all_new>> /\ pc = "detach" /\ stack = <<>>
      /\ events = <<>> /\ visited = {} /\ all_new = {}
  BY <1>1 DEF Attach, AttachInv
<1>3. /\ parents' = parents /\ current' = current /\ attach_to' = attach_to
      /\ detach_from' = detach_from /\ all_data' = all_data
      /\ Upto(current, attach_to)' = Upto(current, attach_to)
  BY <1>2, DetachedFrame
<1>4. SearchInv'
  BY <1>1, <1>2, SearchFrame
<1>5. CASE current \in attach_to
  <2>1. pc' = "done" /\ events' = <<>>
    BY <1>2, <1>5 DEF Attach
  <2>2. AttachInv'
    BY <1>2, <1>3, <1>5, <2>1, Zenon DEF AttachInv, AttachedUpto, AttachPanics
  <2>3. DetachedTypeOK'
    BY <1>1, <1>2, <1>3, <2>1, Zenon DEF DetachedTypeOK, Histories
  <2> QED
    BY <1>4, <2>2, <2>3 DEF DetachedInv
<1>6. CASE current \notin attach_to
  <2>1. pc' = "attach" /\ events' = <<DfsEnter(current)>>
    BY <1>6 DEF Attach
  <2>2. DfsEnter(current) \in Event
    BY <1>1 DEF DfsEnter, Event
  <2>3. /\ events' \in Seq(Event) /\ DOMAIN events' = {1}
        /\ events'[1].node = current /\ events'[1].kind = "enter"
    <3>1. Len(<<DfsEnter(current)>>) = 1 /\ <<DfsEnter(current)>>[1] = DfsEnter(current)
      OBVIOUS
    <3> QED
      BY <2>1, <2>2, <3>1, EventFields
  <2>4. Open' = {current}
    BY <2>3 DEF Open
  <2>5. current \in Upto(current, attach_to)
    BY <1>1, <1>6, UptoType, Zenon
  <2>6. OpenInv'
    <3>1. \A i, j \in DOMAIN events' : i = j /\ ~(i < j)
      BY <2>3
    <3> QED
      BY <1>2, <1>3, <2>3, <2>4, <2>5, <3>1, Zenon DEF OpenInv
  <2>7. AttachInv'
    BY <1>2, <1>3, <1>6, <2>1, <2>6, ZenonT(30) DEF AttachInv, AttachedUpto, AttachPanics
  <2>8. DetachedTypeOK'
    BY <1>1, <1>2, <1>3, <2>1, <2>3, Zenon DEF DetachedTypeOK, Histories
  <2> QED
    BY <1>4, <2>7, <2>8 DEF DetachedInv
<1> QED
  BY <1>5, <1>6

\* A step of post_order_for_each keeps the invariant, also one that panics.
LEMMA EventStep ==
  ASSUME DetachedInv, NextEvent
  PROVE  DetachedInv'
<1>1. PICK v : v = Top(events).node
  OBVIOUS
<1>2. pc = "attach" /\ events # <<>> /\ UNCHANGED <<input, stack, all_data>>
  BY DEF NextEvent
<1>3. CASE Top(events).kind = "enter" /\ Enter(Top(events).node)
  <2>1. CASE v \in all_data
    BY <1>1, <1>2, <1>3, <2>1, EnterStep, Zenon DEF Enter
  <2>2. CASE v \notin all_data
    <3>1. pc' = "panic" /\ UNCHANGED <<events, visited, all_new>>
      BY <1>1, <1>3, <2>2, Zenon DEF Enter
    <3>2. ~AttachesTo \/ current \in detach_from
      BY <1>1, <1>2, <2>2, EnterPanics
    <3> QED
      BY <1>2, <3>1, <3>2, PanicKeeps
  <2> QED
    BY <2>1, <2>2
<1>4. CASE Top(events).kind = "exit" /\ Exit(Top(events).node)
  <2>1. CASE ParentsOf(v) \subseteq all_new \cup attach_to
    BY <1>1, <1>2, <1>4, <2>1, ExitStep DEF Exit
  <2>2. CASE ~(ParentsOf(v) \subseteq all_new \cup attach_to)
    <3>1. pc' = "panic" /\ UNCHANGED <<events, visited, all_new>>
      BY <1>1, <1>4, <2>2 DEF Exit
    <3>2. Tangled(all_data \ attach_to, attach_to)
      BY <1>1, <1>2, <1>4, <2>2, ExitPanics
    <3> QED
      BY <1>2, <3>1, <3>2, PanicKeeps
  <2> QED
    BY <2>1, <2>2
<1> QED
  BY <1>3, <1>4, Zenon DEF NextEvent

\* attach returns: all that was pushed is created.
LEMMA AttachedStep ==
  ASSUME DetachedInv, Attached
  PROVE  DetachedInv'
<1>1. DetachedTypeOK /\ SearchInv /\ AttachInv /\ OpenInv /\ parents \in Histories /\ current \in Node
      /\ current \notin attach_to
  BY DEF DetachedInv, DetachedTypeOK, AttachInv, Attached
<1>2. pc = "attach" /\ events = <<>> /\ UNCHANGED <<input, stack, all_data, events, visited, all_new>>
  BY DEF Attached
<1>3. /\ parents' = parents /\ current' = current /\ attach_to' = attach_to
      /\ detach_from' = detach_from /\ all_data' = all_data
      /\ Upto(current, attach_to)' = Upto(current, attach_to)
  BY <1>2, DetachedFrame
<1>4. Open = {}
  BY <1>2 DEF Open
<1>5. current \in all_new /\ \A n \in all_new : ParentsOf(n) \subseteq all_new \cup attach_to
  BY <1>1, <1>4 DEF OpenInv
<1>6. all_new = Upto(current, attach_to) /\ all_new \cap attach_to = {}
  <2>1. Upto(current, attach_to) \subseteq all_new
    BY <1>1, <1>5, UptoLeast
  <2>2. all_new \subseteq Upto(current, attach_to)
    BY <1>1 DEF AttachInv
  <2> QED
    BY <2>1, <2>2, <1>1, UptoType
<1>7. pc' = "done"
  BY <1>5 DEF Attached
<1>8. AttachInv'
  BY <1>2, <1>3, <1>6, <1>7 DEF AttachInv, AttachedUpto, AttachPanics
<1>9. DetachedTypeOK'
  BY <1>1, <1>2, <1>3, <1>7, ZenonT(30) DEF DetachedTypeOK, Histories
<1>10. SearchInv'
  BY <1>1, <1>2, SearchFrame, Zenon DEF SearchInv
<1> QED
  BY <1>8, <1>9, <1>10, Zenon DEF DetachedInv

\* The invariant holds throughout.
LEMMA DetachedInvariance == Spec => []DetachedInv
<1>1. DetachedInv /\ UNCHANGED vars => DetachedInv'
  <2> SUFFICES ASSUME DetachedInv, UNCHANGED vars PROVE DetachedInv'
    OBVIOUS
  <2>1. /\ UNCHANGED <<input, stack, all_data>> /\ parents' = parents /\ current' = current
        /\ detach_from' = detach_from /\ attach_to' = attach_to /\ pc' = pc /\ stack' = stack
        /\ all_data' = all_data /\ events' = events /\ visited' = visited /\ all_new' = all_new
    BY DEF vars, input
  <2>2. /\ \A n : ParentsOf(n)' = ParentsOf(n)
        /\ Upto(current, detach_from)' = Upto(current, detach_from)
        /\ Upto(current, attach_to)' = Upto(current, attach_to)
        /\ UptoAll(attach_to)' = UptoAll(attach_to)
    BY <2>1, DetachedFrame DEF UptoAll, ParentsOf
  <2>3. DetachedTypeOK' /\ SearchInv'
    BY <2>1, <2>2, ZenonT(30) DEF DetachedInv, DetachedTypeOK, Histories, SearchInv
  <2>4. OpenInv => OpenInv'
    <3>1. \A n, S : Upto(n, S)' = Upto(n, S)
      BY <2>1, DetachedFrame
    <3>2. \A e, u : Below(e, u)' = Below(e, u)
      BY <2>1, <3>1, ZenonT(30) DEF Below
    <3>3. Open' = Open
      BY <2>1 DEF Open
    <3> QED
      BY <2>1, <2>2, <3>2, <3>3, Zenon DEF OpenInv
  <2>5. AttachedUpto' = AttachedUpto /\ AttachPanics' = AttachPanics
    BY <2>1, <2>2, AttachFrame DEF AttachedUpto, AttachPanics
  <2> QED
    BY <2>1, <2>2, <2>3, <2>4, <2>5 DEF DetachedInv, AttachInv
<1>2. DetachedInv /\ [Next]_vars => DetachedInv'
  BY <1>1, AncestorStep, AttachStep, EventStep, AttachedStep DEF Next
<1> QED
  BY <1>2, DetachedInit, PTL DEF Spec

-----------------------------------------------------------------------------
(* What detach and attach guarantee *)

\* What detach returns is the history of the object up to detach_from, and what it
\* requires is in detach_from (ancestors_upto, required_hashes).
THEOREM DetachTakesHistory == Spec => []DetachedUpto
<1>1. DetachedInv => DetachedUpto
  BY SearchEnds DEF DetachedInv, SearchInv, DetachedUpto
<1> QED
  BY <1>1, DetachedInvariance, PTL

\* attach creates the history of the object up to attach_to, and nothing that is
\* there already (post_order_for_each with visit).
THEOREM AttachCreatesHistory == Spec => []AttachedUpto
<1>1. DetachedInv => AttachedUpto
  BY ZenonT(30) DEF DetachedInv, AttachInv
<1> QED
  BY <1>1, DetachedInvariance, PTL

\* The stack of post_order_for_each has every object once, and no object is created
\* before its parents.
THEOREM AttachPostOrder == Spec => []PostOrder
<1>1. DetachedInv => PostOrder
  BY DEF DetachedInv, AttachInv, OpenInv, PostOrder, Open
<1> QED
  BY <1>1, DetachedInvariance, PTL

\* attach fails only for one of three reasons: an object that is required is not in
\* attach_to, the object itself was left out by detach, or some object has a parent
\* that is an ancestor of a parent after it (the unwraps of RelRc::attach).
THEOREM AttachPanicsExplained == Spec => []AttachPanics
<1>1. DetachedInv => AttachPanics
  BY DEF DetachedInv, AttachInv
<1> QED
  BY <1>1, DetachedInvariance, PTL

=============================================================================
