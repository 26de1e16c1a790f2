--------------------------- MODULE TransferProofs ---------------------------
(***************************************************************************)
(* Proofs about Transfer: the transfers keep apart, each goes through its  *)
(* phases, and what arrives is what was sent, for every history, every     *)
(* program and every way MPI may buffer.                                   *)
(***************************************************************************)
EXTENDS Transfer, HistoriesProofs

-----------------------------------------------------------------------------
(* Messages of an object *)

\* The number of messages of n
Count(n) == 3 + Len(parents[n])

\* What the k-th message of an object is: its tag and its body
TagAt(k) ==
  IF k = 1 THEN "RelRc" ELSE IF k = 2 THEN "NodeWeight" ELSE IF k = 3 THEN "IncomingEdge"
  ELSE "EdgeWeight"
BodyAt(n, k) == IF k <= 2 THEN n ELSE IF k = 3 THEN parents[n] ELSE <<n, k - 3>>

Body == Node \cup Seq(Node) \cup (Node \X Nat)
Msg == [tag : DataTag, body : Body]

Bodies(n) == [k \in 1 .. Count(n) |-> BodyAt(n, k)]

\* There are two processes, each the peer of the other.
LEMMA PeerType == \A p \in Proc : Peer(p) \in Proc /\ Peer(p) # p /\ Peer(Peer(p)) = p
BY DEF Proc, Peer

\* The messages of n, one by one.
LEMMA MessagesShape ==
  ASSUME parents \in Histories, NEW n \in Node
  PROVE  /\ Count(n) \in Nat
         /\ Messages(n) \in Seq(Msg)
         /\ Len(Messages(n)) = Count(n)
         /\ \A k \in 1 .. Count(n) : Messages(n)[k] = [tag |-> TagAt(k), body |-> BodyAt(n, k)]
         /\ Bodies(n) \in Seq(Body)
         /\ Len(Bodies(n)) = Count(n)
<1>1. Len(parents[n]) \in Nat /\ DOMAIN parents[n] = 1 .. Len(parents[n]) /\ parents[n] \in Seq(Node)
  BY ParentsType
<1> DEFINE edges == [i \in DOMAIN parents[n] |-> [tag |-> "EdgeWeight", body |-> <<n, i>>]]
<1> DEFINE first == <<[tag |-> "RelRc", body |-> n],
                      [tag |-> "NodeWeight", body |-> n],
                      [tag |-> "IncomingEdge", body |-> parents[n]]>>
<1>2. edges \in Seq(Msg) /\ Len(edges) = Len(parents[n])
  <2>1. edges \in [1 .. Len(parents[n]) -> Msg]
    BY <1>1 DEF Msg, Body, DataTag
  <2> QED
    BY <1>1, <2>1, FcnIsSeq
<1>3. first \in Seq(Msg) /\ Len(first) = 3
  BY <1>1 DEF Msg, Body, DataTag
<1>4. Messages(n) = first \o edges
  BY DEF Messages
<1>5. Count(n) \in Nat /\ Count(n) = 3 + Len(edges)
  BY <1>1, <1>2 DEF Count
<1>6. \A k \in 1 .. Count(n) : (first \o edges)[k] = [tag |-> TagAt(k), body |-> BodyAt(n, k)]
  <2> SUFFICES ASSUME NEW k \in 1 .. Count(n)
               PROVE  (first \o edges)[k] = [tag |-> TagAt(k), body |-> BodyAt(n, k)]
    BY Zenon
  <2>1. (first \o edges)[k] = IF k <= 3 THEN first[k] ELSE edges[k - 3]
    <3>1. k \in 1 .. Len(first) + Len(edges)
      BY <1>3, <1>5
    <3>2. (first \o edges)[k] = IF k <= Len(first) THEN first[k] ELSE edges[k - Len(first)]
      <4>1. first \in Seq(Msg) /\ edges \in Seq(Msg)
        BY <1>2, <1>3
      <4> HIDE DEF first, edges
      <4> QED
        BY <4>1, <3>1, Concatenated
    <3> QED
      BY <3>2, <1>3, Zenon
  <2>2. CASE k <= 3
    BY <2>1, <2>2, <1>5 DEF TagAt, BodyAt
  <2>3. CASE ~(k <= 3)
    <3>1. k - 3 \in DOMAIN parents[n] /\ k # 1 /\ k # 2 /\ k # 3 /\ ~(k <= 2)
      BY <2>3, <1>1, <1>5, <1>2
    <3>2. (first \o edges)[k] = edges[k - 3]
      BY <2>1, <2>3, Zenon
    <3> QED
      BY <3>1, <3>2, Zenon DEF TagAt, BodyAt
  <2> QED
    BY <2>2, <2>3, Zenon
<1>7. first \o edges \in Seq(Msg) /\ Len(first \o edges) = Count(n)
  <2>1. first \o edges \in Seq(Msg) /\ Len(first \o edges) = Len(first) + Len(edges)
    <3> HIDE DEF first, edges
    <3> QED
      BY <1>2, <1>3, Concatenated, Zenon
  <2> QED
    BY <2>1, <1>3, <1>5
<1>8. Bodies(n) \in Seq(Body) /\ Len(Bodies(n)) = Count(n)
  <2>1. \A k \in 1 .. Count(n) : BodyAt(n, k) \in Body
    BY <1>1, <1>5 DEF Body, BodyAt
  <2> QED
    BY <2>1, <1>5 DEF Bodies
<1> QED
  BY <1>4, <1>5, <1>6, <1>7, <1>8, Zenon

-----------------------------------------------------------------------------
(* An object on its way *)

\* The place of the message with a tag that an object has one message of
Place(t) == IF t = "RelRc" THEN 1 ELSE IF t = "NodeWeight" THEN 2 ELSE 3

\* Of the messages of n, a are sent and b received: out are those to be sent, parts
\* the bodies of those received, and ch has the bodies of the others.
InTransit(n, out, parts, ch, a, b) ==
  /\ a \in 0 .. Count(n)
  /\ b \in 0 .. a
  /\ out = SubSeq(Messages(n), a + 1, Count(n))
  /\ parts = SubSeq(Bodies(n), 1, b)
  /\ \A t \in DataTag \ {"EdgeWeight"} :
       ch[t] = IF b < Place(t) /\ Place(t) <= a THEN <<BodyAt(n, Place(t))>> ELSE <<>>
  /\ ch["EdgeWeight"] = SubSeq(Bodies(n), IF b < 3 THEN 4 ELSE b + 1, a)

\* The object is about to be sent.
LEMMA TransitStarts ==
  ASSUME parents \in Histories, NEW n \in Node, NEW ch, \A t \in DataTag : ch[t] = <<>>
  PROVE  InTransit(n, Messages(n), <<>>, ch, 0, 0)
<1>1. Count(n) \in Nat /\ Count(n) >= 3
  BY MessagesShape, ParentsType DEF Count
<1>2. Messages(n) = SubSeq(Messages(n), 1, Count(n))
  BY MessagesShape, WholeAndEmpty
<1>3. SubSeq(Bodies(n), 1, 0) = <<>> /\ SubSeq(Bodies(n), 4, 0) = <<>>
  BY WholeAndEmpty
<1>4. \A t \in DataTag \ {"EdgeWeight"} : ~(Place(t) <= 0)
  BY DEF Place
<1>5. /\ 0 \in 0 .. Count(n) /\ 0 \in 0 .. 0
      /\ Messages(n) = SubSeq(Messages(n), 0 + 1, Count(n))
      /\ <<>> = SubSeq(Bodies(n), 1, 0)
      /\ ch["EdgeWeight"] = SubSeq(Bodies(n), IF 0 < 3 THEN 4 ELSE 0 + 1, 0)
  <2>1. 0 \in 0 .. Count(n) /\ 0 \in 0 .. 0
    BY <1>1
  <2>2. 0 + 1 = 1 /\ (IF 0 < 3 THEN 4 ELSE 0 + 1) = 4
    OBVIOUS
  <2>3. ch["EdgeWeight"] = <<>>
    BY DEF DataTag
  <2> QED
    BY <2>1, <2>2, <2>3, <1>2, <1>3
<1>6. \A t \in DataTag \ {"EdgeWeight"} :
        ch[t] = IF 0 < Place(t) /\ Place(t) <= 0 THEN <<BodyAt(n, Place(t))>> ELSE <<>>
  BY <1>4
<1> QED
  BY <1>5, <1>6 DEF InTransit

\* The next message is sent.
LEMMA TransitSends ==
  ASSUME parents \in Histories, NEW n \in Node, NEW out, NEW parts, NEW a, NEW b,
         NEW ch \in [Tag -> Seq(Body \cup {0})],
         InTransit(n, out, parts, ch, a, b), out # <<>>
  PROVE  /\ Head(out).tag \in DataTag
         /\ Head(out).body \in Body
         /\ InTransit(n, Tail(out), parts,
                      [ch EXCEPT ![Head(out).tag] = Append(@, Head(out).body)], a + 1, b)
<1>1. /\ Count(n) \in Nat /\ a \in Nat /\ b \in Nat /\ b <= a /\ a <= Count(n)
      /\ out = SubSeq(Messages(n), a + 1, Count(n))
  BY MessagesShape DEF InTransit
<1>2. a < Count(n)
  <2>1. CASE a = Count(n)
    BY <2>1, <1>1, WholeAndEmpty
  <2> QED
    BY <2>1, <1>1
<1>3. a + 1 \in 1 .. Count(n) /\ Count(n) \in a + 1 .. Count(n)
  BY <1>1, <1>2
<1>4. Head(out) = Messages(n)[a + 1] /\ Tail(out) = SubSeq(Messages(n), a + 2, Count(n))
  <2>1. Messages(n) \in Seq(Msg) /\ Len(Messages(n)) = Count(n) /\ a + 1 + 1 = a + 2
    BY MessagesShape, <1>1
  <2> QED
    <3> DEFINE s == Messages(n)
    <3>1. s \in Seq(Msg) /\ a + 1 \in 1 .. Len(s) /\ Count(n) \in a + 1 .. Len(s)
      BY <2>1, <1>3, Zenon
    <3>2. out = SubSeq(s, a + 1, Count(n))
      BY <1>1, Zenon
    <3> HIDE DEF s
    <3>3. Head(out) = s[a + 1] /\ Tail(out) = SubSeq(s, a + 1 + 1, Count(n))
      BY <3>1, <3>2, QueueTake, Zenon
    <3> QED
      BY <2>1, <3>3, Zenon DEF s
<1>5. Head(out).tag = TagAt(a + 1) /\ Head(out).body = BodyAt(n, a + 1)
  <2>1. Messages(n)[a + 1] = [tag |-> TagAt(a + 1), body |-> BodyAt(n, a + 1)]
    BY <1>3, MessagesShape
  <2> QED
    BY <2>1, <1>4
<1>6. TagAt(a + 1) \in DataTag /\ BodyAt(n, a + 1) \in Body
  <2>1. Messages(n)[a + 1] \in Msg
    BY <1>3, MessagesShape
  <2> QED
    BY <2>1, <1>4, <1>5 DEF Msg
<1> DEFINE t == TagAt(a + 1)
           new == [ch EXCEPT ![t] = Append(@, BodyAt(n, a + 1))]
<1>7. new[t] = Append(ch[t], BodyAt(n, a + 1)) /\ \A u \in Tag : u # t => new[u] = ch[u]
  BY <1>6 DEF Tag
<1>8. ASSUME NEW u \in DataTag \ {"EdgeWeight"}
      PROVE  new[u] = IF b < Place(u) /\ Place(u) <= a + 1 THEN <<BodyAt(n, Place(u))>> ELSE <<>>
  <2>1. ch[u] = IF b < Place(u) /\ Place(u) <= a THEN <<BodyAt(n, Place(u))>> ELSE <<>>
    BY <1>8 DEF InTransit
  <2>2. Place(u) \in 1 .. 3 /\ (u = t <=> Place(u) = a + 1)
    BY <1>1, <1>8 DEF Place, TagAt, DataTag
  <2>3. CASE u = t
    <3>1. Place(u) = a + 1 /\ ~(Place(u) <= a) /\ b < Place(u)
      BY <2>2, <2>3, <1>1
    <3>2. ch[u] = <<>>
      BY <2>1, <3>1
    <3>3. new[u] = Append(<<>>, BodyAt(n, Place(u)))
      BY <3>1, <3>2, <2>3, <1>7, Zenon
    <3>4. Append(<<>>, BodyAt(n, Place(u))) = <<BodyAt(n, Place(u))>>
      OBVIOUS
    <3>5. b < Place(u) /\ Place(u) <= a + 1
      BY <3>1, <1>1
    <3> QED
      BY <3>3, <3>4, <3>5
  <2>4. CASE u # t
    <3>1. Place(u) <= a + 1 <=> Place(u) <= a
      BY <2>2, <2>4, <1>1
    <3> QED
      BY <3>1, <2>1, <2>4, <1>7 DEF Tag
  <2> QED
    BY <2>3, <2>4
<1> DEFINE f == IF b < 3 THEN 4 ELSE b + 1
<1>9. new["EdgeWeight"] = SubSeq(Bodies(n), f, a + 1)
  <2>1. ch["EdgeWeight"] = SubSeq(Bodies(n), f, a)
    BY DEF InTransit
  <2>2. f \in Nat /\ f >= 4 /\ f <= Count(n) + 1
    BY <1>1, MessagesShape, ParentsType DEF Count
  <2>3. t = "EdgeWeight" <=> a >= 3
    BY <1>1 DEF TagAt
  <2>4. CASE a >= 3
    <3>1. f \in 1 .. Count(n) + 1 /\ a \in f - 1 .. Count(n) - 1
      BY <2>2, <2>4, <1>1, <1>2
    <3>2. Bodies(n)[a + 1] = BodyAt(n, a + 1)
      BY <1>3 DEF Bodies
    <3>3. Append(SubSeq(Bodies(n), f, a), Bodies(n)[a + 1]) = SubSeq(Bodies(n), f, a + 1)
      <4> HIDE DEF f
      <4> QED
        BY <3>1, MessagesShape, QueueAppend
    <3> QED
      BY <3>2, <3>3, <2>1, <2>3, <2>4, <1>7, Zenon
  <2>5. CASE a < 3
    <3>1. a + 1 < f /\ a < f /\ f \in Int /\ a \in Int /\ a + 1 \in Int
      BY <2>2, <2>5, <1>1
    <3>2. SubSeq(Bodies(n), f, a) = <<>> /\ SubSeq(Bodies(n), f, a + 1) = <<>>
      <4> HIDE DEF f
      <4> QED
        BY <3>1, WholeAndEmpty
    <3>3. new["EdgeWeight"] = ch["EdgeWeight"]
      BY <2>3, <2>5, <1>1, <1>7 DEF Tag, DataTag
    <3> QED
      BY <3>2, <3>3, <2>1, Zenon
  <2>6. a >= 3 \/ a < 3
    BY <1>1
  <2> QED
    BY <2>4, <2>5, <2>6, Zenon
<1>10. a + 1 \in 0 .. Count(n) /\ b \in 0 .. a + 1
  BY <1>1, <1>2
<1>11. parts = SubSeq(Bodies(n), 1, b)
  BY DEF InTransit
<1>12. InTransit(n, Tail(out), parts, new, a + 1, b)
  <2>1. a + 1 + 1 = a + 2
    BY <1>1
  <2> HIDE DEF new, t
  <2> QED
    BY <2>1, <1>1, <1>4, <1>8, <1>9, <1>10, <1>11, Zenon DEF InTransit
<1> QED
  BY <1>5, <1>6, <1>12, Zenon

\* The next message is received.
LEMMA TransitReceives ==
  ASSUME parents \in Histories, NEW n \in Node, NEW out, NEW parts, NEW a, NEW b,
         NEW ch \in [Tag -> Seq(Body \cup {0})],
         InTransit(n, out, parts, ch, a, b), b < Count(n), ch[Expected(parts)] # <<>>
  PROVE  /\ Expected(parts) \in DataTag
         /\ Head(ch[Expected(parts)]) \in Body
         /\ InTransit(n, out, Append(parts, Head(ch[Expected(parts)])),
                      [ch EXCEPT ![Expected(parts)] = Tail(@)], a, b + 1)
<1>1. /\ Count(n) \in Nat /\ a \in Nat /\ b \in Nat /\ b <= a /\ a <= Count(n)
      /\ out = SubSeq(Messages(n), a + 1, Count(n))
      /\ parts = SubSeq(Bodies(n), 1, b)
  BY MessagesShape DEF InTransit
<1>2. Bodies(n) \in Seq(Body) /\ Len(Bodies(n)) = Count(n)
  BY MessagesShape
<1>3. Len(parts) = b
  <2>1. \A i \in 1 .. b : Bodies(n)[i] \in Body
    BY <1>1, <1>2
  <2>2. Len(SubSeq(Bodies(n), 1, b)) = IF 1 <= b THEN b - 1 + 1 ELSE 0
    BY <2>1, <1>1, PartOf
  <2> QED
    BY <2>2, <1>1
<1> DEFINE t == TagAt(b + 1)
<1>4. Expected(parts) = t /\ t \in DataTag
  BY <1>1, <1>3 DEF Expected, TagAt, DataTag
<1> DEFINE f == IF b < 3 THEN 4 ELSE b + 1
<1>5. ch["EdgeWeight"] = SubSeq(Bodies(n), f, a)
  BY DEF InTransit
<1>6. f \in Nat /\ f >= 4 /\ (b >= 3 => f = b + 1)
  BY <1>1
<1>7. b < a /\ Head(ch[t]) = BodyAt(n, b + 1) /\ Tail(ch[t]) =
        IF b < 3 THEN <<>> ELSE SubSeq(Bodies(n), b + 2, a)
  <2>1. CASE b < 3
    <3>1. t \in DataTag \ {"EdgeWeight"} /\ Place(t) = b + 1
      BY <2>1, <1>1 DEF TagAt, Place, DataTag
    <3>2. ch[t] = IF b < Place(t) /\ Place(t) <= a THEN <<BodyAt(n, Place(t))>> ELSE <<>>
      BY <3>1 DEF InTransit
    <3>3. b < Place(t) /\ Place(t) <= a
      BY <3>2, <1>4
    <3>4. ch[t] = <<BodyAt(n, b + 1)>>
      BY <3>1, <3>2, <3>3
    <3>5. b < a
      BY <3>1, <3>3, <1>1
    <3>6. Head(ch[t]) = BodyAt(n, b + 1) /\ Tail(ch[t]) = <<>>
      BY <3>4
    <3> QED
      BY <3>5, <3>6, <2>1
  <2>2. CASE ~(b < 3)
    <3>1. t = "EdgeWeight" /\ f = b + 1
      BY <2>2, <1>1 DEF TagAt
    <3>2. ch[t] = SubSeq(Bodies(n), b + 1, a)
      BY <3>1, <1>5
    <3>3. b < a
      <4>1. ASSUME a = b PROVE FALSE
        <5>1. a < b + 1 /\ a \in Int /\ b + 1 \in Int
          BY <4>1, <1>1
        <5>2. SubSeq(Bodies(n), b + 1, a) = <<>>
          BY <5>1, WholeAndEmpty
        <5> QED
          BY <5>2, <3>2, <1>4, Zenon
      <4> QED
        BY <4>1, <1>1
    <3>4. b + 1 \in 1 .. Count(n) /\ a \in b + 1 .. Count(n) /\ b + 1 + 1 = b + 2
      BY <3>3, <1>1
    <3>5. /\ Head(SubSeq(Bodies(n), b + 1, a)) = Bodies(n)[b + 1]
          /\ Tail(SubSeq(Bodies(n), b + 1, a)) = SubSeq(Bodies(n), b + 2, a)
      <4>1. b + 1 \in 1 .. Len(Bodies(n)) /\ a \in b + 1 .. Len(Bodies(n))
        BY <3>4, <1>2
      <4>2. Tail(SubSeq(Bodies(n), b + 1, a)) = SubSeq(Bodies(n), b + 1 + 1, a)
        BY <4>1, <1>2, QueueTake, Zenon
      <4>3. Head(SubSeq(Bodies(n), b + 1, a)) = Bodies(n)[b + 1]
        BY <4>1, <1>2, QueueTake
      <4> QED
        BY <4>2, <4>3, <3>4
    <3>6. Bodies(n)[b + 1] = BodyAt(n, b + 1)
      BY <3>4 DEF Bodies
    <3>7. Head(ch[t]) = BodyAt(n, b + 1) /\ Tail(ch[t]) = SubSeq(Bodies(n), b + 2, a)
      BY <3>2, <3>5, <3>6, Zenon
    <3> QED
      BY <3>3, <3>7, <2>2, Zenon
  <2> QED
    BY <2>1, <2>2
<1>8. Bodies(n)[b + 1] = BodyAt(n, b + 1) /\ BodyAt(n, b + 1) \in Body
  <2>1. b + 1 \in 1 .. Count(n)
    BY <1>1, <1>7
  <2>2. Bodies(n)[b + 1] = BodyAt(n, b + 1)
    BY <2>1 DEF Bodies
  <2> QED
    BY <2>1, <2>2, <1>2
<1>9. Append(parts, Head(ch[t])) = SubSeq(Bodies(n), 1, b + 1)
  <2>1. 1 \in 1 .. Count(n) + 1 /\ b \in 1 - 1 .. Count(n) - 1
    BY <1>1, <1>7
  <2>2. Append(SubSeq(Bodies(n), 1, b), Bodies(n)[b + 1]) = SubSeq(Bodies(n), 1, b + 1)
    BY <2>1, <1>2, QueueAppend
  <2> QED
    BY <2>2, <1>1, <1>7, <1>8
<1> DEFINE new == [ch EXCEPT ![t] = Tail(@)]
<1>10. new[t] = Tail(ch[t]) /\ \A u \in Tag : u # t => new[u] = ch[u]
  BY <1>4 DEF Tag
<1>11. ASSUME NEW u \in DataTag \ {"EdgeWeight"}
       PROVE  new[u] = IF b + 1 < Place(u) /\ Place(u) <= a THEN <<BodyAt(n, Place(u))>> ELSE <<>>
  <2>1. ch[u] = IF b < Place(u) /\ Place(u) <= a THEN <<BodyAt(n, Place(u))>> ELSE <<>>
    BY <1>11 DEF InTransit
  <2>2. Place(u) \in 1 .. 3 /\ (u = t <=> Place(u) = b + 1)
    BY <1>1, <1>11 DEF Place, TagAt, DataTag
  <2>3. CASE u = t
    <3>1. b < 3 /\ ~(b + 1 < Place(u))
      BY <2>2, <2>3, <1>1
    <3>2. new[u] = <<>>
      BY <3>1, <2>3, <1>7, <1>10, Zenon
    <3> QED
      BY <3>1, <3>2
  <2>4. CASE u # t
    <3>1. b + 1 < Place(u) <=> b < Place(u)
      BY <2>2, <2>4, <1>1
    <3> QED
      BY <3>1, <2>1, <2>4, <1>10 DEF Tag
  <2> QED
    BY <2>3, <2>4
<1> DEFINE g == IF b + 1 < 3 THEN 4 ELSE b + 1 + 1
<1>12. new["EdgeWeight"] = SubSeq(Bodies(n), g, a)
  <2>1. CASE b < 3
    <3>1. t # "EdgeWeight" /\ f = 4 /\ g = 4
      BY <2>1, <1>1 DEF TagAt
    <3> QED
      BY <3>1, <1>5, <1>10 DEF Tag, DataTag
  <2>2. CASE ~(b < 3)
    <3>1. t = "EdgeWeight" /\ g = b + 2
      BY <2>2, <1>1 DEF TagAt
    <3>2. new["EdgeWeight"] = SubSeq(Bodies(n), b + 2, a)
      BY <3>1, <2>2, <1>7, <1>10, Zenon
    <3> QED
      BY <3>1, <3>2, Zenon
  <2> QED
    BY <2>1, <2>2, Zenon
<1>13. b + 1 \in 0 .. a /\ a \in 0 .. Count(n)
  BY <1>1, <1>7
<1>14. InTransit(n, out, Append(parts, Head(ch[t])), new, a, b + 1)
  <2> HIDE DEF new, t
  <2> QED
    BY <1>1, <1>9, <1>11, <1>12, <1>13 DEF InTransit
<1> QED
  BY <1>4, <1>7, <1>8, <1>14

\* When all messages are received the object is whole, and nothing of it is left;
\* before that it is not.
LEMMA TransitEnds ==
  ASSUME parents \in Histories, NEW n \in Node, NEW out, NEW parts, NEW ch, NEW a, NEW b,
         InTransit(n, out, parts, ch, a, b)
  PROVE  /\ Whole(parts) <=> b = Count(n)
         /\ b = Count(n) => /\ parts = Bodies(n)
                            /\ out = <<>>
                            /\ \A t \in DataTag : ch[t] = <<>>
<1>1. /\ Count(n) \in Nat /\ a \in Nat /\ b \in Nat /\ b <= a /\ a <= Count(n)
      /\ out = SubSeq(Messages(n), a + 1, Count(n))
      /\ parts = SubSeq(Bodies(n), 1, b)
  BY MessagesShape DEF InTransit
<1>2. Bodies(n) \in Seq(Body) /\ Len(Bodies(n)) = Count(n)
  BY MessagesShape
<1>3. Len(parts) = b /\ \A i \in 1 .. b : parts[i] = Bodies(n)[i]
  <2>1. \A i \in 1 .. b : Bodies(n)[i] \in Body
    BY <1>1, <1>2
  <2>2. /\ Len(SubSeq(Bodies(n), 1, b)) = IF 1 <= b THEN b - 1 + 1 ELSE 0
        /\ \A i \in 1 .. b - 1 + 1 : SubSeq(Bodies(n), 1, b)[i] = Bodies(n)[1 + i - 1]
    BY <2>1, <1>1, PartOf
  <2>3. b - 1 + 1 = b /\ \A i \in 1 .. b : 1 + i - 1 = i
    BY <1>1
  <2> QED
    BY <2>2, <2>3, <1>1
<1>4. Whole(parts) <=> b = Count(n)
  <2>1. CASE b < 3
    BY <2>1, <1>1, <1>3, ParentsType DEF Whole, Count
  <2>2. CASE b >= 3
    <3>1. 3 \in 1 .. Count(n) /\ 3 \in 1 .. b
      BY <2>2, <1>1
    <3>2. Bodies(n)[3] = parents[n]
      BY <3>1 DEF Bodies, BodyAt
    <3>3. parts[3] = parents[n]
      BY <3>1, <3>2, <1>3
    <3> QED
      BY <3>3, <2>2, <1>1, <1>3 DEF Whole, Count
  <2> QED
    BY <2>1, <2>2, <1>1
<1>5. ASSUME b = Count(n)
      PROVE  parts = Bodies(n) /\ out = <<>> /\ \A t \in DataTag : ch[t] = <<>>
  <2>1. a = Count(n) /\ b >= 3
    BY <1>1, <1>5, ParentsType DEF Count
  <2>2. parts = Bodies(n)
    BY <1>1, <1>2, <1>5, WholeAndEmpty
  <2>3. out = <<>>
    BY <2>1, <1>1, WholeAndEmpty
  <2>4. ch["EdgeWeight"] = <<>>
    <3>1. ch["EdgeWeight"] = SubSeq(Bodies(n), b + 1, a)
      BY <2>1, <1>1 DEF InTransit
    <3> QED
      BY <3>1, <2>1, <1>1, <1>5, WholeAndEmpty
  <2>5. \A t \in DataTag \ {"EdgeWeight"} : ch[t] = <<>>
    <3>1. \A t \in DataTag \ {"EdgeWeight"} : ~(b < Place(t))
      BY <2>1, <1>1 DEF Place
    <3> QED
      BY <3>1, Zenon DEF InTransit
  <2> QED
    BY <2>2, <2>3, <2>4, <2>5
<1> QED
  BY <1>4, <1>5

-----------------------------------------------------------------------------
(* The inductive invariant *)

\* The data of n, as the receiver should have them
Object(n) ==
  [value |-> n, incoming |-> [i \in DOMAIN parents[n] |-> <<parents[n][i], <<n, i>>>>]]

Acks(p) == chan[Peer(p)]["Ack"]

Has(p) == DOMAIN receiver[p].all_data

\* What the receiver needs next
Lacks(p) == IF Has(p) = {} THEN {relrc[p]} ELSE Unknown(p)

\* Nothing of an object is on its way.
Idle(p) ==
  /\ sender[p].out = <<>>
  /\ receiver[p].parts = <<>>
  /\ \A t \in DataTag : chan[p][t] = <<>>

\* The receiver has left its loop, with all that it needs; or there is no transfer.
Served(p) ==
  \/ /\ p \in Active /\ receiver[p].pc \in {"attach", "done", "panic"}
     /\ Has(p) # {} /\ Unknown(p) = {}
  \/ p \notin Active /\ receiver[p].pc = "done"

\* The phases of a transfer: an object is being sent; the receiver decides what to
\* do next; it has asked for an object; it has left its loop, and said so; it has
\* asked for an object with hash 0, and the sender has ended; it has left its loop,
\* and the sender has ended.
Sending(p) ==
  /\ sender[p].pc = "run" /\ receiver[p].pc = "recv" /\ Acks(p) = <<>>
  /\ \E n \in Lacks(p) : \E a, b \in Nat :
       b < Count(n) /\ InTransit(n, sender[p].out, receiver[p].parts, chan[p], a, b)
Deciding(p) ==
  /\ Idle(p) /\ sender[p].pc = "run" /\ receiver[p].pc = "next" /\ Acks(p) = <<>>
  /\ Has(p) # {}
Asking(p) ==
  /\ Idle(p) /\ sender[p].pc = "run" /\ receiver[p].pc = "recv" /\ Has(p) # {}
  /\ \E n \in Unknown(p) : Acks(p) = <<Encode(n)>>
Ending(p) == Idle(p) /\ sender[p].pc = "run" /\ Served(p) /\ Acks(p) = <<0>>
Misread(p) ==
  /\ Idle(p) /\ sender[p].pc = "done" /\ receiver[p].pc = "recv" /\ Acks(p) = <<>>
  /\ AskedForZero(p)
Ended(p) == Idle(p) /\ sender[p].pc = "done" /\ Served(p) /\ Acks(p) = <<>>

PhaseInv(p) ==
  Sending(p) \/ Deciding(p) \/ Asking(p) \/ Ending(p) \/ Misread(p) \/ Ended(p)

\* The receiver has ancestors of the object that it needs, each with its data, and
\* the object first of all.
DataInv(p) ==
  /\ p \in Active => Has(p) \subseteq Ancestors(relrc[p]) \cap Needed(p)
  /\ Has(p) # {} => relrc[p] \in Has(p)
  /\ p \notin Active => Has(p) = {} /\ Ended(p)
  /\ receiver[p].all_data = [n \in Has(p) |-> Object(n)]

SenderType == [out : Seq(Msg), pc : {"run", "done", "panic"}]
ReceiverType ==
  [parts : Seq(Body), all_data : {[n \in D |-> Object(n)] : D \in SUBSET Node},
   pc : {"recv", "next", "attach", "done", "panic"}]

TransferTypeOK ==
  /\ parents \in Histories
  /\ program \in Programs
  /\ sender \in [Proc -> SenderType]
  /\ receiver \in [Proc -> ReceiverType]
  /\ chan \in [Proc -> [Tag -> Seq(Body \cup {0})]]

TransferInv == TransferTypeOK /\ \A p \in Proc : DataInv(p) /\ PhaseInv(p)

-----------------------------------------------------------------------------
(* What the invariant says *)

\* A process with a transfer has an object to send.
LEMMA ActiveType ==
  ASSUME TransferTypeOK, NEW p \in Active
  PROVE  p \in Proc /\ relrc[p] \in Node
BY ProgramsAssumption, BoundsAssumption DEF TransferTypeOK, Active, relrc, Node

\* What the receiver lacks is an ancestor of the object that it needs.
LEMMA LacksAncestors ==
  ASSUME TransferTypeOK, NEW p \in Active, DataInv(p)
  PROVE  /\ Ancestors(relrc[p]) \subseteq Node
         /\ relrc[p] \in Ancestors(relrc[p])
         /\ Required(p) = (UNION {ParentsOf(n) : n \in Has(p)}) \ Has(p)
         /\ Unknown(p) \subseteq Ancestors(relrc[p])
         /\ Lacks(p) \subseteq Ancestors(relrc[p]) \cap Needed(p)
<1>1. parents \in Histories /\ relrc[p] \in Node
  BY ActiveType DEF TransferTypeOK
<1>2. Ancestors(relrc[p]) \subseteq Node /\ relrc[p] \in Ancestors(relrc[p])
  BY <1>1, UptoType DEF Ancestors
<1>3. /\ Has(p) \subseteq Ancestors(relrc[p]) /\ Has(p) \subseteq Needed(p)
      /\ receiver[p].all_data = [n \in Has(p) |-> Object(n)]
  BY DEF DataInv
<1>4. \A n \in Has(p) : {receiver[p].all_data[n].incoming[i][1] : i \in DOMAIN receiver[p].all_data[n].incoming}
                          = ParentsOf(n)
  <2> SUFFICES ASSUME NEW n \in Has(p)
               PROVE  {Object(n).incoming[i][1] : i \in DOMAIN Object(n).incoming} = ParentsOf(n)
    BY <1>3
  <2> QED
    BY Zenon DEF Object, ParentsOf, Range
<1>5. Required(p) = (UNION {ParentsOf(n) : n \in Has(p)}) \ Has(p)
  BY <1>4 DEF Required, Has
<1>6. \A n \in Has(p) : ParentsOf(n) \subseteq Ancestors(relrc[p])
  BY <1>1, <1>3, UptoParents DEF Ancestors
<1>7. \A n \in Needed(p) : ParentsOf(n) \subseteq Needed(p) \cup known[p]
  <2> SUFFICES ASSUME NEW n \in Needed(p), NEW m \in ParentsOf(n), m \notin known[p]
               PROVE  m \in Needed(p)
    BY Zenon
  <2>1. CASE n = relrc[p]
    <3>1. m \in Node
      BY <2>1, <1>1, ParentsType
    <3>2. m \in Upto(m, known[p])
      BY <3>1, <1>1, UptoType, Zenon
    <3> QED
      BY <3>2, <2>1, Zenon DEF Needed
  <2>2. CASE n # relrc[p]
    <3>1. PICK k \in ParentsOf(relrc[p]) : n \in Upto(k, known[p])
      BY <2>2, Zenon DEF Needed
    <3>2. k \in Node
      BY <1>1, ParentsType
    <3>3. m \in Upto(k, known[p])
      BY <3>1, <3>2, <1>1, UptoParents, Zenon
    <3> QED
      BY <3>3, Zenon DEF Needed
  <2> QED
    BY <2>1, <2>2, Zenon
<1>8. Unknown(p) \subseteq Ancestors(relrc[p]) /\ Unknown(p) \subseteq Needed(p)
  BY <1>3, <1>5, <1>6, <1>7, Zenon DEF Unknown
<1>9. relrc[p] \in Needed(p)
  BY Zenon DEF Needed
<1> QED
  BY <1>2, <1>5, <1>8, <1>9 DEF Lacks

\* A receiver that has the object, and lacks nothing, has all that it needs.
LEMMA ServedNeeds ==
  ASSUME TransferTypeOK, NEW p \in Active, DataInv(p), Has(p) # {}, Unknown(p) = {}
  PROVE  Has(p) = Needed(p)
<1>1. parents \in Histories /\ relrc[p] \in Node
  BY ActiveType DEF TransferTypeOK
<1>2. Has(p) \subseteq Needed(p) /\ relrc[p] \in Has(p)
  BY Zenon DEF DataInv
<1>3. \A m \in Has(p) : ParentsOf(m) \subseteq Has(p) \cup known[p]
  <2>1. Required(p) = (UNION {ParentsOf(n) : n \in Has(p)}) \ Has(p)
    BY LacksAncestors
  <2> QED
    BY <2>1, Zenon DEF Unknown
<1>4. ASSUME NEW n \in ParentsOf(relrc[p])
      PROVE  Upto(n, known[p]) \subseteq Has(p)
  <2>1. n \in Node
    BY <1>1, ParentsType
  <2>2. n \in Has(p) \cup known[p]
    BY <1>2, <1>3, Zenon
  <2> QED
    BY <2>1, <2>2, <1>1, <1>3, UptoLeast, Zenon
<1>5. Needed(p) \subseteq Has(p)
  BY <1>2, <1>4, Zenon DEF Needed
<1> QED
  BY <1>2, <1>5, Zenon

\* The object is whole: what is inserted is the object.
LEMMA ObjectReceived ==
  ASSUME parents \in Histories, NEW n \in Node
  PROVE  Bodies(n)[1] = n /\ InnerData(Bodies(n)) = Object(n)
<1>1. Len(parents[n]) \in Nat /\ DOMAIN parents[n] = 1 .. Len(parents[n])
  BY ParentsType
<1>2. Count(n) \in Nat /\ Count(n) = 3 + Len(parents[n])
  BY <1>1 DEF Count
<1>3. Bodies(n)[1] = n /\ Bodies(n)[2] = n /\ Bodies(n)[3] = parents[n]
  BY <1>1, <1>2 DEF Bodies, BodyAt
<1>4. \A i \in DOMAIN parents[n] : Bodies(n)[3 + i] = <<n, i>>
  BY <1>1, <1>2 DEF Bodies, BodyAt
<1> QED
  BY <1>3, <1>4, Zenon DEF InnerData, Object

-----------------------------------------------------------------------------
(* Steps that leave something alone *)

\* What is computed from the input alone stays as it is.
LEMMA InputFrame ==
  ASSUME UNCHANGED input
  PROVE  /\ relrc' = relrc /\ Active' = Active /\ parents' = parents /\ program' = program
         /\ known' = known /\ zero' = zero
         /\ \A n : Ancestors(n)' = Ancestors(n)
         /\ \A p : Needed(p)' = Needed(p)
         /\ \A n : Object(n)' = Object(n)
         /\ \A n : Count(n)' = Count(n)
         /\ \A n : Encode(n)' = Encode(n)
         /\ \A n : Messages(n)' = Messages(n)
         /\ ReceiverType' = ReceiverType
<1>1. parents' = parents /\ program' = program /\ known' = known /\ zero' = zero
  BY DEF input
<1>2. relrc' = relrc /\ Active' = Active
  BY <1>1 DEF relrc, Active
<1>3. \A n : Ancestors(n)' = Ancestors(n)
  BY <1>1 DEF Ancestors, Upto, UptoAll, ParentsOf
<1>4. \A n : Object(n)' = Object(n)
  BY <1>1 DEF Object
<1>5. \A n : Count(n)' = Count(n) /\ Encode(n)' = Encode(n)
  BY <1>1 DEF Count, Encode
<1>6. \A n : Messages(n)' = Messages(n)
  BY <1>1 DEF Messages
<1>7. ReceiverType' = ReceiverType
  BY <1>1 DEF ReceiverType, Object
<1>8. \A p : Needed(p)' = Needed(p)
  BY <1>1, <1>2 DEF Needed, Upto, UptoAll, ParentsOf
<1> QED
  BY <1>1, <1>2, <1>3, <1>4, <1>5, <1>6, <1>7, <1>8

\* What is in transit depends on the buffers and the channel only.
LEMMA TransitFrame ==
  ASSUME UNCHANGED input, NEW n, NEW p, NEW a, NEW b,
         InTransit(n, sender'[p].out, receiver'[p].parts, chan'[p], a, b)
  PROVE  InTransit(n, sender[p].out, receiver[p].parts, chan[p], a, b)'
BY DEF InTransit, Messages, Bodies, Count, BodyAt, input

\* What the receiver lacks depends on its data only.
LEMMA LacksFrame ==
  ASSUME UNCHANGED input, NEW p, receiver'[p].all_data = receiver[p].all_data
  PROVE  Has(p)' = Has(p) /\ Unknown(p)' = Unknown(p) /\ Lacks(p)' = Lacks(p)
         /\ AskedForZero(p)' = AskedForZero(p)
<1>1. Has(p)' = Has(p)
  BY DEF Has
<1>2. Required(p)' = Required(p)
  BY DEF Required
<1>3. Unknown(p)' = Unknown(p)
  BY <1>2, InputFrame DEF Unknown
<1> QED
  BY <1>1, <1>3, InputFrame DEF Lacks, AskedForZero

\* A transfer is left alone by a step that changes neither its ends nor its messages.
LEMMA TransferFrame ==
  ASSUME UNCHANGED input, NEW q \in Proc, DataInv(q), PhaseInv(q),
         sender'[q] = sender[q], receiver'[q] = receiver[q],
         \A t \in DataTag : chan'[q][t] = chan[q][t],
         Acks(q)' = Acks(q)
  PROVE  DataInv(q)' /\ PhaseInv(q)'
<1>1. Has(q)' = Has(q) /\ Unknown(q)' = Unknown(q) /\ Lacks(q)' = Lacks(q)
      /\ AskedForZero(q)' = AskedForZero(q)
  BY LacksFrame
<1>2. Idle(q)' = Idle(q) /\ Served(q)' = Served(q)
  BY <1>1, InputFrame, Zenon DEF Idle, Served
<1>3. Sending(q) => Sending(q)'
  <2> SUFFICES ASSUME Sending(q) PROVE Sending(q)'
    OBVIOUS
  <2>1. PICK n \in Lacks(q), a \in Nat, b \in Nat :
          b < Count(n) /\ InTransit(n, sender[q].out, receiver[q].parts, chan[q], a, b)
    BY DEF Sending
  <2>2. InTransit(n, sender'[q].out, receiver'[q].parts, chan'[q], a, b)
    BY <2>1, Zenon DEF InTransit, DataTag
  <2>3. InTransit(n, sender[q].out, receiver[q].parts, chan[q], a, b)'
    BY <2>2, TransitFrame, ZenonT(30)
  <2>4. (b < Count(n))' /\ n \in Lacks(q)'
    BY <2>1, <1>1, InputFrame, Zenon
  <2> QED
    BY <2>3, <2>4 DEF Sending
<1>4. Ended(q)' = Ended(q) /\ Misread(q)' = Misread(q) /\ Ending(q)' = Ending(q)
      /\ Deciding(q)' = Deciding(q)
  BY <1>1, <1>2, ZenonT(30) DEF Ended, Misread, Ending, Deciding
<1>5. Asking(q) => Asking(q)'
  BY <1>1, <1>2, InputFrame, ZenonT(30) DEF Asking
<1>6. PhaseInv(q)'
  BY <1>3, <1>4, <1>5, ZenonT(30) DEF PhaseInv
<1>7. DataInv(q)'
  BY <1>1, <1>4, InputFrame, Zenon DEF DataInv
<1> QED
  BY <1>6, <1>7

-----------------------------------------------------------------------------
(* The invariant is inductive *)

\* No transfer has begun at first.
LEMMA TransferInit == Init => TransferInv
<1> SUFFICES ASSUME Init PROVE TransferInv
  OBVIOUS
<1>1. parents \in Histories /\ program \in Programs
  BY Zenon DEF Init
<1>2. \A p \in Active : relrc[p] \in Node
  BY <1>1, ProgramsAssumption, BoundsAssumption DEF Active, relrc, Node
<1>3. ASSUME NEW p \in Proc
      PROVE  /\ p \in Active => sender[p] = [out |-> Messages(relrc[p]), pc |-> "run"]
             /\ p \notin Active => sender[p] = [out |-> <<>>, pc |-> "done"]
  BY DEF Init, Start
<1>4. ASSUME NEW p \in Proc
      PROVE  /\ p \in Active => receiver[p] = [parts |-> <<>>, all_data |-> Empty, pc |-> "recv"]
             /\ p \notin Active => receiver[p] = [parts |-> <<>>, all_data |-> Empty, pc |-> "done"]
  BY DEF Init
<1>5. \A p \in Proc : \A t \in Tag : chan[p][t] = <<>>
  BY DEF Init
<1>6. Empty = [n \in {} |-> Object(n)] /\ DOMAIN Empty = {}
  BY DEF Empty
<1>7. TransferTypeOK
  <2>1. ASSUME NEW p \in Proc PROVE sender[p] \in SenderType
    <3>1. CASE p \in Active
      <4>1. Messages(relrc[p]) \in Seq(Msg)
        BY <3>1, <1>1, <1>2, MessagesShape
      <4>2. sender[p] = [out |-> Messages(relrc[p]), pc |-> "run"]
        BY <3>1, <1>3
      <4> QED
        BY <4>1, <4>2 DEF SenderType
    <3>2. CASE p \notin Active
      <4>1. <<>> \in Seq(Msg)
        OBVIOUS
      <4>2. sender[p] = [out |-> <<>>, pc |-> "done"]
        BY <3>2, <1>3, Zenon
      <4> QED
        BY <4>1, <4>2 DEF SenderType
    <3> QED
      BY <3>1, <3>2
  <2>2. sender \in [Proc -> SenderType]
    <3>1. DOMAIN sender = Proc /\ sender = [p \in Proc |-> sender[p]]
      BY DEF Init
    <3> QED
      BY <2>1, <3>1, Zenon
  <2>3. ASSUME NEW p \in Proc PROVE receiver[p] \in ReceiverType
    <3>1. Empty \in {[n \in D |-> Object(n)] : D \in SUBSET Node} /\ <<>> \in Seq(Body)
      BY <1>6
    <3>2. CASE p \in Active
      <4>1. receiver[p] = [parts |-> <<>>, all_data |-> Empty, pc |-> "recv"]
        BY <3>2, <1>4
      <4> QED
        BY <4>1, <3>1 DEF ReceiverType
    <3>3. CASE p \notin Active
      <4>1. receiver[p] = [parts |-> <<>>, all_data |-> Empty, pc |-> "done"]
        BY <3>3, <1>4
      <4> QED
        BY <4>1, <3>1 DEF ReceiverType
    <3> QED
      BY <3>2, <3>3
  <2>4. receiver \in [Proc -> ReceiverType]
    <3>1. DOMAIN receiver = Proc /\ receiver = [p \in Proc |-> receiver[p]]
      BY DEF Init
    <3> QED
      BY <2>3, <3>1, Zenon
  <2>5. chan \in [Proc -> [Tag -> Seq(Body \cup {0})]]
    BY DEF Init
  <2> QED
    BY <1>1, <2>2, <2>4, <2>5 DEF TransferTypeOK
<1>8. ASSUME NEW p \in Proc PROVE DataInv(p) /\ PhaseInv(p)
  <2>1. receiver[p].all_data = Empty /\ receiver[p].parts = <<>>
    BY <1>4
  <2>2. Has(p) = {} /\ receiver[p].all_data = [n \in Has(p) |-> Object(n)]
    BY <2>1, <1>6 DEF Has
  <2>3. Acks(p) = <<>> /\ \A t \in DataTag : chan[p][t] = <<>>
    BY <1>5, PeerType, Zenon DEF Acks, Tag
  <2>4. CASE p \in Active
    <3>1. sender[p].pc = "run" /\ receiver[p].pc = "recv" /\ sender[p].out = Messages(relrc[p])
      <4>1. sender[p] = [out |-> Messages(relrc[p]), pc |-> "run"]
        BY <2>4, <1>3
      <4>2. receiver[p] = [parts |-> <<>>, all_data |-> Empty, pc |-> "recv"]
        BY <2>4, <1>4
      <4>3. sender[p].pc = "run" /\ sender[p].out = Messages(relrc[p])
        BY <4>1
      <4>4. receiver[p].pc = "recv"
        BY <4>2
      <4> QED
        BY <4>3, <4>4, Zenon
    <3>2. InTransit(relrc[p], sender[p].out, receiver[p].parts, chan[p], 0, 0)
      BY <3>1, <2>1, <2>3, <2>4, <1>1, <1>2, TransitStarts, Zenon
    <3>3. relrc[p] \in Lacks(p) /\ 0 < Count(relrc[p])
      BY <2>2, <2>4, <1>1, <1>2, ParentsType DEF Lacks, Count
    <3>4. Sending(p)
      BY <3>1, <3>2, <3>3, <2>3, Zenon DEF Sending
    <3> QED
      BY <3>4, <2>2, <2>4, Zenon DEF PhaseInv, DataInv
  <2>5. CASE p \notin Active
    <3>1. sender[p].pc = "done" /\ receiver[p].pc = "done" /\ sender[p].out = <<>>
      <4>1. sender[p] = [out |-> <<>>, pc |-> "done"]
        BY <2>5, <1>3, ZenonT(30)
      <4>2. receiver[p] = [parts |-> <<>>, all_data |-> Empty, pc |-> "done"]
        BY <2>5, <1>4
      <4> QED
        BY <4>1, <4>2
    <3>2. Ended(p)
      BY <3>1, <2>1, <2>3, <2>5, Zenon DEF Ended, Idle, Served
    <3> QED
      BY <3>2, <2>2, <2>5, Zenon DEF PhaseInv, DataInv
  <2> QED
    BY <2>4, <2>5
<1> QED
  BY <1>7, <1>8 DEF TransferInv

\* A message of an object is put on its way or taken.
LEMMA DataMessage ==
  ASSUME TransferTypeOK, NEW p \in Proc, NEW t \in DataTag, NEW X \in Seq(Body \cup {0}),
         chan' = [chan EXCEPT ![p][t] = X]
  PROVE  /\ chan' \in [Proc -> [Tag -> Seq(Body \cup {0})]]
         /\ chan'[p] = [chan[p] EXCEPT ![t] = X]
         /\ \A q \in Proc : Acks(q)' = Acks(q)
         /\ \A q \in Proc \ {p} : \A u \in DataTag : chan'[q][u] = chan[q][u]
<1>1. t \in Tag /\ t # "Ack" /\ "Ack" \in Tag
  BY DEF Tag, DataTag
<1>2. chan \in [Proc -> [Tag -> Seq(Body \cup {0})]]
  BY DEF TransferTypeOK
<1>3. chan'[p] = [chan[p] EXCEPT ![t] = X] /\ \A q \in Proc \ {p} : chan'[q] = chan[q]
  BY <1>2
<1>4. chan' \in [Proc -> [Tag -> Seq(Body \cup {0})]]
  BY <1>1, <1>2
<1>5. \A q \in Proc : chan'[q]["Ack"] = chan[q]["Ack"]
  BY <1>1, <1>2, <1>3, Zenon
<1> QED
  BY <1>3, <1>4, <1>5, PeerType DEF Acks

\* An acknowledgement is put on its way or taken.
LEMMA AckMessage ==
  ASSUME TransferTypeOK, NEW p \in Proc, NEW X \in Seq(Body \cup {0}),
         chan' = [chan EXCEPT ![Peer(p)]["Ack"] = X]
  PROVE  /\ chan' \in [Proc -> [Tag -> Seq(Body \cup {0})]]
         /\ Acks(p)' = X
         /\ \A q \in Proc \ {p} : Acks(q)' = Acks(q)
         /\ \A q \in Proc : \A u \in DataTag : chan'[q][u] = chan[q][u]
<1>1. "Ack" \in Tag /\ "Ack" \notin DataTag /\ DataTag \subseteq Tag
  BY DEF Tag, DataTag
<1>2. chan \in [Proc -> [Tag -> Seq(Body \cup {0})]]
  BY DEF TransferTypeOK
<1>3. Peer(p) \in Proc
  BY PeerType
<1>4. chan'[Peer(p)] = [chan[Peer(p)] EXCEPT !["Ack"] = X]
      /\ \A q \in Proc \ {Peer(p)} : chan'[q] = chan[q]
  BY <1>2, <1>3
<1>5. chan' \in [Proc -> [Tag -> Seq(Body \cup {0})]]
  BY <1>1, <1>2, <1>3, Zenon
<1>6. chan'[Peer(p)]["Ack"] = X
  BY <1>1, <1>2, <1>3, <1>4
<1>7. \A q \in Proc : \A u \in DataTag : chan'[q][u] = chan[q][u]
  BY <1>1, <1>2, <1>3, <1>4
<1>8. \A q \in Proc \ {p} : Peer(q) \in Proc \ {Peer(p)}
  BY PeerType, Zenon
<1> QED
  BY <1>4, <1>5, <1>6, <1>7, <1>8 DEF Acks

\* A step of the transfer of p leaves the other one alone.
LEMMA TransferStep ==
  ASSUME TransferInv, NEW p \in Proc, UNCHANGED input,
         TransferTypeOK', DataInv(p)', PhaseInv(p)',
         \A q \in Proc \ {p} :
           /\ sender'[q] = sender[q] /\ receiver'[q] = receiver[q]
           /\ \A u \in DataTag : chan'[q][u] = chan[q][u]
           /\ Acks(q)' = Acks(q)
  PROVE  TransferInv'
<1>1. ASSUME NEW q \in Proc \ {p} PROVE DataInv(q)' /\ PhaseInv(q)'
  BY <1>1, TransferFrame, Zenon DEF TransferInv
<1> QED
  BY <1>1, Zenon DEF TransferInv

\* What the phases say about a transfer
LEMMA PhaseFacts ==
  ASSUME TransferInv, NEW p \in Proc
  PROVE  /\ sender[p].out # <<>> => Sending(p)
         /\ Acks(p) # <<>> => Asking(p) \/ Ending(p)
         /\ receiver[p].pc = "next" => Deciding(p)
         /\ receiver[p].pc = "recv" /\ ~Sending(p) => Idle(p)
         /\ receiver[p].pc = "attach" => Ending(p) \/ Ended(p)
         /\ sender[p].pc = "run" \/ receiver[p].pc \in {"recv", "next", "attach"} => p \in Active
<1>1. DataInv(p) /\ PhaseInv(p)
  BY DEF TransferInv
<1> USE DEF Sending, Deciding, Asking, Ending, Misread, Ended, Idle, Served
<1>2. sender[p].out # <<>> => Sending(p)
  BY <1>1, ZenonT(30) DEF PhaseInv
<1>3. Acks(p) # <<>> => Asking(p) \/ Ending(p)
  BY <1>1, Zenon DEF PhaseInv
<1>4. receiver[p].pc = "next" => Deciding(p)
  BY <1>1, ZenonT(30) DEF PhaseInv
<1>5. receiver[p].pc = "recv" /\ ~Sending(p) => Idle(p)
  BY <1>1, Zenon DEF PhaseInv
<1>6. receiver[p].pc = "attach" => Ending(p) \/ Ended(p)
  BY <1>1, ZenonT(30) DEF PhaseInv
<1>7. p \notin Active => sender[p].pc = "done" /\ receiver[p].pc = "done"
  BY <1>1, Zenon DEF DataInv
<1> QED
  BY <1>2, <1>3, <1>4, <1>5, <1>6, <1>7, Zenon

\* mpi_send_data passes the next message of the object to MPI.
LEMMA SendStep ==
  ASSUME TransferInv, NEW p \in Proc, Send(p)
  PROVE  TransferInv'
<1>1. TransferTypeOK /\ DataInv(p) /\ UNCHANGED input /\ receiver' = receiver
  BY Zenon DEF TransferInv, Send
<1>2. Sending(p) /\ p \in Active
  BY PhaseFacts, Zenon DEF Send, Sending
<1>3. PICK n \in Lacks(p), a \in Nat, b \in Nat :
        b < Count(n) /\ InTransit(n, sender[p].out, receiver[p].parts, chan[p], a, b)
  BY <1>2, Zenon DEF Sending
<1>4. n \in Node /\ parents \in Histories
  BY <1>1, <1>2, LacksAncestors, Zenon DEF TransferTypeOK
<1> DEFINE m == Head(sender[p].out)
<1>5. chan[p] \in [Tag -> Seq(Body \cup {0})]
  BY <1>1 DEF TransferTypeOK
<1>6. /\ m.tag \in DataTag /\ m.body \in Body
      /\ InTransit(n, Tail(sender[p].out), receiver[p].parts,
                   [chan[p] EXCEPT ![m.tag] = Append(@, m.body)], a + 1, b)
  BY <1>3, <1>4, <1>5, TransitSends, ZenonT(30) DEF Send
<1> DEFINE X == Append(chan[p][m.tag], m.body)
<1>7. chan' = [chan EXCEPT ![p][m.tag] = X]
  BY ZenonT(30) DEF Send, SendTag
<1>8. X \in Seq(Body \cup {0})
  <2>1. m.tag \in Tag
    BY <1>6, ZenonT(30) DEF Tag
  <2>2. chan[p][m.tag] \in Seq(Body \cup {0}) /\ m.body \in Body \cup {0}
    <3> HIDE DEF m
    <3> QED
      BY <1>5, <1>6, <2>1
  <2> HIDE DEF m
  <2> QED
    BY <2>2, Appended
<1>9. /\ chan' \in [Proc -> [Tag -> Seq(Body \cup {0})]]
      /\ chan'[p] = [chan[p] EXCEPT ![m.tag] = X]
      /\ \A q \in Proc : Acks(q)' = Acks(q)
      /\ \A q \in Proc \ {p} : \A u \in DataTag : chan'[q][u] = chan[q][u]
  <2> HIDE DEF X, m
  <2> QED
    BY <1>1, <1>6, <1>7, <1>8, DataMessage, Zenon
<1>10. /\ sender[p] \in SenderType
       /\ sender' = [sender EXCEPT ![p].out = Tail(sender[p].out)]
       /\ sender \in [Proc -> SenderType]
  BY <1>1 DEF TransferTypeOK, Send
<1>11. /\ sender'[p].out = Tail(sender[p].out) /\ sender'[p].pc = sender[p].pc
       /\ \A q \in Proc \ {p} : sender'[q] = sender[q]
       /\ sender' \in [Proc -> SenderType]
  <2>1. Tail(sender[p].out) \in Seq(Msg)
    BY <1>10 DEF SenderType, Send
  <2> QED
    BY <2>1, <1>10, ZenonT(30) DEF SenderType
<1>12. TransferTypeOK'
  BY <1>1, <1>9, <1>11, InputFrame, Zenon DEF TransferTypeOK
<1>13. InTransit(n, sender[p].out, receiver[p].parts, chan[p], a + 1, b)'
  <2>1. InTransit(n, sender'[p].out, receiver'[p].parts, chan'[p], a + 1, b)
    BY <1>1, <1>6, <1>9, <1>11, Zenon
  <2> QED
    BY <2>1, <1>1, TransitFrame, Zenon
<1>14. Has(p)' = Has(p) /\ Lacks(p)' = Lacks(p)
  BY <1>1, LacksFrame, Zenon
<1>15. Sending(p)'
  <2>1. Count(n)' = Count(n)
    BY <1>1, InputFrame, Zenon
  <2>2. (b < Count(n))' /\ n \in Lacks(p)' /\ a + 1 \in Nat
    <3>1. a + 1 \in Nat
      BY <1>3
    <3> QED
      BY <2>1, <3>1, <1>3, <1>14, Zenon
  <2>3. (sender[p].pc = "run" /\ receiver[p].pc = "recv" /\ Acks(p) = <<>>)'
    BY <1>1, <1>2, <1>9, <1>11, ZenonT(30) DEF Sending
  <2> QED
    BY <2>2, <2>3, <1>13, Zenon DEF Sending
<1>16. DataInv(p)'
  BY <1>1, <1>2, <1>14, InputFrame, Zenon DEF DataInv
<1> QED
  BY <1>1, <1>9, <1>11, <1>12, <1>15, <1>16, TransferStep, Zenon DEF PhaseInv

\* The sender takes an acknowledgement.
LEMMA ReceiveAckStep ==
  ASSUME TransferInv, NEW p \in Proc, ReceiveAck(p)
  PROVE  TransferInv'
<1> DEFINE ack == Head(Acks(p))
<1>1. /\ TransferTypeOK /\ DataInv(p) /\ UNCHANGED input /\ receiver' = receiver
      /\ sender[p].pc = "run" /\ Acks(p) # <<>>
      /\ chan' = [chan EXCEPT ![Peer(p)]["Ack"] = Tail(Acks(p))]
  BY Zenon DEF TransferInv, ReceiveAck, Take, Acks
<1>2. p \in Active /\ (Asking(p) \/ Ending(p)) /\ Idle(p)
  BY <1>1, PhaseFacts, Zenon DEF Asking, Ending
<1>3. /\ Ancestors(relrc[p]) \subseteq Node /\ 0 \notin Node
      /\ Unknown(p) \subseteq Ancestors(relrc[p])
      /\ parents \in Histories
  BY <1>1, <1>2, LacksAncestors, BoundsAssumption DEF Node, TransferTypeOK
<1>4. /\ Tail(Acks(p)) = <<>>
      /\ Ending(p) => ack = 0
      /\ Asking(p) => \E n \in Unknown(p) : ack = Encode(n)
  <2>1. \A x : Head(<<x>>) = x /\ Tail(<<x>>) = <<>>
    OBVIOUS
  <2>2. CASE Ending(p)
    BY <2>1, <2>2, Zenon DEF Ending, Asking, Served
  <2>3. CASE Asking(p)
    BY <2>1, <2>3 DEF Ending, Asking, Served
  <2> QED
    BY <1>2, <2>2, <2>3
<1>5. /\ chan' \in [Proc -> [Tag -> Seq(Body \cup {0})]]
      /\ Acks(p)' = <<>>
      /\ \A q \in Proc \ {p} : Acks(q)' = Acks(q)
      /\ \A q \in Proc : \A u \in DataTag : chan'[q][u] = chan[q][u]
  <2>1. <<>> \in Seq(Body \cup {0})
    OBVIOUS
  <2>2. chan' = [chan EXCEPT ![Peer(p)]["Ack"] = <<>>]
    BY <1>1, <1>4, Zenon
  <2> QED
    BY <2>1, <2>2, <1>1, AckMessage, Zenon
<1>6. Has(p)' = Has(p) /\ Unknown(p)' = Unknown(p) /\ Lacks(p)' = Lacks(p)
      /\ AskedForZero(p)' = AskedForZero(p)
  BY <1>1, LacksFrame, Zenon
<1>7. DataInv(p)'
  BY <1>1, <1>2, <1>6, InputFrame DEF DataInv
<1>8. sender \in [Proc -> SenderType] /\ sender[p] \in SenderType
  BY <1>1, Zenon DEF TransferTypeOK
<1>9. ASSUME sender' \in [Proc -> SenderType], PhaseInv(p)',
             \A q \in Proc \ {p} : sender'[q] = sender[q]
      PROVE  TransferInv'
  <2>1. TransferTypeOK'
    BY <1>1, <1>5, <1>9, InputFrame, Zenon DEF TransferTypeOK
  <2> QED
    BY <1>1, <1>5, <1>7, <1>9, <2>1, TransferStep, Zenon
<1>10. \/ ack = 0 /\ sender' = [sender EXCEPT ![p].pc = "done"]
       \/ ack \in Ancestors(relrc[p]) /\ sender' = [sender EXCEPT ![p].out = Messages(ack)]
       \/ ack \notin Ancestors(relrc[p]) \cup {0}
  BY DEF ReceiveAck, Acks, Detached
<1>11. CASE ack = 0 /\ sender' = [sender EXCEPT ![p].pc = "done"]
  <2>1. /\ sender'[p].out = sender[p].out /\ sender'[p].pc = "done"
        /\ \A q \in Proc \ {p} : sender'[q] = sender[q]
        /\ sender' \in [Proc -> SenderType]
    BY <1>8, <1>11 DEF SenderType
  <2>2. Idle(p)'
    BY <1>1, <1>2, <1>5, <2>1, ZenonT(30) DEF Idle
  <2>3. CASE Ending(p)
    <3>1. Ended(p)'
      <4>1. Served(p)'
        BY <1>1, <1>6, <2>3, InputFrame, Zenon DEF Ending, Served
      <4> QED
        BY <4>1, <1>5, <2>1, <2>2, Zenon DEF Ended
    <3> QED
      BY <3>1, <2>1, <1>9, Zenon DEF PhaseInv
  <2>4. CASE Asking(p)
    <3>1. PICK n \in Unknown(p) : ack = Encode(n)
      BY <2>4, <1>4
    <3>2. AskedForZero(p)
      <4>1. n # 0
        BY <1>3
      <4>2. n = zero
        BY <3>1, <4>1, <1>11 DEF Encode
      <4> QED
        BY <4>2 DEF AskedForZero
    <3>3. Misread(p)'
      BY <1>1, <1>5, <1>6, <2>1, <2>2, <2>4, <3>2, Zenon DEF Misread, Asking
    <3> QED
      BY <3>3, <2>1, <1>9 DEF PhaseInv
  <2> QED
    BY <2>3, <2>4, <1>2
<1>12. CASE ack \in Ancestors(relrc[p]) /\ sender' = [sender EXCEPT ![p].out = Messages(ack)]
  <2>1. ack # 0
    BY <1>3, <1>12, Zenon
  <2>2. Asking(p) /\ Has(p) # {}
    BY <2>1, <1>2, <1>4, Zenon DEF Asking
  <2>3. PICK n \in Unknown(p) : ack = n
    BY <2>1, <2>2, <1>4, Zenon DEF Encode
  <2>4. n \in Node /\ Messages(n) \in Seq(Msg) /\ Count(n) \in Nat /\ 0 < Count(n)
    BY <2>3, <1>3, MessagesShape, ParentsType DEF Count
  <2>5. sender' = [sender EXCEPT ![p].out = Messages(n)]
    BY <1>12, <2>3, Zenon
  <2>6. /\ sender'[p].out = Messages(n) /\ sender'[p].pc = sender[p].pc
        /\ \A q \in Proc \ {p} : sender'[q] = sender[q]
        /\ sender' \in [Proc -> SenderType]
    BY <2>4, <2>5, <1>8, Zenon DEF SenderType
  <2>7. InTransit(n, sender'[p].out, receiver'[p].parts, chan'[p], 0, 0)
    <3>1. \A t \in DataTag : chan'[p][t] = <<>>
      BY <1>2, <1>5, ZenonT(30) DEF Idle
    <3>2. InTransit(n, Messages(n), <<>>, chan'[p], 0, 0)
      BY <3>1, <2>4, <1>3, TransitStarts, Zenon
    <3> QED
      BY <3>2, <2>6, <1>1, <1>2 DEF Idle
  <2>8. Sending(p)'
    <3>1. InTransit(n, sender[p].out, receiver[p].parts, chan[p], 0, 0)'
      BY <2>7, <1>1, TransitFrame, ZenonT(30)
    <3>2. n \in Lacks(p)' /\ (0 < Count(n))'
      BY <2>2, <2>3, <2>4, <1>1, <1>6, InputFrame DEF Lacks
    <3>3. (sender[p].pc = "run" /\ receiver[p].pc = "recv" /\ Acks(p) = <<>>)'
      BY <1>1, <1>5, <2>2, <2>6, Zenon DEF Asking
    <3> QED
      BY <3>1, <3>2, <3>3, Zenon DEF Sending
  <2> QED
    BY <2>6, <2>8, <1>9 DEF PhaseInv
<1>13. ack \in Ancestors(relrc[p]) \cup {0}
  <2>1. CASE Asking(p)
    BY <2>1, <1>3, <1>4, Zenon DEF Encode
  <2> QED
    BY <2>1, <1>2, <1>4
<1> QED
  BY <1>10, <1>11, <1>12, <1>13, Zenon

\* The receiver takes a message of an object.
LEMMA ReceiveStep ==
  ASSUME TransferInv, NEW p \in Proc, Receive(p)
  PROVE  /\ TransferInv'
         /\ \/ receiver'[p].all_data = receiver[p].all_data /\ receiver'[p].pc = "recv"
            \/ /\ receiver'[p].pc = "next"
               /\ \E n \in Lacks(p) : Has(p)' = Has(p) \cup {n}
<1> DEFINE t == Expected(receiver[p].parts)
           parts == Append(receiver[p].parts, Head(chan[p][t]))
<1>1. /\ TransferTypeOK /\ DataInv(p) /\ UNCHANGED input /\ sender' = sender
      /\ receiver[p].pc = "recv" /\ chan[p][t] # <<>>
      /\ chan' = [chan EXCEPT ![p][t] = Tail(chan[p][t])]
      /\ receiver' = [receiver EXCEPT ![p] =
           IF Whole(parts) THEN [parts |-> <<>>, all_data |-> Inserted(p, parts), pc |-> "next"]
           ELSE [receiver[p] EXCEPT !.parts = parts]]
  BY Zenon DEF TransferInv, Receive, Take
<1>2. Sending(p) /\ p \in Active
  <2>1. t \in DataTag
    <3>1. receiver[p].parts \in Seq(Body)
      BY <1>1, Zenon DEF TransferTypeOK, ReceiverType
    <3> QED
      BY <3>1 DEF Expected, DataTag
  <2>2. ~Idle(p)
    BY <1>1, <2>1, Zenon DEF Idle
  <2> QED
    BY <1>1, <2>2, PhaseFacts
<1>3. PICK n \in Lacks(p), a \in Nat, b \in Nat :
        b < Count(n) /\ InTransit(n, sender[p].out, receiver[p].parts, chan[p], a, b)
  BY <1>2, Zenon DEF Sending
<1>4. /\ n \in Node /\ n \in Ancestors(relrc[p]) /\ n \in Needed(p)
      /\ parents \in Histories /\ Ancestors(relrc[p]) \subseteq Node
  BY <1>1, <1>2, <1>3, LacksAncestors, Zenon DEF TransferTypeOK
<1>5. chan[p] \in [Tag -> Seq(Body \cup {0})]
  BY <1>1 DEF TransferTypeOK
<1>6. /\ t \in DataTag /\ Head(chan[p][t]) \in Body
      /\ InTransit(n, sender[p].out, parts, [chan[p] EXCEPT ![t] = Tail(@)], a, b + 1)
  BY <1>1, <1>3, <1>4, <1>5, TransitReceives, Zenon
<1>7. parts \in Seq(Body)
  <2>1. receiver[p].parts \in Seq(Body)
    BY <1>1 DEF TransferTypeOK, ReceiverType
  <2> QED
    BY <2>1, <1>6, Appended, ZenonT(30)
<1> HIDE DEF t, parts
<1>8. /\ chan' \in [Proc -> [Tag -> Seq(Body \cup {0})]]
      /\ chan'[p] = [chan[p] EXCEPT ![t] = Tail(chan[p][t])]
      /\ \A q \in Proc : Acks(q)' = Acks(q)
      /\ \A q \in Proc \ {p} : \A u \in DataTag : chan'[q][u] = chan[q][u]
  <2>1. Tail(chan[p][t]) \in Seq(Body \cup {0})
    <3>1. chan[p][t] \in Seq(Body \cup {0})
      BY <1>5, <1>6, Zenon DEF Tag
    <3> QED
      BY <3>1, <1>1
  <2> QED
    BY <2>1, <1>1, <1>6, DataMessage, Zenon
<1>9. InTransit(n, sender[p].out, parts, chan'[p], a, b + 1)
  BY <1>6, <1>8, ZenonT(30)
<1>10. Whole(parts) <=> b + 1 = Count(n)
  BY <1>4, <1>9, TransitEnds, Zenon
<1>11. receiver[p] \in ReceiverType /\ receiver \in [Proc -> ReceiverType]
       /\ sender[p].pc = "run" /\ Acks(p) = <<>>
  BY <1>1, <1>2 DEF TransferTypeOK, Sending
<1>12. \A q \in Proc \ {p} : receiver'[q] = receiver[q]
  BY <1>1, <1>11
<1>13. ASSUME receiver'[p] \in ReceiverType, PhaseInv(p)', DataInv(p)'
       PROVE  TransferInv'
  <2>1. receiver' \in [Proc -> ReceiverType]
    <3>1. DOMAIN receiver' = Proc /\ receiver' = [q \in Proc |-> receiver'[q]]
      BY <1>1, <1>11, ZenonT(30)
    <3> QED
      BY <3>1, <1>11, <1>12, <1>13
  <2>2. TransferTypeOK'
    BY <1>1, <1>8, <2>1, InputFrame, Zenon DEF TransferTypeOK
  <2> QED
    BY <1>1, <1>8, <1>12, <1>13, <2>2, TransferStep
<1>14. CASE Whole(parts)
  <2>1. /\ parts = Bodies(n) /\ sender[p].out = <<>>
        /\ \A u \in DataTag : chan'[p][u] = <<>>
    BY <1>4, <1>9, <1>10, <1>14, TransitEnds
  <2>2. receiver'[p] = [parts |-> <<>>, all_data |-> Inserted(p, parts), pc |-> "next"]
    BY <1>1, <1>11, <1>14, Zenon
  <2>3. parts[1] = n /\ InnerData(parts) = Object(n)
    BY <2>1, <1>4, ObjectReceived, Zenon
  <2>4. Inserted(p, parts) = [m \in Has(p) \cup {n} |-> Object(m)]
    <3>1. receiver[p].all_data = [m \in Has(p) |-> Object(m)]
      BY <1>1 DEF DataInv
    <3>2. Inserted(p, parts) = [m \in Has(p) \cup {n} |->
                                  IF m = n THEN Object(n) ELSE receiver[p].all_data[m]]
      BY <2>3, Zenon DEF Inserted, Has
    <3>3. \A m \in Has(p) \cup {n} :
            (IF m = n THEN Object(n) ELSE receiver[p].all_data[m]) = Object(m)
      BY <3>1, Zenon
    <3> QED
      BY <3>2, <3>3, Zenon
  <2>5. /\ receiver'[p].parts = <<>> /\ receiver'[p].pc = "next"
        /\ receiver'[p].all_data = [m \in Has(p) \cup {n} |-> Object(m)]
    BY <2>2, <2>4
  <2>6. /\ Has(p) \cup {n} \subseteq Ancestors(relrc[p]) \cap Needed(p)
        /\ relrc[p] \in Has(p) \cup {n}
    BY <1>1, <1>2, <1>3, <1>4, Zenon DEF DataInv, Lacks
  <2>7. Has(p)' = Has(p) \cup {n}
    BY <2>5, ZenonT(30) DEF Has
  <2>8. receiver'[p] \in ReceiverType
    <3>1. Has(p) \cup {n} \in SUBSET Node
      BY <2>6, <1>4
    <3>2. [m \in Has(p) \cup {n} |-> Object(m)] \in {[m \in D |-> Object(m)] : D \in SUBSET Node}
      BY <3>1, Zenon
    <3>3. <<>> \in Seq(Body)
      OBVIOUS
    <3>4. receiver'[p] = [parts |-> <<>>, all_data |-> [m \in Has(p) \cup {n} |-> Object(m)], pc |-> "next"]
      BY <2>2, <2>4, ZenonT(30)
    <3>5. ASSUME NEW A \in {[m \in D |-> Object(m)] : D \in SUBSET Node}
          PROVE  [parts |-> <<>>, all_data |-> A, pc |-> "next"] \in ReceiverType
      BY <3>3 DEF ReceiverType
    <3>. QED BY <3>2, <3>4, <3>5, ZenonT(30)
  <2>9. DataInv(p)'
    <3>1. receiver'[p].all_data = [m \in Has(p)' |-> Object(m)']
      BY <2>5, <2>7, <1>1, InputFrame
    <3>2. /\ Active' = Active /\ Has(p)' \subseteq Ancestors(relrc[p])' \cap Needed(p)'
          /\ relrc'[p] \in Has(p)'
      BY <2>6, <2>7, <1>1, InputFrame, Zenon
    <3> QED
      BY <3>1, <3>2, <1>2, Zenon DEF DataInv
  <2>10. Deciding(p)'
    BY <1>1, <1>8, <1>11, <2>1, <2>5, <2>7, ZenonT(30) DEF Deciding, Idle
  <2> QED
    BY <1>13, <2>5, <2>7, <2>8, <2>9, <2>10, ZenonT(30) DEF PhaseInv
<1>15. CASE ~Whole(parts)
  <2>1. receiver'[p] = [receiver[p] EXCEPT !.parts = parts]
    BY <1>1, <1>11, <1>15
  <2>2. /\ receiver'[p].parts = parts /\ receiver'[p].pc = "recv"
        /\ receiver'[p].all_data = receiver[p].all_data
        /\ receiver'[p] \in ReceiverType
    BY <2>1, <1>1, <1>7, <1>11, ZenonT(30) DEF ReceiverType
  <2>3. Has(p)' = Has(p) /\ Lacks(p)' = Lacks(p)
    BY <2>2, <1>1, LacksFrame, Zenon
  <2>4. b + 1 < Count(n) /\ b + 1 \in Nat
    <3>1. Count(n) \in Nat
      BY <1>4, MessagesShape, Zenon
    <3> QED
      BY <3>1, <1>3, <1>10, <1>15
  <2>5. InTransit(n, sender[p].out, receiver[p].parts, chan[p], a, b + 1)'
    BY <1>1, <1>9, <2>2, TransitFrame, ZenonT(30)
  <2>6. Sending(p)'
    <3>1. n \in Lacks(p)' /\ (b + 1 < Count(n))'
      BY <2>3, <2>4, <1>1, <1>3, InputFrame
    <3>2. (sender[p].pc = "run" /\ receiver[p].pc = "recv" /\ Acks(p) = <<>>)'
      BY <1>1, <1>8, <1>11, <2>2
    <3> QED
      BY <3>1, <3>2, <2>4, <2>5, Zenon DEF Sending
  <2>7. DataInv(p)'
    BY <1>1, <1>2, <2>2, <2>3, InputFrame DEF DataInv
  <2> QED
    BY <1>13, <2>2, <2>6, <2>7, Zenon DEF PhaseInv
<1> QED
  BY <1>14, <1>15, Zenon

\* An acknowledgement is put on its way by a receiver that decides what to do next.
LEMMA AckStep ==
  ASSUME TransferInv, NEW p \in Proc, receiver[p].pc = "next", UNCHANGED <<input, sender>>,
         NEW c \in {"recv", "attach"}, receiver' = [receiver EXCEPT ![p].pc = c],
         NEW ack \in Node \cup {0}, SendTag(Peer(p), "Ack", ack),
         \/ c = "recv" /\ \E n \in Unknown(p) : ack = Encode(n)
         \/ c = "attach" /\ Unknown(p) = {} /\ ack = 0
  PROVE  /\ TransferInv' /\ p \in Active
         /\ receiver'[p].pc = c /\ receiver'[p].all_data = receiver[p].all_data
<1>1. TransferTypeOK /\ DataInv(p) /\ sender' = sender /\ UNCHANGED input
  BY DEF TransferInv
<1>2. Deciding(p) /\ p \in Active
  BY PhaseFacts
<1>3. chan' = [chan EXCEPT ![Peer(p)]["Ack"] = <<ack>>]
  <2>1. chan' = [chan EXCEPT ![Peer(p)]["Ack"] = Append(chan[Peer(p)]["Ack"], ack)]
    BY DEF SendTag
  <2>2. chan[Peer(p)]["Ack"] = <<>>
    BY <1>2 DEF Deciding, Acks
  <2>3. Append(<<>>, ack) = <<ack>>
    OBVIOUS
  <2> QED
    BY <2>1, <2>2, <2>3, Zenon
<1>4. /\ chan' \in [Proc -> [Tag -> Seq(Body \cup {0})]]
      /\ Acks(p)' = <<ack>>
      /\ \A q \in Proc \ {p} : Acks(q)' = Acks(q)
      /\ \A q \in Proc : \A u \in DataTag : chan'[q][u] = chan[q][u]
  <2>1. ack \in Body \cup {0}
    BY DEF Body
  <2>2. <<ack>> \in Seq(Body \cup {0})
    BY <2>1
  <2> QED
    BY <2>2, <1>1, <1>3, AckMessage, Zenon
<1>5. receiver \in [Proc -> ReceiverType] /\ receiver[p] \in ReceiverType
  BY <1>1 DEF TransferTypeOK
<1>6. /\ receiver'[p].pc = c /\ receiver'[p].parts = receiver[p].parts
      /\ receiver'[p].all_data = receiver[p].all_data
      /\ \A q \in Proc \ {p} : receiver'[q] = receiver[q]
      /\ receiver' \in [Proc -> ReceiverType]
  BY <1>5, Zenon DEF ReceiverType
<1>7. TransferTypeOK'
  BY <1>1, <1>4, <1>6, InputFrame DEF TransferTypeOK
<1>8. Has(p)' = Has(p) /\ Unknown(p)' = Unknown(p)
  BY <1>1, <1>6, LacksFrame
<1>9. DataInv(p)'
  BY <1>1, <1>2, <1>6, <1>8, InputFrame DEF DataInv
<1>10. Idle(p)' /\ sender'[p].pc = "run" /\ Has(p)' # {}
  BY <1>1, <1>2, <1>4, <1>6, <1>8 DEF Deciding, Idle
<1>11. PhaseInv(p)'
  <2>1. CASE c = "recv"
    <3>1. PICK n \in Unknown(p) : ack = Encode(n)
      BY <2>1
    <3>2. Acks(p)' = <<Encode(n)'>> /\ n \in Unknown(p)'
      BY <3>1, <1>1, <1>4, <1>8, InputFrame
    <3>3. Asking(p)'
      BY <3>2, <2>1, <1>6, <1>10 DEF Asking
    <3> QED
      BY <3>3 DEF PhaseInv
  <2>2. CASE c = "attach"
    <3>1. Unknown(p)' = {} /\ ack = 0
      BY <2>2, <1>8
    <3>2. Active' = Active
      BY <1>1, InputFrame
    <3>3. Served(p)'
      BY <2>2, <3>1, <3>2, <1>2, <1>6, <1>10, Zenon DEF Served
    <3>4. Ending(p)'
      BY <3>1, <3>3, <1>4, <1>10, Zenon DEF Ending
    <3> QED
      BY <3>4, Zenon DEF PhaseInv
  <2> QED
    BY <2>1, <2>2
<1> QED
  BY <1>1, <1>2, <1>4, <1>6, <1>7, <1>9, <1>11, TransferStep

\* The receiver requests another object.
LEMMA RequestStep ==
  ASSUME TransferInv, NEW p \in Proc, Request(p)
  PROVE  /\ TransferInv' /\ p \in Active
         /\ receiver'[p].pc = "recv" /\ receiver'[p].all_data = receiver[p].all_data
<1>1. PICK n \in Unknown(p) : SendTag(Peer(p), "Ack", Encode(n))
  BY DEF Request
<1>2. TransferTypeOK /\ DataInv(p) /\ p \in Active
  BY PhaseFacts DEF TransferInv, Request
<1>3. n \in Node
  BY <1>1, <1>2, LacksAncestors
<1>4. PICK ack \in Node \cup {0} : ack = Encode(n)
  BY <1>3 DEF Encode
<1>5. SendTag(Peer(p), "Ack", ack)
  BY <1>1, <1>4
<1>6. receiver[p].pc = "next" /\ UNCHANGED <<input, sender>>
      /\ receiver' = [receiver EXCEPT ![p].pc = "recv"]
  BY DEF Request
<1> QED
  BY <1>1, <1>4, <1>5, <1>6, AckStep, Zenon

\* The receiver says that it needs no more.
LEMMA SendDoneStep ==
  ASSUME TransferInv, NEW p \in Proc, SendDone(p)
  PROVE  /\ TransferInv' /\ p \in Active
         /\ receiver'[p].pc = "attach" /\ receiver'[p].all_data = receiver[p].all_data
<1>1. /\ receiver[p].pc = "next" /\ UNCHANGED <<input, sender>> /\ Unknown(p) = {}
      /\ SendTag(Peer(p), "Ack", 0) /\ receiver' = [receiver EXCEPT ![p].pc = "attach"]
  BY DEF SendDone
<1>2. 0 \in Node \cup {0} /\ "attach" \in {"recv", "attach"}
  OBVIOUS
<1> QED
  BY <1>1, <1>2, AckStep, Zenon

\* The receiver attaches the object, whether the sender has ended by then or not.
LEMMA AttachStep ==
  ASSUME TransferInv, NEW p \in Proc, Attach(p)
  PROVE  /\ TransferInv' /\ p \in Active /\ Has(p) # {} /\ Unknown(p) = {}
         /\ receiver'[p].pc \in {"done", "panic"}
         /\ receiver'[p].all_data = receiver[p].all_data
<1>1. PICK c \in {"done", "panic"} : receiver' = [receiver EXCEPT ![p].pc = c]
  BY Zenon DEF Attach, AttachEnds
<1>2. /\ TransferTypeOK /\ DataInv(p) /\ receiver[p].pc = "attach"
      /\ UNCHANGED input /\ sender' = sender /\ chan' = chan
  BY Zenon DEF TransferInv, Attach
<1>3. p \in Active /\ (Ending(p) \/ Ended(p)) /\ Has(p) # {} /\ Unknown(p) = {}
  BY <1>2, PhaseFacts, Zenon DEF Ending, Ended, Served
<1>4. receiver \in [Proc -> ReceiverType] /\ receiver[p] \in ReceiverType
  BY <1>2, Zenon DEF TransferTypeOK
<1>5. /\ receiver'[p].pc = c /\ receiver'[p].parts = receiver[p].parts
      /\ receiver'[p].all_data = receiver[p].all_data
      /\ \A q \in Proc \ {p} : receiver'[q] = receiver[q]
      /\ receiver' \in [Proc -> ReceiverType]
  BY <1>1, <1>4, Zenon DEF ReceiverType
<1>6. TransferTypeOK'
  BY <1>2, <1>5, InputFrame, Zenon DEF TransferTypeOK
<1>7. Has(p)' = Has(p) /\ Unknown(p)' = Unknown(p)
  BY <1>2, <1>5, LacksFrame, Zenon
<1>8. DataInv(p)'
  BY <1>2, <1>3, <1>5, <1>7, InputFrame, Zenon DEF DataInv
<1>9. \A q \in Proc : Acks(q)' = Acks(q)
  BY <1>2, Zenon DEF Acks
<1>10. Idle(p)' /\ Served(p)'
  <2>1. Idle(p)'
    BY <1>2, <1>3, <1>5, Zenon DEF Idle, Ending, Ended
  <2>2. Active' = Active
    BY <1>2, InputFrame, Zenon
  <2> QED
    BY <2>1, <2>2, <1>3, <1>5, <1>7, Zenon DEF Served
<1>11. PhaseInv(p)'
  BY <1>2, <1>3, <1>9, <1>10, Zenon DEF PhaseInv, Ending, Ended
<1> QED
  BY <1>2, <1>3, <1>5, <1>6, <1>8, <1>9, <1>11, TransferStep, Zenon

\* Steps that leave the transfers alone
LEMMA IdleStep ==
  ASSUME TransferInv, UNCHANGED <<input, chan, sender, receiver>>
  PROVE  TransferInv'
<1>1. UNCHANGED input /\ chan' = chan /\ sender' = sender /\ receiver' = receiver
  OBVIOUS
<1>2. TransferTypeOK'
  BY <1>1, InputFrame, Zenon DEF TransferInv, TransferTypeOK
<1>3. ASSUME NEW q \in Proc PROVE DataInv(q)' /\ PhaseInv(q)'
  <2>1. Acks(q)' = Acks(q)
    BY <1>1 DEF Acks
  <2> QED
    BY <1>1, <2>1, TransferFrame, Zenon DEF TransferInv
<1> QED
  BY <1>2, <1>3 DEF TransferInv

\* Every step of either process keeps the invariant.
LEMMA TransferNext == TransferInv /\ [Next]_vars => TransferInv'
<1> SUFFICES ASSUME TransferInv, [Next]_vars PROVE TransferInv'
  OBVIOUS
<1>1. CASE UNCHANGED vars
  BY <1>1, IdleStep DEF vars
<1>2. ASSUME NEW p \in Proc, Step(p) PROVE TransferInv'
  <2>1. Peer(p) \in Proc
    BY PeerType
  <2>2. CASE Send(p)
    BY <2>2, SendStep
  <2>3. CASE ReceiveAck(p)
    BY <2>3, ReceiveAckStep
  <2>4. CASE Receive(Peer(p))
    BY <2>1, <2>4, ReceiveStep
  <2>5. CASE Request(Peer(p))
    BY <2>1, <2>5, RequestStep
  <2>6. CASE SendDone(Peer(p))
    BY <2>1, <2>6, SendDoneStep
  <2>7. CASE Attach(Peer(p))
    BY <2>1, <2>7, AttachStep
  <2>8. CASE Pending(Peer(p))
    <3>1. UNCHANGED <<input, chan, sender, receiver>>
      BY <2>8 DEF Pending
    <3> QED
      BY <3>1, IdleStep
  <2> QED
    BY <1>2, <2>2, <2>3, <2>4, <2>5, <2>6, <2>7, <2>8 DEF Step
<1> QED
  BY <1>1, <1>2 DEF Next

\* The invariant holds throughout.
LEMMA TransferInvariance == Spec => []TransferInv
BY TransferInit, TransferNext, PTL DEF Spec

-----------------------------------------------------------------------------
(* What the transfers guarantee *)

\* The objects arrive as they were sent (InnerData, put together by mpi_recv),
\* whatever else is on its way.
THEOREM TransferDataIntact == Spec => []DataIntact
<1>1. ASSUME TransferInv PROVE DataIntact
  <2> SUFFICES ASSUME NEW p \in Proc, NEW n \in Has(p)
               PROVE  n \in Ancestors(relrc[p]) /\ receiver[p].all_data[n] = Object(n)
    BY DEF DataIntact, Has, Object
  <2>1. DataInv(p)
    BY <1>1 DEF TransferInv
  <2> QED
    BY <2>1 DEF DataInv
<1> QED
  BY <1>1, TransferInvariance, PTL

\* An acknowledgement and parts of an object are never on their way together, and
\* there is one acknowledgement at most (the loops of send_relrc and recv_relrc).
THEOREM TransferTakesTurns == Spec => []TakesTurns
<1>1. ASSUME TransferInv PROVE TakesTurns
  <2> SUFFICES ASSUME NEW p \in Proc
               PROVE  /\ Len(Acks(p)) <= 1
                      /\ Acks(p) # <<>> => sender[p].out = <<>> /\ InFlight(p) = {} /\ receiver[p].parts = <<>>
    BY DEF TakesTurns, Acks
  <2>1. PhaseInv(p)
    BY <1>1 DEF TransferInv
  <2>2. Acks(p) = <<>> \/ (Idle(p) /\ \E x : Acks(p) = <<x>>)
    BY <2>1, Zenon DEF PhaseInv, Sending, Deciding, Asking, Ending, Misread, Ended
  <2>3. Len(<<>>) <= 1 /\ \A x : Len(<<x>>) <= 1
    OBVIOUS
  <2> QED
    BY <2>2, <2>3, Zenon DEF Idle, InFlight
<1> QED
  BY <1>1, TransferInvariance, PTL

\* send_relrc finds every object that it is asked for (the index at mpi.rs:160), and
\* when it returns the receiver has exactly the objects that it needs, or waits for
\* an object with hash 0, whose request was read as Done.
THEOREM TransferSenderServes == Spec => []SenderServes
<1>1. ASSUME TransferInv PROVE SenderServes
  <2> SUFFICES ASSUME NEW p \in Active
               PROVE  /\ sender[p].pc # "panic"
                      /\ sender[p].pc = "done" =>
                           \/ receiver[p].pc \in {"attach", "done", "panic"} /\ Has(p) = Needed(p)
                           \/ receiver[p].pc = "recv" /\ AskedForZero(p)
    BY DEF SenderServes, Has
  <2>1. p \in Proc /\ TransferTypeOK /\ PhaseInv(p) /\ DataInv(p)
    BY <1>1, Zenon DEF TransferInv, Active
  <2>2. sender[p].pc = "run" \/ Misread(p) \/ Ended(p)
    BY <2>1, Zenon DEF PhaseInv, Sending, Deciding, Asking, Ending
  <2>3. ASSUME Ended(p)
        PROVE  receiver[p].pc \in {"attach", "done", "panic"} /\ Has(p) = Needed(p)
    <3>1. receiver[p].pc \in {"attach", "done", "panic"} /\ Has(p) # {} /\ Unknown(p) = {}
      BY <2>3, Zenon DEF Ended, Served
    <3> QED
      BY <3>1, <2>1, ServedNeeds, Zenon
  <2> QED
    BY <2>2, <2>3, Zenon DEF Misread, Ended
<1> QED
  BY <1>1, TransferInvariance, PTL

\* No message outlives its transfer.
THEOREM TransferNothingLeft == Spec => []NothingLeft
<1>1. ASSUME TransferInv PROVE NothingLeft
  <2> SUFFICES ASSUME NEW p \in Proc, sender[p].pc = "done", ReceiverEnded(p)
               PROVE  Acks(p) = <<>> /\ InFlight(p) = {}
    BY DEF NothingLeft, Acks
  <2>1. PhaseInv(p)
    BY <1>1 DEF TransferInv
  <2>2. Misread(p) \/ Ended(p)
    BY <2>1, Zenon DEF PhaseInv, Sending, Deciding, Asking, Ending
  <2>3. Idle(p) /\ Acks(p) = <<>>
    BY <2>2, Zenon DEF Misread, Ended
  <2> QED
    BY <2>3 DEF Idle, InFlight
<1> QED
  BY <1>1, TransferInvariance, PTL

-----------------------------------------------------------------------------
(* The transfers implement Delivery *)

have == [p \in Proc |-> Has(p)]
attached == [p \in Proc |-> p \in Active /\ ReceiverEnded(p)]

\* What the abstract transfer may hand over next is what the receiver lacks.
LEMMA MissingIsLacking ==
  ASSUME TransferInv, NEW p \in Active
  PROVE  Abstract!Missing(p) = Lacks(p)
<1>1. TransferTypeOK /\ DataInv(p) /\ p \in Proc
  BY DEF TransferInv, Active
<1>2. Required(p) = (UNION {ParentsOf(n) : n \in Has(p)}) \ Has(p)
  BY <1>1, LacksAncestors
<1>3. have[p] = Has(p)
  BY <1>1 DEF have
<1>4. Abstract!Missing(p) =
        IF have[p] = {} THEN {relrc[p]}
        ELSE (UNION {Range(parents[n]) : n \in have[p]}) \ (have[p] \cup known[p])
  BY DEF Abstract!Missing, have, Has, Abstract!Range, Range
<1> QED
  BY <1>2, <1>3, <1>4, ZenonT(30) DEF Lacks, Unknown, ParentsOf

\* A step of a transfer that hands over nothing and does not end is a stutter.
LEMMA DeliveryStutters ==
  ASSUME UNCHANGED input,
         \A q \in Proc : /\ receiver'[q].all_data = receiver[q].all_data
                         /\ q \in Active => ReceiverEnded(q)' = ReceiverEnded(q)
  PROVE  UNCHANGED <<parents, relrc, known>> /\ have' = have /\ attached' = attached
<1>1. UNCHANGED <<parents, relrc, known>> /\ Active' = Active
  BY InputFrame
<1>2. have' = have
  BY DEF have, Has
<1>3. attached' = attached
  BY <1>1 DEF attached
<1> QED
  BY <1>1, <1>2, <1>3, Zenon

\* No object has been delivered at first.
LEMMA DeliveryInit == Init => Abstract!Init
<1> SUFFICES ASSUME Init PROVE Abstract!Init
  OBVIOUS
<1>1. ASSUME NEW p \in Proc
      PROVE  DOMAIN receiver[p].all_data = {} /\ ~(p \in Active /\ ReceiverEnded(p))
  <2>1. receiver[p] = [parts |-> <<>>, all_data |-> Empty,
                       pc |-> IF p \in Active THEN "recv" ELSE "done"]
    BY Zenon DEF Init
  <2>2. receiver[p].all_data = Empty /\ receiver[p].pc = IF p \in Active THEN "recv" ELSE "done"
    BY <2>1
  <2>3. DOMAIN Empty = {}
    BY DEF Empty
  <2> QED
    BY <2>2, <2>3, Zenon DEF ReceiverEnded
<1> QED
  BY <1>1, Zenon DEF Abstract!Init

\* A step of the transfers delivers an object, attaches the delivered ones, or
\* is not seen by the abstract specification.
LEMMA DeliveryNext ==
  ASSUME TransferInv, [Next]_vars
  PROVE  [Abstract!Next]_<<parents, relrc, known, have, attached>>
<1>1. CASE UNCHANGED vars
  BY <1>1, DeliveryStutters DEF vars, ReceiverEnded
<1>2. ASSUME NEW p \in Proc, Step(p)
      PROVE  [Abstract!Next]_<<parents, relrc, known, have, attached>>
  <2> DEFINE q == Peer(p)
  <2>1. q \in Proc /\ UNCHANGED input
    BY <1>2, PeerType, ZenonT(30) DEF Step, Send, ReceiveAck, Receive, Request, SendDone, Attach, Pending
  <2>2. CASE UNCHANGED receiver
    BY <2>1, <2>2, DeliveryStutters, Zenon DEF ReceiverEnded
  <2>3. ASSUME \A r \in Proc \ {q} : receiver'[r] = receiver[r],
               receiver'[q].all_data = receiver[q].all_data,
               receiver[q].pc \in {"recv", "next"}, receiver'[q].pc \in {"recv", "next", "attach"}
        PROVE  [Abstract!Next]_<<parents, relrc, known, have, attached>>
    BY <2>1, <2>3, DeliveryStutters DEF ReceiverEnded
  <2>4. TransferTypeOK /\ receiver \in [Proc -> ReceiverType]
    BY DEF TransferInv, TransferTypeOK
  <2> HIDE DEF q
  <2>5. CASE Receive(q)
    <3>1. (\A r \in Proc \ {q} : receiver'[r] = receiver[r]) /\ receiver[q].pc = "recv"
          /\ q \in Active /\ Active' = Active /\ UNCHANGED <<parents, relrc, known>>
      <4>1. \A r \in Proc \ {q} : receiver'[r] = receiver[r]
        BY <2>4, <2>5, ZenonT(30) DEF Receive
      <4> QED
        BY <4>1, <2>1, <2>5, PhaseFacts, InputFrame DEF Receive
    <3>2. CASE receiver'[q].all_data = receiver[q].all_data /\ receiver'[q].pc = "recv"
      BY <2>3, <3>1, <3>2
    <3>3. CASE receiver'[q].pc = "next" /\ \E n \in Lacks(q) : Has(q)' = Has(q) \cup {n}
      <4>1. PICK n \in Lacks(q) : Has(q)' = Has(q) \cup {n}
        BY <3>3
      <4>2. n \in Abstract!Missing(q)
        BY <3>1, <4>1, MissingIsLacking
      <4>3. have' = [have EXCEPT ![q] = have[q] \cup {n}]
        BY <2>1, <3>1, <4>1, ZenonT(30) DEF have, Has
      <4>4. ~attached[q] /\ attached' = attached
        BY <2>1, <3>1, <3>3, Zenon DEF attached, ReceiverEnded
      <4>5. Abstract!Transfer(q)
        BY <4>2, <4>3, <4>4, ZenonT(30) DEF Abstract!Transfer, have, attached, Has
      <4> QED
        BY <2>1, <3>1, <4>5 DEF Abstract!Next, Abstract!input
    <3> QED
      BY <2>1, <2>5, <3>2, <3>3, ReceiveStep, ZenonT(30)
  <2>6. CASE Request(q)
    <3>1. (\A r \in Proc \ {q} : receiver'[r] = receiver[r]) /\ receiver[q].pc = "next"
      BY <2>4, <2>6 DEF Request
    <3> QED
      BY <2>1, <2>3, <2>6, <3>1, RequestStep
  <2>7. CASE SendDone(q)
    <3>1. (\A r \in Proc \ {q} : receiver'[r] = receiver[r]) /\ receiver[q].pc = "next"
      BY <2>4, <2>7 DEF SendDone
    <3> QED
      BY <2>1, <2>3, <2>7, <3>1, SendDoneStep
  <2>8. CASE Attach(q)
    <3>1. (\A r \in Proc \ {q} : receiver'[r] = receiver[r]) /\ receiver[q].pc = "attach"
      BY <2>4, <2>8, Zenon DEF Attach
    <3>2. /\ receiver'[q].pc \in {"done", "panic"} /\ receiver'[q].all_data = receiver[q].all_data
          /\ q \in Active /\ Has(q) # {} /\ Unknown(q) = {}
          /\ Active' = Active /\ UNCHANGED <<parents, relrc, known>>
      BY <2>1, <2>8, AttachStep, InputFrame, Zenon
    <3>3. Abstract!Missing(q) = {}
      BY <3>2, MissingIsLacking, Zenon DEF Lacks
    <3>4. have' = have
      BY <3>1, <3>2 DEF have, Has
    <3>5. ~attached[q] /\ attached' = [attached EXCEPT ![q] = TRUE]
      BY <2>1, <3>1, <3>2, Zenon DEF attached, ReceiverEnded
    <3>6. Abstract!Attach(q)
      BY <3>3, <3>4, <3>5, Zenon DEF Abstract!Attach, have, attached, Has
    <3> QED
      BY <2>1, <3>2, <3>6 DEF Abstract!Next, Abstract!input
  <2> QED
    BY <1>2, <2>2, <2>5, <2>6, <2>7, <2>8, ZenonT(30) DEF Step, Send, ReceiveAck, Pending, q
<1> QED
  BY <1>1, <1>2, ZenonT(30) DEF Next

\* Each transfer hands over the object and then the ancestors that the receiver
\* lacks, one by one and none twice (the documentation of send_relrc).
THEOREM TransferDelivers == Spec => Delivers
<1>1. ASSUME TransferInv, [Next]_vars
      PROVE  [Abstract!Next]_<<Abstract!input, [p \in Proc |-> DOMAIN receiver[p].all_data],
                               [p \in Proc |-> p \in Active /\ ReceiverEnded(p)]>>
  BY <1>1, DeliveryNext DEF have, attached, Has, Abstract!input
<1> QED
  BY <1>1, DeliveryInit, TransferInvariance, PTL DEF Spec, Delivers, Abstract!Spec

=============================================================================
