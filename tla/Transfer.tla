------------------------------ MODULE Transfer ------------------------------
(***************************************************************************)
(* The transfer of RelRc objects between two processes over MPI            *)
(* (src/src/detached/mpi.rs, mpi/send_recv.rs, mpi/msg_types.rs).          *)
(*                                                                         *)
(* There is one transfer per direction at most, named by its sender.  The  *)
(* sender of p is the future send_relrc that process p runs, the receiver  *)
(* of p the future recv_relrc that the other process runs.  A process has  *)
(* one thread.  It runs one future until that ends, or until a receive in  *)
(* MPIMode::Async finds no message; all other receives, and a send that    *)
(* MPI does not buffer, block the thread.                                  *)
(*                                                                         *)
(* An object is named by its hash.  MPI keeps the order of the messages    *)
(* with one source, destination and tag, and loses none.                   *)
(***************************************************************************)
EXTENDS Histories

CONSTANT Programs   \* what the two processes may do

Proc == {1, 2}
Peer(p) == 3 - p

\* MPIMessageTag
DataTag == {"RelRc", "NodeWeight", "IncomingEdge", "EdgeWeight"}
Tag == DataTag \cup {"Ack"}

\* A program: the object that each process sends (0 if none), the future that
\* each runs first, and the processes that receive in MPIMode::Async
ASSUME ProgramsAssumption ==
  Programs \subseteq
    [sends : [Proc -> 0 .. N], first : [Proc -> {"send", "recv"}], async : SUBSET Proc]

VARIABLES
  known,        \* known[p]: the hashes in attach_to of the receiver of p
  zero,         \* the object whose hash is 0; 0 if there is none
  program,      \* which objects are sent, what each process calls first, and
                \* who receives in async mode
  turn,         \* turn[p]: the future that the thread of p is in: send or recv
  blocked,      \* blocked[p]: the tag of the send that p waits for; Null if none
  chan,         \* chan[p][t]: the messages from p with tag t that are on their way
  sender,       \* sender[p]: what send_relrc has yet to send, and how it stands
  receiver      \* receiver[p]: what recv_relrc of p's object has received

input == <<parents, known, zero, program>>
vars == <<input, turn, blocked, chan, sender, receiver>>

Null == "none"

-----------------------------------------------------------------------------
(* Messages *)

\* Mutant: one edge weight too many.
MessagesPadded(n) ==
  <<[tag |-> "RelRc", body |-> n],
    [tag |-> "NodeWeight", body |-> n],
    [tag |-> "IncomingEdge", body |-> parents[n]]>>
  \o [i \in 1 .. Len(parents[n]) + 1 |-> [tag |-> "EdgeWeight", body |-> <<n, i>>]]

\* mpi_send: the messages that make up the object n, with its value and the
\* values of its edges
Messages(n) ==
  <<[tag |-> "RelRc", body |-> n],
    [tag |-> "NodeWeight", body |-> n],
    [tag |-> "IncomingEdge", body |-> parents[n]]>>
  \o [i \in DOMAIN parents[n] |-> [tag |-> "EdgeWeight", body |-> <<n, i>>]]

\* The tag of the message that mpi_recv is waiting for, after the ones in parts
Expected(parts) ==
  IF Len(parts) < 3 THEN <<"RelRc", "NodeWeight", "IncomingEdge">>[Len(parts) + 1]
  ELSE "EdgeWeight"

\* mpi_recv has all messages of an object.
Whole(parts) == Len(parts) >= 3 /\ Len(parts) = 3 + Len(parts[3])

\* Mutant: the weights are paired with the edges from the last one on.
InnerDataReversed(parts) ==
  [value |-> parts[2],
   incoming |-> [i \in DOMAIN parts[3] |-> <<parts[3][i], parts[Len(parts) + 1 - i]>>]]

\* DetachedInnerData, put together by mpi_recv: each edge with its value
InnerData(parts) ==
  [value |-> parts[2],
   incoming |-> [i \in DOMAIN parts[3] |-> <<parts[3][i], parts[3 + i]>>]]

\* MPIAck: RequestRelRc(n) is the hash of n, and Done is 0.
Encode(n) == IF n = zero THEN 0 ELSE n

-----------------------------------------------------------------------------
(* The initial states *)

\* The processes that send, and the object that each of them sends
Active == {p \in Proc : program.sends[p] # 0}
relrc == program.sends

\* send_relrc has detached the object and is about to send it.
Start(p) == [out |-> Messages(relrc[p]), pc |-> "run"]

Empty == [n \in {} |-> <<>>]

\* The objects that the transfers are about; others do not matter.
Relevant == UNION {Ancestors(relrc[p]) : p \in Active}

Init ==
  /\ parents \in Histories
  /\ program \in Programs
  /\ \A n \in Node \ Relevant : parents[n] = <<>>
  /\ known \in [Proc -> SUBSET Relevant]
  /\ \A p \in Proc \ Active : known[p] = {}
  /\ zero \in Relevant \cup {0}
  /\ turn = program.first
  /\ blocked = [p \in Proc |-> Null]
  /\ chan = [p \in Proc |-> [t \in Tag |-> <<>>]]
  /\ sender = [p \in Proc |->
                 IF p \in Active THEN Start(p) ELSE [out |-> <<>>, pc |-> "done"]]
  /\ receiver = [p \in Proc |->
                   [parts |-> <<>>, all_data |-> Empty,
                    pc |-> IF p \in Active THEN "recv" ELSE "done"]]

-----------------------------------------------------------------------------
(* Threads and messages *)

\* The thread of p is in the future f and not held up by a send.
Runs(p, f) ==
  /\ turn[p] = f
  /\ blocked[p] # Null => chan[p][blocked[p]] = <<>>

\* MPISendRecv::send: a standard send returns at once, or when the message is
\* received, as MPI chooses; a buffered send returns at once.
SendTag(p, t, body) ==
  /\ chan' = [chan EXCEPT ![p][t] = Append(@, body)]
  /\ \E b \in {Null, t} : blocked' = [blocked EXCEPT ![p] = b]

\* Mutant: the message is probed and stays.
TakeNone(p, t) == chan[p][t] # <<>> /\ UNCHANGED <<chan, blocked>>

\* MPISendRecv::receive has found a message of p with tag t.
Take(p, t) ==
  /\ chan[p][t] # <<>>
  /\ chan' = [chan EXCEPT ![p][t] = Tail(@)]
  /\ UNCHANGED blocked

\* ReceiveMessageFuture::poll returns Pending: the receiver of p's object has no
\* message to take, and the thread goes on with its other future.
Pending(p) ==
  LET q == Peer(p) IN
  /\ Runs(q, "recv")
  /\ q \in program.async
  /\ receiver[p].pc = "recv"
  /\ chan[p][Expected(receiver[p].parts)] = <<>>
  /\ sender[q].pc = "run"
  /\ turn' = [turn EXCEPT ![q] = "send"]
  /\ UNCHANGED <<input, blocked, chan, sender, receiver>>

-----------------------------------------------------------------------------
(* send_relrc *)

\* The next message of mpi_send
Send(p) ==
  /\ Runs(p, "send")
  /\ sender[p].out # <<>>
  /\ SendTag(p, Head(sender[p].out).tag, Head(sender[p].out).body)
  /\ sender' = [sender EXCEPT ![p].out = Tail(@)]
  /\ UNCHANGED <<input, turn, receiver>>

\* detached.all_data of an object that is detached from nothing (Detached)
Detached(p) == Ancestors(relrc[p])

\* Mutant: the first request is the last.
ReceiveAckOnce(p) ==
  LET ack == Head(chan[Peer(p)]["Ack"]) IN
  /\ Runs(p, "send")
  /\ sender[p].pc = "run" /\ sender[p].out = <<>>
  /\ Take(Peer(p), "Ack")
  /\ sender' = [sender EXCEPT ![p] =
       [out |-> IF ack = 0 THEN <<>> ELSE Messages(ack), pc |-> "done"]]
  /\ UNCHANGED <<input, receiver, turn>>

\* The loop of send_relrc: the next acknowledgement is Done, and the future ends;
\* or a request, and the object is sent.
ReceiveAck(p) ==
  LET ack == Head(chan[Peer(p)]["Ack"]) IN
  /\ Runs(p, "send")
  /\ sender[p].pc = "run" /\ sender[p].out = <<>>
  /\ Take(Peer(p), "Ack")
  /\ \/ ack = 0 /\ sender' = [sender EXCEPT ![p].pc = "done"] /\ turn' = [turn EXCEPT ![p] = "recv"]
     \/ ack \in Detached(p) /\ sender' = [sender EXCEPT ![p].out = Messages(ack)] /\ UNCHANGED turn
     \/ ack \notin Detached(p) \cup {0} /\ sender' = [sender EXCEPT ![p].pc = "panic"] /\ UNCHANGED turn
  /\ UNCHANGED <<input, receiver>>

-----------------------------------------------------------------------------
(* recv_relrc *)

\* detached.all_data of the receiver with the object made of parts
Inserted(p, parts) ==
  [n \in DOMAIN receiver[p].all_data \cup {parts[1]} |->
     IF n = parts[1] THEN InnerData(parts) ELSE receiver[p].all_data[n]]

\* mpi_recv takes the next message of the object.  With the last one it returns,
\* and the object is inserted.
Receive(p) ==
  LET t == Expected(receiver[p].parts) IN
  /\ Runs(Peer(p), "recv")
  /\ receiver[p].pc = "recv"
  /\ Take(p, t)
  /\ LET parts == Append(receiver[p].parts, Head(chan[p][t])) IN
     receiver' = [receiver EXCEPT ![p] =
       IF Whole(parts) THEN [parts |-> <<>>, all_data |-> Inserted(p, parts), pc |-> "next"]
       ELSE [@ EXCEPT !.parts = parts]]
  /\ UNCHANGED <<input, turn, sender>>

\* Detached::required_hashes
Required(p) ==
  LET data == receiver[p].all_data IN
  (UNION {{data[n].incoming[i][1] : i \in DOMAIN data[n].incoming} : n \in DOMAIN data})
    \ DOMAIN data

\* Mutant: an object is asked for although it is known.
UnknownAll(p) == Required(p)

\* The required objects that attach_to lacks.  Which one is requested depends on
\* the order of the hashes.
Unknown(p) == Required(p) \ known[p]

\* The loop of recv_relrc goes on: another object is requested ...
Request(p) ==
  /\ Runs(Peer(p), "recv")
  /\ receiver[p].pc = "next"
  /\ \E n \in Unknown(p) : SendTag(Peer(p), "Ack", Encode(n))
  /\ receiver' = [receiver EXCEPT ![p].pc = "recv"]
  /\ UNCHANGED <<input, turn, sender>>

\* Mutant: Done is not sent.
SendDoneNot(p) ==
  /\ Runs(Peer(p), "recv")
  /\ receiver[p].pc = "next"
  /\ Unknown(p) = {}
  /\ receiver' = [receiver EXCEPT ![p].pc = "attach"]
  /\ UNCHANGED <<input, turn, sender, chan, blocked>>

\* ... or ends, and Done is sent.
SendDone(p) ==
  /\ Runs(Peer(p), "recv")
  /\ receiver[p].pc = "next"
  /\ Unknown(p) = {}
  /\ SendTag(Peer(p), "Ack", 0)
  /\ receiver' = [receiver EXCEPT ![p].pc = "attach"]
  /\ UNCHANGED <<input, turn, sender>>

\* How RelRc::attach may end: it may fail though all objects are there (AttachPanics).
AttachEnds(p) ==
  {"done"} \cup
    IF relrc[p] \notin known[p] /\ Tangled(DOMAIN receiver[p].all_data, known[p])
    THEN {"panic"} ELSE {}

\* When the send of Done has returned the object is attached, and recv_relrc returns.
Attach(p) ==
  /\ Runs(Peer(p), "recv")
  /\ receiver[p].pc = "attach"
  /\ \E end \in AttachEnds(p) :
       /\ receiver' = [receiver EXCEPT ![p].pc = end]
       /\ turn' = [turn EXCEPT ![Peer(p)] = IF end = "done" THEN "send" ELSE @]
  /\ UNCHANGED <<input, blocked, chan, sender>>

-----------------------------------------------------------------------------

\* The steps of the thread of p
Step(p) ==
  \/ Send(p) \/ ReceiveAck(p)
  \/ Receive(Peer(p)) \/ Request(Peer(p)) \/ SendDone(Peer(p)) \/ Attach(Peer(p))
  \/ Pending(Peer(p))

Next == \E p \in Proc : Step(p)

Spec == Init /\ [][Next]_vars

\* A thread that is not held up by MPI goes on.
FairSpec == Spec /\ \A p \in Proc : WF_vars(Step(p))

-----------------------------------------------------------------------------
(* Properties *)

\* The objects arrive as they were sent: the value and each edge with its source
\* and its own value, though they travel in messages of their own, and though
\* transfers in both directions overlap.
DataIntact ==
  \A p \in Proc : \A n \in DOMAIN receiver[p].all_data :
    /\ n \in Ancestors(relrc[p])
    /\ receiver[p].all_data[n] =
         [value |-> n, incoming |-> [i \in DOMAIN parents[n] |-> <<parents[n][i], <<n, i>>>>]]

ReceiverEnded(p) == receiver[p].pc \in {"done", "panic"}

InFlight(p) == {t \in DataTag : chan[p][t] # <<>>}

\* The two ends of a transfer take turns: while parts of an object are on their
\* way no acknowledgement is, and there is one acknowledgement at most.  So
\* each answer is the answer to what its reader sent last.
TakesTurns ==
  \A p \in Proc :
    LET acks == chan[Peer(p)]["Ack"] IN
    /\ Len(acks) <= 1
    /\ acks # <<>> => sender[p].out = <<>> /\ InFlight(p) = {} /\ receiver[p].parts = <<>>

\* The receiver waits for an object whose hash is 0.  Its request reads as Done.
AskedForZero(p) == zero \in Unknown(p)

\* What the receiver has to be sent: the object, and what lies behind its parents
\* up to the objects of attach_to.
Needed(p) == {relrc[p]} \cup UNION {Upto(n, known[p]) : n \in ParentsOf(relrc[p])}

\* send_relrc is never asked for an object it has not, and when it returns it has
\* served the receiver: that one has all it needs to attach the object, and no more.
\* It need not have attached it yet, and may still panic when it does.  The one
\* exception is a request for the hash 0, on which send_relrc returns although the
\* receiver waits for the object.
SenderServes ==
  \A p \in Active :
    /\ sender[p].pc # "panic"
    /\ sender[p].pc = "done" =>
         \/ receiver[p].pc \in {"attach", "done", "panic"} /\ DOMAIN receiver[p].all_data = Needed(p)
         \/ receiver[p].pc = "recv" /\ AskedForZero(p)

\* When both ends of a transfer have returned no message of it is left that a
\* later transfer between the two processes could take for its own.
NothingLeft ==
  \A p \in Proc :
    sender[p].pc = "done" /\ ReceiverEnded(p) =>
      chan[Peer(p)]["Ack"] = <<>> /\ InFlight(p) = {}

Abstract ==
  INSTANCE Delivery WITH
    have <- [p \in Proc |-> DOMAIN receiver[p].all_data],
    attached <- [p \in Proc |-> p \in Active /\ ReceiverEnded(p)]

\* Each transfer does what the documentation of the protocol says: the object,
\* then the ancestors that the receiver lacks, one by one and none twice.
Delivers == Abstract!Spec

\* Every transfer comes to its end, unless a request is taken for Done or attach
\* panics.
Delivered ==
  <>(\/ \A p \in Proc : sender[p].pc = "done" /\ receiver[p].pc = "done"
     \/ \E p \in Proc : receiver[p].pc = "panic"
     \/ \E p \in Proc : sender[p].pc = "done" /\ AskedForZero(p))

=============================================================================
