---------------------------- MODULE BusMessages ----------------------------
(* What holds of the messages on the bus, while its oldest client stays: for *)
(* any number of clients, queues and messages.                              *)
EXTENDS BusRouting

---------------------------------------------------------------------------
(* Messages on their way.                                                   *)

(* Task t is about to put message id into the queue of client c.            *)
Entering(t, id, c) == At(t, "enqueue") /\ out[t] = id /\ dest[t] = m_queue[c]

(* A queue that was resolved is that of a connected target until it is      *)
(* sent to.                                                                 *)
EntersTarget ==
  \A t \in Clients : At(t, "enqueue") =>
    \E c \in Clients :
      /\ dest[t] = m_queue[c]
      /\ m_addr[c] # BusAddrInvalid
      /\ m_addr[c] \in Elements(msgs[out[t]].targets)

TargetsLeft ==
  \A id \in DOMAIN msgs : Elements(msgs[id].destination) \subseteq Elements(msgs[id].targets)

TargetInv == EntersTarget /\ TargetsLeft /\ ~undef

(* The pointer to a message is in one queue, at one place of it, or with    *)
(* one task.                                                                *)
OneSlot ==
  /\ \A q \in Queues : Distinct(fifo[q])
  /\ \A q, r \in Queues : \A id \in Elements(fifo[q]) : id \in Elements(fifo[r]) => q = r
  /\ \A q \in Queues, c \in Clients :
       out[c] \notin Elements(fifo[q]) /\ hand[c] \notin Elements(fifo[q])
  /\ \A c, d \in Clients :
       /\ out[c] # 0 => out[c] # hand[d] /\ (out[c] = out[d] => c = d)
       /\ hand[c] # 0 /\ hand[c] = hand[d] => c = d

Owned(id) ==
  \/ \E q \in Queues : id \in Elements(fifo[q])
  \/ \E c \in Clients : out[c] = id \/ hand[c] = id

(* A queue that does not exist holds nothing, and one that is about to be   *)
(* deleted holds nothing any more.                                          *)
DeadQueuesEmpty ==
  /\ \A q \in Queues \ live : fifo[q] = <<>>
  /\ \A c \in Clients : pc[c] = "delete" => fifo[m_queue[c]] = <<>>

(* A task owns a message exactly while it is inside sendToNextClient.       *)
Sending == {"forward", "enqueue"}
SendersOwn == \A c \in Clients : out[c] = 0 <=> pc[c] \notin Sending

(* A message is gone for good once it is lost, and otherwise once there is  *)
(* nothing left to do for it.                                               *)
LostGone == \A id \in lost : id \in DOMAIN msgs /\ ~Owned(id)
NoneForgotten ==
  \A id \in DOMAIN msgs : Owned(id) \/ id \in lost \/ msgs[id].destination = <<>>

OwnerInv == OneSlot /\ DeadQueuesEmpty /\ SendersOwn /\ LostGone /\ NoneForgotten

(* Addresses that lists and messages mention were handed out before.        *)
AddressesKnown ==
  /\ \A g \in DOMAIN m_groups : Elements(m_groups[g].destination) \subseteq m_addrLast .. -1
  /\ \A id \in DOMAIN msgs : Elements(msgs[id].targets) \subseteq m_addrLast .. -1
  /\ \A c \in Clients : At(c, "send") /\ arg[c] < 0 => arg[c] \in m_addrLast .. -1

(* A message that has not reached a connected target still goes there.      *)
StillComes ==
  \A id \in DOMAIN msgs \ lost, c \in Clients :
    m_addr[c] # BusAddrInvalid /\ m_addr[c] \in Elements(msgs[id].targets) =>
      \/ id \in Elements(got[c])
      \/ m_addr[c] \in Elements(msgs[id].destination)
      \/ id \in Elements(fifo[m_queue[c]])
      \/ \E t \in Clients : Entering(t, id, c)

DeliveryInv == AddressesKnown /\ StillComes

---------------------------------------------------------------------------
(* What a step does to messages and to the other tasks.                     *)

Step(c) == Begin(c) \/ Proceed(c) \/ TryReceive(c) \/ FinishReceive(c)

(* The variables of one task, and the object it drives.                     *)
SameTask(d) ==
  /\ pc'[d] = pc[d] /\ ret'[d] = ret[d] /\ arg'[d] = arg[d]
  /\ out'[d] = out[d] /\ dest'[d] = dest[d] /\ hand'[d] = hand[d]
  /\ m_queue'[d] = m_queue[d] /\ m_addr'[d] = m_addr[d] /\ got'[d] = got[d]

(* A task changes no other task's variables.                                *)
LEMMA OthersKeep ==
  ASSUME TypeInv, NEW c \in Clients, Step(c), NEW d \in Clients, d # c
  PROVE  SameTask(d)
<1> USE DEF TypeInv, TypeOK, TaskOK, ObjectOK, MessageOK, Goto, object, local, history
<1> HIDE DEF SameTask
<1>1. CASE CreateQueue(c) \/ Reconnect(c) \/ Construct(c)
  BY <1>1 DEF CreateQueue, Reconnect, Construct, SameTask
<1>2. CASE Disconnect(c) \/ Destroy(c)
  BY <1>2 DEF Disconnect, Destroy, Unregister, SameTask
<1>3. CASE \E n \in Names : JoinName(c, n) \/ LeaveName(c, n) \/ SendName(c, n)
  BY <1>3 DEF JoinName, LeaveName, SendName, SameTask
<1>4. CASE \E to \in m_addrLast .. -1 : SendAddr(c, to)
  BY <1>4 DEF SendAddr, SameTask
<1>5. CASE Connect(c)
  BY <1>5 DEF Connect, SameTask
<1>6. CASE JoinAddr(c) \/ LeaveAddr(c)
  BY <1>6 DEF JoinAddr, LeaveAddr, SameTask
<1>7. CASE Drained(c) \/ DeleteQueue(c) \/ Drain(c)
  BY <1>7 DEF Drained, DeleteQueue, Drain, SameTask
<1>8. CASE BuildMsg(c) \/ ForwardDone(c)
  BY <1>8 DEF BuildMsg, ForwardDone, SameTask
<1>9. CASE ResolveNext(c)
  BY <1>9 DEF ResolveNext, SameTask
<1>10. CASE Enqueue(c)
  BY <1>10 DEF Enqueue, SameTask
<1>11. CASE TryReceive(c) \/ FinishReceive(c)
  BY <1>11 DEF TryReceive, FinishReceive, SameTask
<1> QED
  BY <1>1, <1>2, <1>3, <1>4, <1>5, <1>6, <1>7, <1>8, <1>9, <1>10, <1>11 DEF Step, Begin, Proceed

(* A step that does not touch any message: connecting, grouping, beginning  *)
(* a call, or deleting a queue with nothing in it.                          *)
Quiet(c) ==
  /\ UNCHANGED <<out, dest, hand, msgs, lost>>
  /\ pc[c] \notin Sending /\ pc'[c] \notin Sending
  /\ \/ fifo' = fifo
     \/ \E q \in Queues :
          /\ q \notin live \/ (pc[c] = "delete" /\ q = m_queue[c])
          /\ fifo' = [fifo EXCEPT ![q] = <<>>]
  /\ pc'[c] = "delete" => Drained(c)
  /\ got' = got \/ (pc[c] = "dead" /\ got' = [got EXCEPT ![c] = <<>>])

(* Every step is one of these.                                              *)
LEMMA StepKinds ==
  ASSUME TypeInv, NEW c \in Clients, Step(c)
  PROVE  \/ Quiet(c)
         \/ BuildMsg(c) /\ msgs' # msgs
         \/ ForwardDone(c) \/ ResolveNext(c) \/ Enqueue(c)
         \/ TryReceive(c) \/ FinishReceive(c) \/ Drain(c)
<1> USE DEF TypeInv, TypeOK, TaskOK, ObjectOK, Goto, At, object, heap, local, history, Sending
<1> HIDE DEF Quiet
<1>1. CASE CreateQueue(c)
  BY <1>1 DEF CreateQueue, Quiet
<1>2. CASE Reconnect(c) \/ Construct(c)
  BY <1>2 DEF Reconnect, Construct, Quiet
<1>3. CASE Disconnect(c) \/ Destroy(c)
  BY <1>3 DEF Disconnect, Destroy, Quiet
<1>4. CASE \E n \in Names : JoinName(c, n) \/ LeaveName(c, n) \/ SendName(c, n)
  BY <1>4 DEF JoinName, LeaveName, SendName, Quiet
<1>5. CASE \E to \in m_addrLast .. -1 : SendAddr(c, to)
  BY <1>5 DEF SendAddr, Quiet
<1>6. CASE Connect(c) \/ Drained(c)
  BY <1>6 DEF Connect, Drained, Quiet
<1>7. CASE JoinAddr(c) \/ LeaveAddr(c)
  BY <1>7 DEF JoinAddr, LeaveAddr, Quiet
<1>8. CASE DeleteQueue(c)
  <2>1. m_queue[c] \in Queues
    BY <1>8 DEF DeleteQueue, InCall
  <2> QED
    BY <1>8, <2>1 DEF DeleteQueue, Quiet
<1>9. CASE BuildMsg(c)
  BY <1>9 DEF BuildMsg, Quiet
<1> QED
  BY <1>1, <1>2, <1>3, <1>4, <1>5, <1>6, <1>7, <1>8, <1>9 DEF Step, Begin, Proceed

(* What SubSeq keeps of the front of a list.                                *)
LEMMA Prefix ==
  ASSUME NEW S, NEW s \in Seq(S), NEW n \in 1 .. Len(s)
  PROVE  /\ DOMAIN s = 1 .. Len(s) /\ Len(s) \in Nat
         /\ DOMAIN SubSeq(s, 1, n - 1) = 1 .. n - 1
         /\ \A i \in 1 .. n - 1 : SubSeq(s, 1, n - 1)[i] = s[i]
<1>1. SubSeq(s, 1, n - 1) = [i \in 1 .. n - 1 |-> s[i]]
  OBVIOUS
<1> QED
  BY <1>1

(* The parts of a message.                                                  *)
LEMMA MessageParts ==
  ASSUME TypeInv, NEW id \in DOMAIN msgs
  PROVE  msgs[id].destination \in Seq(Int) /\ msgs[id].targets \in Seq(Int)
<1>1. id \in 1 .. Len(msgs) /\ msgs \in Seq(Message)
  BY DEF TypeInv, TypeOK, MessageOK
<1>2. msgs[id] \in Message
  BY <1>1, ElementOfSeq
<1> QED
  BY <1>2 DEF Message

(* send(addr) adds a message at the end.                                    *)
LEMMA Building ==
  ASSUME TypeInv, NEW c \in Clients, BuildMsg(c), msgs' # msgs
  PROVE  /\ Destination(arg[c]) \in Seq(Int) /\ Destination(arg[c]) # <<>>
         /\ Len(msgs) \in Nat /\ DOMAIN msgs = 1 .. Len(msgs)
         /\ DOMAIN msgs' = 1 .. Len(msgs) + 1
         /\ \A id \in DOMAIN msgs : msgs'[id] = msgs[id]
         /\ msgs'[Len(msgs) + 1].targets = Destination(arg[c])
         /\ msgs'[Len(msgs) + 1].destination = Destination(arg[c])
         /\ out' = [out EXCEPT ![c] = Len(msgs) + 1] /\ pc' = [pc EXCEPT ![c] = "forward"]
<1> USE DEF TypeInv, TypeOK, TaskOK
<1> DEFINE list == Destination(arg[c])
           new == [from |-> m_addr[c], to |-> arg[c], destination |-> list, targets |-> list]
<1>1. list \in Seq(Int)
  BY DestinationType
<1>2. /\ list # <<>> /\ msgs' = Append(msgs, new)
      /\ out' = [out EXCEPT ![c] = Len(msgs) + 1] /\ pc' = [pc EXCEPT ![c] = "forward"]
  BY DEF BuildMsg, Goto
<1>3. msgs \in Seq(Message)
  BY DEF MessageOK
<1>4. new.targets = list /\ new.destination = list
  OBVIOUS
<1>5. new \in Message
  BY <1>1 DEF Message, ObjectOK
<1> HIDE DEF new, list
<1>6. /\ Len(msgs) \in Nat /\ DOMAIN msgs = 1 .. Len(msgs) /\ DOMAIN msgs' = 1 .. Len(msgs) + 1
      /\ \A id \in 1 .. Len(msgs) : msgs'[id] = msgs[id]
      /\ msgs'[Len(msgs) + 1] = new
  BY <1>2, <1>3, <1>5, AppendProperties
<1> QED
  BY <1>1, <1>2, <1>4, <1>6 DEF list

(* sendToNextClient shortens the list of the message the task owns: to       *)
(* nothing, or to what comes before the last address that resolves.         *)
LEMMA Resolving ==
  ASSUME TypeInv, NEW c \in Clients, ResolveNext(c)
  PROVE  LET id   == out[c]
             list == msgs[id].destination
             n    == Final(Valid(list))
         IN  /\ id \in DOMAIN msgs /\ list \in Seq(Int) /\ DOMAIN msgs' = DOMAIN msgs
             /\ \A j \in DOMAIN msgs : j # id => msgs'[j] = msgs[j]
             /\ msgs'[id].targets = msgs[id].targets
             /\ \/ /\ Valid(list) = {} /\ msgs'[id].destination = <<>>
                   /\ out' = [out EXCEPT ![c] = 0] /\ pc' = [pc EXCEPT ![c] = ret[c]]
                   /\ UNCHANGED dest
                \/ /\ Valid(list) # {} /\ n \in Valid(list) /\ n \in 1 .. Len(list)
                   /\ \A j \in Valid(list) : j <= n
                   /\ msgs'[id].destination = SubSeq(list, 1, n - 1)
                   /\ dest' = [dest EXCEPT ![c] = Resolve(list[n])]
                   /\ pc' = [pc EXCEPT ![c] = "enqueue"] /\ UNCHANGED out
<1> DEFINE id == out[c]
           list == msgs[id].destination
           n == Final(Valid(list))
<1>1. pc[c] = "forward"
  BY DEF ResolveNext, At
<1>2. id \in DOMAIN msgs /\ id \in 1 .. Len(msgs) /\ list \in Seq(Int)
  BY <1>1, OutMessage
<1>3. msgs[id] \in Message /\ msgs \in Seq(Message)
  BY <1>2, ElementOfSeq DEF TypeInv, TypeOK, MessageOK
<1>4. \/ /\ Valid(list) = {} /\ msgs' = [msgs EXCEPT ![id].destination = <<>>]
         /\ out' = [out EXCEPT ![c] = 0] /\ pc' = [pc EXCEPT ![c] = ret[c]]
         /\ UNCHANGED dest
      \/ /\ Valid(list) # {} /\ msgs' = [msgs EXCEPT ![id].destination = SubSeq(list, 1, n - 1)]
         /\ dest' = [dest EXCEPT ![c] = Resolve(list[n])]
         /\ pc' = [pc EXCEPT ![c] = "enqueue"] /\ UNCHANGED out
  BY DEF ResolveNext, Popped, Goto
<1>5. ASSUME NEW new, msgs' = [msgs EXCEPT ![id].destination = new]
      PROVE  /\ DOMAIN msgs' = DOMAIN msgs
             /\ \A j \in DOMAIN msgs : j # id => msgs'[j] = msgs[j]
             /\ msgs'[id].targets = msgs[id].targets /\ msgs'[id].destination = new
  BY <1>2, <1>3, <1>5 DEF Message
<1>6. Valid(list) # {} =>
        n \in Valid(list) /\ n \in 1 .. Len(list) /\ \A j \in Valid(list) : j <= n
  <2>1. Valid(list) \subseteq 1 .. Len(list)
    BY <1>2 DEF Valid
  <2>2. Len(list) \in Nat
    BY <1>2
  <2> HIDE DEF list
  <2>3. Valid(list) # {} => n \in Valid(list) /\ \A j \in Valid(list) : j <= n
    BY <2>1, <2>2, FinalIsGreatest
  <2> QED
    BY <2>1, <2>3
<1> HIDE DEF id, list, n
<1>7. /\ id \in DOMAIN msgs /\ list \in Seq(Int) /\ DOMAIN msgs' = DOMAIN msgs
      /\ \A j \in DOMAIN msgs : j # id => msgs'[j] = msgs[j]
      /\ msgs'[id].targets = msgs[id].targets
  BY <1>2, <1>4, <1>5
<1>8. CASE Valid(list) = {}
  BY <1>4, <1>5, <1>7, <1>8 DEF id, list, n
<1>9. CASE Valid(list) # {}
  BY <1>4, <1>5, <1>6, <1>7, <1>9 DEF id, list, n
<1> QED
  BY <1>8, <1>9

(* Messages keep the list they were built with, and the list of what is     *)
(* left only gets shorter.                                                  *)
LEMMA MessagesKeep ==
  ASSUME TypeInv, NEW c \in Clients, Step(c)
  PROVE  /\ DOMAIN msgs \subseteq DOMAIN msgs'
         /\ \A id \in DOMAIN msgs :
              /\ msgs'[id].targets = msgs[id].targets
              /\ Elements(msgs'[id].destination) \subseteq Elements(msgs[id].destination)
         /\ DOMAIN msgs' = DOMAIN msgs \/ (BuildMsg(c) /\ msgs' # msgs)
<1>1. CASE msgs' = msgs
  BY <1>1
<1>2. CASE BuildMsg(c) /\ msgs' # msgs
  BY <1>2, Building
<1>3. CASE ResolveNext(c)
  <2> DEFINE id == out[c]
             list == msgs[id].destination
             n == Final(Valid(list))
  <2>1. /\ id \in DOMAIN msgs /\ list \in Seq(Int) /\ DOMAIN msgs' = DOMAIN msgs
        /\ \A j \in DOMAIN msgs : j # id => msgs'[j] = msgs[j]
        /\ msgs'[id].targets = msgs[id].targets
    BY <1>3, Resolving
  <2>2. \/ msgs'[id].destination = <<>>
        \/ n \in 1 .. Len(list) /\ msgs'[id].destination = SubSeq(list, 1, n - 1)
    BY <1>3, Resolving
  <2> HIDE DEF id, n, list
  <2>3. \A i \in DOMAIN msgs'[id].destination :
          i \in DOMAIN list /\ msgs'[id].destination[i] = list[i]
    <3>1. n \in 1 .. Len(list) =>
            \A i \in DOMAIN SubSeq(list, 1, n - 1) :
              i \in DOMAIN list /\ SubSeq(list, 1, n - 1)[i] = list[i]
      BY <2>1, Prefix
    <3>2. CASE msgs'[id].destination = <<>>
      BY <3>2
    <3>3. CASE n \in 1 .. Len(list) /\ msgs'[id].destination = SubSeq(list, 1, n - 1)
      BY <3>1, <3>3, Zenon
    <3> QED
      BY <2>2, <3>2, <3>3
  <2> QED
    BY <2>1, <2>3 DEF list, Elements
<1>4. msgs' = msgs \/ (BuildMsg(c) /\ msgs' # msgs) \/ ResolveNext(c)
  <2>1. ForwardDone(c) \/ Enqueue(c) \/ TryReceive(c) \/ FinishReceive(c) \/ Drain(c) => msgs' = msgs
    BY DEF ForwardDone, Enqueue, TryReceive, FinishReceive, Drain
  <2>2. Quiet(c) => msgs' = msgs
    BY DEF Quiet
  <2> QED
    BY <2>1, <2>2, StepKinds
<1> QED
  BY <1>1, <1>2, <1>3, <1>4

(* Only ResolveNext changes the list of a message.                          *)
LEMMA ListChanges ==
  ASSUME TypeInv, NEW c \in Clients, Step(c), NEW id \in DOMAIN msgs,
         msgs'[id].destination # msgs[id].destination
  PROVE  LET list == msgs[id].destination
             n    == Final(Valid(list))
         IN  /\ ResolveNext(c) /\ out[c] = id /\ list \in Seq(Int)
             /\ \/ msgs'[id].destination = <<>>
                \/ n \in 1 .. Len(list) /\ msgs'[id].destination = SubSeq(list, 1, n - 1)
<1>1. BuildMsg(c) /\ msgs' # msgs => msgs'[id] = msgs[id]
  BY Building
<1>2. ForwardDone(c) \/ Enqueue(c) \/ TryReceive(c) \/ FinishReceive(c) \/ Drain(c) => msgs' = msgs
  BY DEF ForwardDone, Enqueue, TryReceive, FinishReceive, Drain
<1>3. Quiet(c) => msgs' = msgs
  BY DEF Quiet
<1>4. ResolveNext(c)
  BY <1>1, <1>2, <1>3, StepKinds
<1>5. out[c] = id
  BY <1>4, Resolving
<1> QED
  BY <1>4, <1>5, Resolving

(* A connected client keeps its queue, and its address until it disconnects.*)
LEMMA ObjectsKeep ==
  ASSUME TypeInv, RoutingInv, OldestInv, NEW c \in Clients, Step(c),
         NEW d \in Clients, m_addr[d] # BusAddrInvalid
  PROVE  /\ m_queue'[d] = m_queue[d]
         /\ m_addr'[d] = m_addr[d] \/ (m_addr'[d] = BusAddrInvalid /\ Unlocked)
<1>1. m_queue[d] # NoQueue
  BY ConnectedHasQueue
<1>2. CASE d # c
  BY <1>2, OthersKeep DEF SameTask
<1>3. CASE d = c
  <2>1. ~CreateQueue(c)
    BY <1>1, <1>3 DEF CreateQueue
  <2>2. ~DeleteQueue(c)
    BY <1>3 DEF DeleteQueue, RoutingInv, LeavingIsOff, Leaving, At
  <2>3. CASE UNCHANGED <<m_clients, m_addrLast, m_addr, m_queue>>
    BY <2>3
  <2>4. CASE Unregister(c) /\ m_queue' = m_queue
    BY <1>3, <2>4 DEF Unregister, TypeInv, TypeOK, ObjectOK
  <2>5. CASE Connect(c)
    <3>1. m_queue' = m_queue
      BY <2>5 DEF Connect
    <3>2. ClientsAt(m_queue[c]) # {}
      BY <1>3 DEF RoutingInv, Listed, ClientsAt
    <3> DEFINE i == First(ClientsAt(m_queue[c]))
    <3>3. i \in DOMAIN m_clients /\ m_clients[i].queue = m_queue[c]
      BY <3>2, ClientFound DEF ClientsAt, TypeInv, TypeOK
    <3>4. m_addr[c] = m_clients[i].addr
      BY <3>3, EntryOwner
    <3>5. m_addr' = [m_addr EXCEPT ![c] = m_clients[i].addr]
      BY <2>5, <3>2 DEF Connect
    <3> QED
      BY <1>3, <3>1, <3>4, <3>5 DEF TypeInv, TypeOK, ObjectOK
  <2> QED
    BY <2>1, <2>2, <2>3, <2>4, <2>5, OnlySomeRegister DEF Step
<1> QED
  BY <1>2, <1>3

(* A task gets to the point of sending by resolving a queue.                *)
LEMMA OnlyResolvingEnters ==
  ASSUME TypeInv, NEW c \in Clients, Step(c), pc'[c] = "enqueue"
  PROVE  ResolveNext(c) /\ out' = out
<1> USE DEF TypeInv, TypeOK, TaskOK, Goto, At
<1>1. ~Quiet(c)
  BY DEF Quiet, Sending
<1>2. ~(BuildMsg(c) /\ msgs' # msgs)
  BY Building
<1>3. ~ForwardDone(c)
  BY DEF ForwardDone
<1>4. ~Enqueue(c)
  BY DEF Enqueue
<1>5. ~TryReceive(c) /\ ~FinishReceive(c) /\ ~Drain(c)
  BY DEF TryReceive, FinishReceive, Drain
<1>6. ResolveNext(c)
  BY <1>1, <1>2, <1>3, <1>4, <1>5, StepKinds
<1>7. ret[c] # "enqueue"
  OBVIOUS
<1>8. pc' = [pc EXCEPT ![c] = ret[c]] \/ out' = out
  BY <1>6, Resolving
<1> QED
  BY <1>6, <1>7, <1>8

(* An address that resolves is that of a connected client.                  *)
LEMMA ResolvedIsConnected ==
  ASSUME TypeInv, RoutingInv, OldestInv, NEW addr, Resolvable(addr) # {}
  PROVE  \E d \in Clients :
           m_queue[d] = Resolve(addr) /\ m_addr[d] = addr /\ addr # BusAddrInvalid
<1> DEFINE i == First(Resolvable(addr))
<1>1. i \in DOMAIN m_clients /\ i \in Resolvable(addr)
  BY ClientFound DEF Resolvable, TypeInv, TypeOK
<1>2. m_clients[i].addr = addr /\ m_clients[i].queue = Resolve(addr)
  BY <1>1 DEF Resolvable, Resolve
<1>3. PICK d \in Clients : m_queue[d] = m_clients[i].queue /\ m_addr[d] = m_clients[i].addr
  BY <1>1 DEF OldestInv, EntriesConnected
<1>4. m_clients[i].addr # BusAddrInvalid
  <2>1. m_clients[i].addr \in m_addrLast .. -1
    BY <1>1 DEF RoutingInv, AddressesConsistent
  <2> QED
    BY <2>1 DEF BusAddrInvalid, TypeInv, TypeOK, RegistryOK
<1> QED
  BY <1>2, <1>3, <1>4

(* Nobody registers or disconnects while a task holds the mutex between     *)
(* resolving a queue and sending to it.                                     *)
LEMMA EntersNext ==
  ASSUME TypeInv, RoutingInv, OldestInv, EntersTarget, TargetsLeft, NEW c \in Clients, Step(c)
  PROVE  EntersTarget'
<1> SUFFICES ASSUME NEW t \in Clients, pc'[t] = "enqueue"
             PROVE  \E d \in Clients :
                      /\ dest'[t] = m_queue'[d]
                      /\ m_addr'[d] # BusAddrInvalid
                      /\ m_addr'[d] \in Elements(msgs'[out'[t]].targets)
  BY DEF EntersTarget, At
<1>1. CASE t # c
  <2>1. pc[t] = "enqueue" /\ dest'[t] = dest[t] /\ out'[t] = out[t]
    BY <1>1, OthersKeep DEF SameTask
  <2>2. PICK d \in Clients :
           /\ dest[t] = m_queue[d]
           /\ m_addr[d] # BusAddrInvalid
           /\ m_addr[d] \in Elements(msgs[out[t]].targets)
    BY <2>1 DEF EntersTarget, At
  <2>3. ~Unlocked
    BY <2>1, BusAssumption DEF TypeInv, MutexHeld, At, Unlocked, BusAssumption
  <2>4. m_queue'[d] = m_queue[d] /\ m_addr'[d] = m_addr[d]
    BY <2>2, <2>3, ObjectsKeep
  <2>5. msgs'[out[t]].targets = msgs[out[t]].targets
    <3>1. out[t] \in DOMAIN msgs
      BY <2>1, OutMessage
    <3> QED
      BY <3>1, MessagesKeep
  <2> QED
    BY <2>1, <2>2, <2>4, <2>5
<1>2. CASE t = c
  <2> DEFINE id == out[c]
             list == msgs[id].destination
             n == Final(Valid(list))
  <2>1. ResolveNext(c) /\ out' = out
    BY <1>2, OnlyResolvingEnters
  <2>2. id \in DOMAIN msgs /\ list \in Seq(Int) /\ msgs'[id].targets = msgs[id].targets
    BY <2>1, Resolving
  <2>3. n \in Valid(list) /\ n \in 1 .. Len(list) /\ dest' = [dest EXCEPT ![c] = Resolve(list[n])]
    <3>1. pc' = [pc EXCEPT ![c] = ret[c]] => pc'[c] # "enqueue"
      BY DEF TypeInv, TypeOK, TaskOK
    <3> QED
      BY <1>2, <2>1, <3>1, Resolving
  <2>4. UNCHANGED <<m_queue, m_addr>>
    BY <2>1 DEF ResolveNext, object
  <2>5. Resolvable(list[n]) # {}
    BY <2>3 DEF Valid
  <2>6. PICK d \in Clients :
           m_queue[d] = Resolve(list[n]) /\ m_addr[d] = list[n] /\ list[n] # BusAddrInvalid
    BY <2>5, ResolvedIsConnected
  <2>7. dest'[c] = Resolve(list[n])
    BY <2>3 DEF TypeInv, TypeOK, TaskOK
  <2> HIDE DEF n
  <2>8. list[n] \in Elements(msgs[id].targets)
    <3>1. list[n] \in Elements(list)
      BY <2>2, <2>3 DEF Elements
    <3> QED
      BY <2>2, <3>1 DEF TargetsLeft
  <2> QED
    BY <1>2, <2>1, <2>2, <2>4, <2>6, <2>7, <2>8
<1> QED
  BY <1>1, <1>2

(* What is left of a list is of the list.                                   *)
LEMMA TargetsNext ==
  ASSUME TypeInv, TargetsLeft, NEW c \in Clients, Step(c)
  PROVE  TargetsLeft'
<1> SUFFICES ASSUME NEW id \in DOMAIN msgs'
             PROVE  Elements(msgs'[id].destination) \subseteq Elements(msgs'[id].targets)
  BY DEF TargetsLeft, Elements
<1>1. CASE id \in DOMAIN msgs
  BY <1>1, MessagesKeep DEF TargetsLeft
<1>2. CASE id \notin DOMAIN msgs
  <2>1. BuildMsg(c) /\ msgs' # msgs
    BY <1>2, MessagesKeep
  <2>2. id = Len(msgs) + 1
    BY <1>2, <2>1, Building
  <2> QED
    BY <2>1, <2>2, Building
<1> QED
  BY <1>1, <1>2

(* A queue that a task is about to send to exists.                          *)
LEMMA EntersLive ==
  ASSUME TypeInv, RoutingInv, EntersTarget, NEW t \in Clients, At(t, "enqueue")
  PROVE  dest[t] \in live
<1>1. PICK d \in Clients : dest[t] = m_queue[d] /\ m_addr[d] # BusAddrInvalid
  BY DEF EntersTarget
<1>2. m_queue[d] # NoQueue
  BY <1>1, ConnectedHasQueue
<1> QED
  BY <1>1, <1>2 DEF TypeInv, TypeOK, ObjectOK

(* Neither of the two steps that C++ would leave undefined is taken.        *)
LEMMA DefinedNext ==
  ASSUME TypeInv, RoutingInv, GroupInv, EntersTarget, ~undef, NEW c \in Clients, Step(c)
  PROVE  ~undef'
<1>1. CASE CreateQueue(c) \/ Reconnect(c) \/ Construct(c) \/ Disconnect(c) \/ Destroy(c)
  BY <1>1 DEF CreateQueue, Reconnect, Construct, Disconnect, Destroy
<1>2. CASE \E n \in Names : JoinName(c, n) \/ LeaveName(c, n) \/ SendName(c, n)
  BY <1>2 DEF JoinName, LeaveName, SendName
<1>3. CASE \E to \in m_addrLast .. -1 : SendAddr(c, to)
  BY <1>3 DEF SendAddr
<1>4. CASE Connect(c) \/ LeaveAddr(c) \/ Drain(c) \/ Drained(c) \/ DeleteQueue(c)
  BY <1>4 DEF Connect, LeaveAddr, Drain, Drained, DeleteQueue
<1>5. CASE JoinAddr(c)
  <2>1. GroupsAt(arg[c]) # {}
    BY <1>5 DEF JoinAddr, GroupInv, JoinFindsGroup
  <2> QED
    BY <1>5, <2>1 DEF JoinAddr
<1>6. CASE BuildMsg(c) \/ ForwardDone(c) \/ ResolveNext(c) \/ TryReceive(c) \/ FinishReceive(c)
  BY <1>6 DEF BuildMsg, ForwardDone, ResolveNext, TryReceive, FinishReceive
<1>7. CASE Enqueue(c)
  <2>1. dest[c] \in live
    BY <1>7, EntersLive DEF Enqueue
  <2> QED
    BY <1>7, <2>1 DEF Enqueue
<1> QED
  BY <1>1, <1>2, <1>3, <1>4, <1>5, <1>6, <1>7 DEF Step, Begin, Proceed

(* A message is on its way to the clients it was sent to, in every state.   *)
LEMMA TargetAlways == OldestStays /\ Spec => []TargetInv
<1>1. Init => TargetInv
  BY DEF Init, TargetInv, EntersTarget, TargetsLeft, At
<1>2. TypeInv /\ RoutingInv /\ GroupInv /\ OldestInv /\ TargetInv /\ [Next]_vars => TargetInv'
  <2> SUFFICES ASSUME TypeInv, RoutingInv, GroupInv, OldestInv, TargetInv, [Next]_vars
               PROVE  TargetInv'
    OBVIOUS
  <2>1. CASE UNCHANGED vars
    <3>1. UNCHANGED <<pc, dest, m_queue, m_addr, msgs, out, undef>>
      BY <2>1 DEF vars, object, local
    <3> QED
      BY <3>1 DEF TargetInv, EntersTarget, TargetsLeft, At, Elements
  <2>2. ASSUME NEW c \in Clients, Step(c) PROVE TargetInv'
    BY <2>2, EntersNext, TargetsNext, DefinedNext DEF TargetInv
  <2> QED
    BY <2>1, <2>2 DEF Next, Step
<1> QED
  BY <1>1, <1>2, TypeAlways, RoutingAlways, GroupAlways, OldestAlways, PTL DEF Spec

(* The queue a task resolved still exists when it sends to it, although its *)
(* owner may be in its destructor: disconnect waits for the mutex (Bus.cpp  *)
(* 196-208, 255-275).  The run deadqueue shows it false when the oldest     *)
(* client goes.                                                             *)
THEOREM QueueSafety == OldestStays /\ Spec => []ResolvesValidQueue
<1>1. TypeInv /\ RoutingInv /\ TargetInv => ResolvesValidQueue
  BY EntersLive DEF TargetInv, ResolvesValidQueue
<1> QED
  BY <1>1, TypeAlways, RoutingAlways, TargetAlways, PTL

(* A message enters the queue of a client it was sent to, and of no other   *)
(* (Bus.cpp 232-275), whatever remove_if left in m_clients and the groups.  *)
THEOREM TargetSafety == OldestStays /\ Spec => []OnlyTargetsReceive
<1>1. TargetInv => OnlyTargetsReceive
  BY DEF TargetInv, EntersTarget, OnlyTargetsReceive
<1> QED
  BY <1>1, TargetAlways, PTL

---------------------------------------------------------------------------
(* The pointers.                                                            *)

(* A pointer put at the end of a queue.                                     *)
LEMMA AppendElements ==
  ASSUME NEW S, NEW s \in Seq(S), NEW e \in S
  PROVE  /\ Append(s, e) \in Seq(S) /\ Append(s, e) # <<>>
         /\ Elements(Append(s, e)) = Elements(s) \cup {e}
         /\ Distinct(s) /\ e \notin Elements(s) => Distinct(Append(s, e))
<1> DEFINE new == Append(s, e)
<1>1. new \in Seq(S) /\ DOMAIN new = 1 .. Len(s) + 1 /\ DOMAIN s = 1 .. Len(s) /\ Len(s) \in Nat
  BY AppendProperties
<1>2. new[Len(s) + 1] = e /\ \A i \in 1 .. Len(s) : new[i] = s[i]
  BY AppendProperties
<1>3. new # <<>>
  BY AppendProperties
<1> HIDE DEF new
<1>4. Elements(new) = Elements(s) \cup {e}
  BY <1>1, <1>2 DEF Elements
<1>5. Distinct(s) /\ e \notin Elements(s) => Distinct(new)
  BY <1>1, <1>2 DEF Elements, Distinct
<1> QED
  BY <1>1, <1>3, <1>4, <1>5 DEF new

(* A pointer taken from the front of a queue.                               *)
LEMMA TailElements ==
  ASSUME NEW S, NEW s \in Seq(S), s # <<>>
  PROVE  /\ Tail(s) \in Seq(S)
         /\ Elements(s) = Elements(Tail(s)) \cup {Head(s)}
         /\ Distinct(s) => Distinct(Tail(s)) /\ Head(s) \notin Elements(Tail(s))
<1> DEFINE new == Tail(s)
<1>1. /\ new \in Seq(S) /\ Len(s) \in Nat /\ Len(s) >= 1
      /\ DOMAIN new = 1 .. Len(s) - 1 /\ DOMAIN s = 1 .. Len(s)
  BY HeadTailProperties
<1>2. Head(s) = s[1]
  BY HeadTailProperties
<1>3. \A i \in 1 .. Len(s) - 1 : new[i] = s[i + 1]
  BY HeadTailProperties
<1> HIDE DEF new
<1>4. \A i \in 2 .. Len(s) : i - 1 \in DOMAIN new /\ new[i - 1] = s[i]
  BY <1>1, <1>3
<1>5. Elements(s) = Elements(new) \cup {Head(s)}
  <2>1. Elements(s) \subseteq Elements(new) \cup {Head(s)}
    BY <1>1, <1>2, <1>4 DEF Elements
  <2>2. Elements(new) \cup {Head(s)} \subseteq Elements(s)
    BY <1>1, <1>2, <1>3 DEF Elements
  <2> QED
    BY <2>1, <2>2
<1>6. ASSUME Distinct(s) PROVE Distinct(new) /\ Head(s) \notin Elements(new)
  <2>1. \A i, j \in 1 .. Len(s) - 1 : s[i + 1] = s[j + 1] => i = j
    BY <1>1, <1>6 DEF Distinct
  <2>2. \A i \in 1 .. Len(s) - 1 : s[i + 1] # s[1]
    BY <1>1, <1>6 DEF Distinct
  <2>3. Distinct(new)
    BY <1>1, <1>3, <2>1 DEF Distinct
  <2>4. Head(s) \notin Elements(new)
    BY <1>1, <1>2, <1>3, <2>2 DEF Elements
  <2> QED
    BY <2>3, <2>4
<1> QED
  BY <1>1, <1>5, <1>6 DEF new

(* Where a pointer may go: from a queue to a task,                          *)
LEMMA SlotTake ==
  ASSUME TypeInv, OneSlot, NEW c \in Clients, NEW q \in Queues, fifo[q] # <<>>,
         fifo' = [fifo EXCEPT ![q] = Tail(@)],
         \/ out[c] = 0 /\ out' = [out EXCEPT ![c] = Head(fifo[q])] /\ UNCHANGED hand
         \/ hand[c] = 0 /\ hand' = [hand EXCEPT ![c] = Head(fifo[q])] /\ UNCHANGED out
  PROVE  OneSlot' /\ \A id \in DOMAIN msgs : Owned(id)' <=> Owned(id)
<1> DEFINE x == Head(fifo[q])
<1>1. \A r \in Queues : fifo[r] \in Seq(Nat)
  BY DEF TypeInv, TypeOK, HeapOK
<1>2. out \in [Clients -> Int] /\ hand \in [Clients -> Int] /\ x \in Int /\ x # 0
  BY HeadOfQueue DEF TypeInv, TypeOK, TaskOK, MessageOK
<1>3. /\ Elements(fifo[q]) = Elements(Tail(fifo[q])) \cup {x}
      /\ Distinct(Tail(fifo[q])) /\ x \notin Elements(Tail(fifo[q]))
  BY <1>1, TailElements DEF OneSlot
<1>4. fifo'[q] = Tail(fifo[q]) /\ \A r \in Queues : r # q => fifo'[r] = fifo[r]
  BY DEF TypeInv, TypeOK, HeapOK
<1>5. \A r \in Queues :
        Elements(fifo'[r]) \subseteq Elements(fifo[r]) /\ x \notin Elements(fifo'[r])
  BY <1>3, <1>4, Zenon DEF OneSlot
<1>6. \A d \in Clients : out[d] # x /\ hand[d] # x
  BY <1>3, Zenon DEF OneSlot
<1>7. \A r \in Queues : Distinct(fifo'[r])
  BY <1>3, <1>4, Zenon DEF OneSlot
<1> HIDE DEF x
<1>8. 0 \notin DOMAIN msgs
  BY DEF TypeInv, TypeOK, MessageOK
<1>9. \A id : (\E r \in Queues : id \in Elements(fifo[r])) <=>
               (id = x \/ \E r \in Queues : id \in Elements(fifo'[r]))
  BY <1>3, <1>4, Zenon DEF x
<1>10. CASE out[c] = 0 /\ out' = [out EXCEPT ![c] = x] /\ UNCHANGED hand
  <2>1. OneSlot'
    BY <1>2, <1>5, <1>6, <1>7, <1>10, ZenonT(40) DEF OneSlot
  <2>2. \A id \in DOMAIN msgs :
          (\E d \in Clients : out'[d] = id \/ hand'[d] = id) <=>
            (id = x \/ \E d \in Clients : out[d] = id \/ hand[d] = id)
    BY <1>2, <1>8, <1>10
  <2>3. \A id \in DOMAIN msgs : Owned(id)' <=> Owned(id)
    BY <1>9, <2>2, Zenon DEF Owned
  <2> QED
    BY <2>1, <2>3
<1>11. CASE hand[c] = 0 /\ hand' = [hand EXCEPT ![c] = x] /\ UNCHANGED out
  <2>1. OneSlot'
    BY <1>2, <1>5, <1>6, <1>7, <1>11, ZenonT(40) DEF OneSlot
  <2>2. \A id \in DOMAIN msgs :
          (\E d \in Clients : out'[d] = id \/ hand'[d] = id) <=>
            (id = x \/ \E d \in Clients : out[d] = id \/ hand[d] = id)
    BY <1>2, <1>8, <1>11
  <2>3. \A id \in DOMAIN msgs : Owned(id)' <=> Owned(id)
    BY <1>9, <2>2, Zenon DEF Owned
  <2> QED
    BY <2>1, <2>3
<1> QED
  BY <1>10, <1>11 DEF x

(* from a task to a queue,                                                  *)
LEMMA SlotPut ==
  ASSUME TypeInv, OneSlot, NEW c \in Clients, NEW q \in Queues, out[c] # 0,
         fifo' = [fifo EXCEPT ![q] = Append(@, out[c])],
         out' = [out EXCEPT ![c] = 0], UNCHANGED hand
  PROVE  OneSlot' /\ \A id \in DOMAIN msgs : Owned(id)' <=> Owned(id)
<1> DEFINE x == out[c]
<1>1. \A r \in Queues : fifo[r] \in Seq(Nat) /\ 0 \notin Elements(fifo[r])
  <2>1. \A r \in Queues : fifo[r] \in Seq(Nat) /\ \A i \in DOMAIN fifo[r] : fifo[r][i] \in DOMAIN msgs
    BY DEF TypeInv, TypeOK, HeapOK
  <2>2. 0 \notin DOMAIN msgs
    BY DEF TypeInv, TypeOK, MessageOK
  <2> QED
    BY <2>1, <2>2 DEF Elements
<1>2. out \in [Clients -> Nat]
  BY DEF TypeInv, TypeOK, TaskOK, MessageOK
<1>3. x \in Nat /\ x # 0 /\ \A r \in Queues : x \notin Elements(fifo[r])
  BY <1>2 DEF OneSlot
<1>4. \A d \in Clients : hand[d] # x /\ (d # c => out[d] # x)
  BY DEF OneSlot
<1> HIDE DEF x
<1>5. /\ Elements(Append(fifo[q], x)) = Elements(fifo[q]) \cup {x}
      /\ Distinct(Append(fifo[q], x))
  BY <1>1, <1>3, AppendElements DEF OneSlot
<1>6. fifo'[q] = Append(fifo[q], x) /\ \A r \in Queues : r # q => fifo'[r] = fifo[r]
  BY DEF TypeInv, TypeOK, HeapOK, x
<1>7. \A r \in Queues : Distinct(fifo'[r])
  BY <1>5, <1>6, Zenon DEF OneSlot
<1>8. \A r, p \in Queues : \A id \in Elements(fifo'[r]) : id \in Elements(fifo'[p]) => r = p
  BY <1>3, <1>5, <1>6 DEF OneSlot
<1>9. \A d \in Clients : out'[d] = IF d = c THEN 0 ELSE out[d]
  BY <1>2
<1>10. \A r \in Queues, d \in Clients :
         out'[d] \notin Elements(fifo'[r]) /\ hand[d] \notin Elements(fifo'[r])
  BY <1>1, <1>3, <1>4, <1>5, <1>6, <1>9 DEF OneSlot
<1>11. \A e, d \in Clients :
         /\ out'[e] # 0 => out'[e] # hand[d] /\ (out'[e] = out'[d] => e = d)
         /\ hand[e] # 0 /\ hand[e] = hand[d] => e = d
  BY <1>9 DEF OneSlot
<1>12. OneSlot'
  BY <1>7, <1>8, <1>10, <1>11 DEF OneSlot
<1>13. 0 \notin DOMAIN msgs
  BY DEF TypeInv, TypeOK, MessageOK
<1>14. \A id : (\E r \in Queues : id \in Elements(fifo'[r])) <=>
                (id = x \/ \E r \in Queues : id \in Elements(fifo[r]))
  <2>1. Elements(fifo'[q]) = Elements(fifo[q]) \cup {x}
    BY <1>5, <1>6
  <2> QED
    BY <1>6, <2>1, Zenon
<1>15. \A id \in DOMAIN msgs :
         (\E d \in Clients : out[d] = id \/ hand[d] = id) <=>
           (id = x \/ \E d \in Clients : out'[d] = id \/ hand'[d] = id)
  BY <1>9, <1>13 DEF x
<1>16. \A id \in DOMAIN msgs : Owned(id)' <=> Owned(id)
  BY <1>14, <1>15, Zenon DEF Owned
<1> QED
  BY <1>12, <1>16

(* from a task to nowhere or, as a new message, to a task,                  *)
LEMMA SlotSet ==
  ASSUME TypeInv, OneSlot, NEW c \in Clients, NEW x \in Nat, UNCHANGED <<fifo, hand>>,
         out' = [out EXCEPT ![c] = x], x = 0 \/ (out[c] = 0 /\ ~Owned(x))
  PROVE  /\ OneSlot'
         /\ \A id \in Nat \ {0} : Owned(id)' <=> id = x \/ (Owned(id) /\ id # out[c])
<1>1. \A r \in Queues : x \notin Elements(fifo[r])
  <2>1. \A r \in Queues : \A i \in DOMAIN fifo[r] : fifo[r][i] # 0
    BY DEF TypeInv, TypeOK, HeapOK, MessageOK
  <2> QED
    BY <2>1 DEF Owned, Elements
<1>2. \A d \in Clients : out'[d] = IF d = c THEN x ELSE out[d]
  BY DEF TypeInv, TypeOK, TaskOK
<1>3. OneSlot'
  BY <1>1, <1>2 DEF OneSlot, Owned
<1>4. \A id \in Nat \ {0} : Owned(id)' <=> id = x \/ (Owned(id) /\ id # out[c])
  BY <1>2 DEF OneSlot, Owned
<1> QED
  BY <1>3, <1>4

(* and from receive() to sendToNextClient.                                  *)
LEMMA SlotMove ==
  ASSUME TypeInv, OneSlot, NEW c \in Clients, UNCHANGED fifo, hand[c] # 0, out[c] = 0,
         out' = [out EXCEPT ![c] = hand[c]], hand' = [hand EXCEPT ![c] = 0]
  PROVE  OneSlot' /\ \A id \in DOMAIN msgs : Owned(id)' <=> Owned(id)
<1>1. \A r \in Queues : 0 \notin Elements(fifo[r])
  <2>1. \A r \in Queues : \A i \in DOMAIN fifo[r] : fifo[r][i] # 0
    BY DEF TypeInv, TypeOK, HeapOK, MessageOK
  <2> QED
    BY <2>1 DEF Elements
<1>2. \A d \in Clients : /\ out'[d] = IF d = c THEN hand[c] ELSE out[d]
                         /\ hand'[d] = IF d = c THEN 0 ELSE hand[d]
  BY DEF TypeInv, TypeOK, TaskOK
<1>3. OneSlot'
  BY <1>1, <1>2 DEF OneSlot
<1>4. 0 \notin DOMAIN msgs
  BY DEF TypeInv, TypeOK, MessageOK
<1>5. \A id \in DOMAIN msgs : Owned(id)' <=> Owned(id)
  BY <1>2, <1>4 DEF Owned
<1> QED
  BY <1>3, <1>5

(* A step that moves a pointer, or ends a message that has nowhere to go.   *)
LEMMA PointersMove ==
  ASSUME OwnerInv, DOMAIN msgs' = DOMAIN msgs, lost' = lost,
         \A id \in DOMAIN msgs :
           \/ Owned(id)' <=> Owned(id)
           \/ ~Owned(id)' /\ msgs'[id].destination = <<>>,
         \A id \in DOMAIN msgs :
           msgs[id].destination = <<>> /\ ~Owned(id) => msgs'[id].destination = <<>>
  PROVE  LostGone' /\ NoneForgotten'
<1>1. \A id \in lost : id \in DOMAIN msgs /\ ~Owned(id)
  BY DEF OwnerInv, LostGone
<1>2. \A id \in DOMAIN msgs : Owned(id) \/ id \in lost \/ msgs[id].destination = <<>>
  BY DEF OwnerInv, NoneForgotten
<1>3. LostGone'
  BY <1>1 DEF LostGone
<1>4. NoneForgotten'
  BY <1>2 DEF NoneForgotten
<1> QED
  BY <1>3, <1>4

(* Every kind of step keeps track of the pointers.                          *)
Tracked == OneSlot /\ LostGone /\ NoneForgotten

(* A step that moves no message.                                           *)
LEMMA TrackedQuiet ==
  ASSUME TypeInv, OwnerInv, NEW c \in Clients, Quiet(c)
  PROVE  Tracked' /\ fifo' = fifo
<1>1. fifo' = fifo
  <2>1. ASSUME NEW q \in Queues, q \notin live \/ (pc[c] = "delete" /\ q = m_queue[c]),
               fifo' = [fifo EXCEPT ![q] = <<>>]
        PROVE  fifo' = fifo
    <3>1. fifo[q] = <<>>
      BY <2>1 DEF OwnerInv, DeadQueuesEmpty
    <3>2. fifo \in [Queues -> Seq(Nat)]
      BY DEF TypeInv, TypeOK, HeapOK
    <3> QED
      BY <2>1, <3>1, <3>2
  <2> QED
    BY <2>1 DEF Quiet
<1>2. UNCHANGED <<out, hand, msgs, lost>>
  BY DEF Quiet
<1> QED
  BY <1>1, <1>2 DEF OwnerInv, Tracked, OneSlot, LostGone, NoneForgotten, Owned, Distinct, Elements

(* The message being sent is the task's, and no other has it.               *)
LEMMA SenderOwns ==
  ASSUME TypeInv, OwnerInv, NEW c \in Clients, pc[c] \in Sending
  PROVE  out[c] \in DOMAIN msgs /\ out[c] # 0 /\ out[c] \in Nat /\ Owned(out[c])
<1>1. out[c] \in DOMAIN msgs /\ out[c] \in Nat /\ out[c] # 0
  BY OutMessage DEF Sending, TypeInv, TypeOK, MessageOK
<1> QED
  BY <1>1 DEF Owned

(* A new message belongs to the task that built it.                        *)
LEMMA TrackedBuild ==
  ASSUME TypeInv, OwnerInv, NEW c \in Clients, BuildMsg(c), msgs' # msgs
  PROVE  Tracked'
<1> DEFINE x == Len(msgs) + 1
<1>1. /\ Len(msgs) \in Nat /\ DOMAIN msgs = 1 .. Len(msgs) /\ DOMAIN msgs' = 1 .. x
      /\ \A id \in DOMAIN msgs : msgs'[id] = msgs[id]
      /\ out' = [out EXCEPT ![c] = x]
  BY Building
<1>2. UNCHANGED <<fifo, hand, lost>> /\ pc[c] = "send"
  BY DEF BuildMsg, heap, history, At
<1>3. out[c] = 0
  BY <1>2 DEF OwnerInv, SendersOwn, Sending
<1>4. ~Owned(x)
  <2>1. \A q \in Queues : x \notin Elements(fifo[q])
    BY <1>1 DEF TypeInv, TypeOK, HeapOK, Elements
  <2>2. \A d \in Clients : out[d] # x /\ hand[d] # x
    BY <1>1 DEF TypeInv, TypeOK, TaskOK
  <2> QED
    BY <2>1, <2>2 DEF Owned
<1>5. x \in Nat /\ x # 0 /\ \A id \in 1 .. x : id \in Nat \ {0}
  BY <1>1
<1> HIDE DEF x
<1>6. OneSlot' /\ \A id \in Nat \ {0} : Owned(id)' <=> id = x \/ (Owned(id) /\ id # out[c])
  BY <1>1, <1>2, <1>3, <1>4, <1>5, SlotSet DEF OwnerInv
<1>7. \A id \in 1 .. x : Owned(id)' <=> id = x \/ Owned(id)
  BY <1>3, <1>5, <1>6
<1>8. \A id \in 1 .. x : id = x \/ id \in DOMAIN msgs
  BY <1>1 DEF x
<1>9. x \notin DOMAIN msgs
  BY <1>1 DEF x
<1>10. LostGone'
  BY <1>1, <1>2, <1>5, <1>7, <1>8, <1>9 DEF OwnerInv, LostGone, x
<1>11. NoneForgotten'
  BY <1>1, <1>2, <1>7, <1>8 DEF OwnerInv, NoneForgotten
<1> QED
  BY <1>6, <1>10, <1>11 DEF Tracked

(* A message that is given up has no destination left.                     *)
LEMMA TrackedForward ==
  ASSUME TypeInv, OwnerInv, NEW c \in Clients, ForwardDone(c) \/ ResolveNext(c)
  PROVE  Tracked'
<1> DEFINE x == out[c]
<1>1. x \in DOMAIN msgs /\ x # 0 /\ x \in Nat /\ Owned(x)
  BY SenderOwns DEF ForwardDone, ResolveNext, At, Sending
<1>2. UNCHANGED <<fifo, hand, lost>>
  BY DEF ForwardDone, ResolveNext, heap, history
<1>3. /\ DOMAIN msgs' = DOMAIN msgs /\ \A j \in DOMAIN msgs : j # x => msgs'[j] = msgs[j]
      /\ \/ out' = [out EXCEPT ![c] = 0] /\ msgs'[x].destination = <<>>
         \/ out' = out
  BY Resolving DEF ForwardDone
<1>4. \A id \in DOMAIN msgs : id \in Nat \ {0}
  BY DEF TypeInv, TypeOK, MessageOK
<1> HIDE DEF x
<1>5. CASE out' = [out EXCEPT ![c] = 0] /\ msgs'[x].destination = <<>>
  <2>1. OneSlot' /\ \A id \in Nat \ {0} : Owned(id)' <=> id = 0 \/ (Owned(id) /\ id # x)
    BY <1>2, <1>5, SlotSet DEF OwnerInv, x
  <2>2. \A id \in DOMAIN msgs :
          \/ Owned(id)' <=> Owned(id)
          \/ ~Owned(id)' /\ msgs'[id].destination = <<>>
    BY <1>4, <1>5, <2>1
  <2> QED
    BY <1>1, <1>2, <1>3, <2>1, <2>2, PointersMove DEF Tracked
<1>6. CASE out' = out
  <2>1. OneSlot' /\ \A id : Owned(id)' <=> Owned(id)
    BY <1>2, <1>6 DEF OwnerInv, OneSlot, Owned, Distinct, Elements
  <2> QED
    BY <1>1, <1>2, <1>3, <2>1, PointersMove DEF Tracked
<1> QED
  BY <1>3, <1>5, <1>6

(* A pointer taken off a queue belongs to the task that took it.           *)
LEMMA TrackedReceive ==
  ASSUME TypeInv, OwnerInv, NEW c \in Clients, TryReceive(c) \/ Drain(c) \/ FinishReceive(c)
  PROVE  Tracked'
<1> USE DEF At
<1>1. UNCHANGED <<msgs, lost>>
  BY DEF TryReceive, Drain, FinishReceive, history
<1>2. pc[c] \notin Sending /\ out[c] = 0
  BY DEF TryReceive, Drain, FinishReceive, Sending, OwnerInv, SendersOwn
<1>3. TryReceive(c) \/ Drain(c) =>
        OneSlot' /\ \A id \in DOMAIN msgs : Owned(id)' <=> Owned(id)
  <2> SUFFICES ASSUME TryReceive(c) \/ Drain(c)
               PROVE  OneSlot' /\ \A id \in DOMAIN msgs : Owned(id)' <=> Owned(id)
    OBVIOUS
  <2>1. m_queue[c] \in Queues /\ fifo[m_queue[c]] # <<>>
    BY DEF TryReceive, Drain, TypeInv, TypeOK, ObjectOK, InCall
  <2> QED
    BY <1>2, <2>1, SlotTake DEF TryReceive, Drain, OwnerInv
<1>4. FinishReceive(c) => OneSlot' /\ \A id \in DOMAIN msgs : Owned(id)' <=> Owned(id)
  BY <1>2, SlotMove DEF FinishReceive, heap, OwnerInv
<1> QED
  BY <1>1, <1>3, <1>4, PointersMove DEF Tracked

(* A pointer goes into one queue, or the message is destroyed.             *)
LEMMA TrackedEnqueue ==
  ASSUME TypeInv, RoutingInv, TargetInv, OwnerInv, NEW c \in Clients, Enqueue(c)
  PROVE  Tracked'
<1> DEFINE x == out[c]
<1>1. x \in DOMAIN msgs /\ x # 0 /\ x \in Nat /\ Owned(x)
  BY SenderOwns DEF Enqueue, At, Sending
<1>2. dest[c] \in live /\ dest[c] \in Queues
  BY EntersLive DEF Enqueue, TargetInv, TypeInv, TypeOK, HeapOK
<1>3. UNCHANGED <<hand, msgs>> /\ out' = [out EXCEPT ![c] = 0]
  BY DEF Enqueue
<1>4. \A id \in DOMAIN msgs : id \in Nat \ {0}
  BY DEF TypeInv, TypeOK, MessageOK
<1>5. CASE Len(fifo[dest[c]]) < QueueLength
  <2>1. fifo' = [fifo EXCEPT ![dest[c]] = Append(@, x)] /\ lost' = lost
    BY <1>2, <1>5 DEF Enqueue, Sent
  <2>2. OneSlot' /\ \A id \in DOMAIN msgs : Owned(id)' <=> Owned(id)
    BY <1>1, <1>2, <1>3, <2>1, SlotPut DEF OwnerInv
  <2> QED
    BY <1>3, <2>1, <2>2, PointersMove DEF Tracked
<1>6. CASE ~(Len(fifo[dest[c]]) < QueueLength)
  <2>1. fifo' = fifo /\ lost' = lost \cup {x}
    BY <1>2, <1>6 DEF Enqueue
  <2>2. OneSlot' /\ \A id \in Nat \ {0} : Owned(id)' <=> id = 0 \/ (Owned(id) /\ id # x)
    BY <1>3, <2>1, SlotSet DEF OwnerInv
  <2> HIDE DEF x
  <2>3. \A id \in DOMAIN msgs : Owned(id)' <=> (Owned(id) /\ id # x)
    BY <1>4, <2>2
  <2>4. LostGone'
    BY <1>1, <1>3, <2>1, <2>3 DEF OwnerInv, LostGone
  <2>5. NoneForgotten'
    BY <1>3, <2>1, <2>3 DEF OwnerInv, NoneForgotten
  <2> QED
    BY <2>2, <2>4, <2>5 DEF Tracked
<1> QED
  BY <1>5, <1>6

(* Tasks own a message exactly while they send it.                          *)
LEMMA SendersNext ==
  ASSUME TypeInv, OwnerInv, NEW c \in Clients, Step(c)
  PROVE  SendersOwn'
<1> USE DEF TypeInv, TypeOK, TaskOK, Goto, At, Sending
<1>1. \A d \in Clients : d # c => (out'[d] = 0 <=> pc'[d] \notin Sending)
  BY OthersKeep DEF SameTask, OwnerInv, SendersOwn
<1>2. out[c] = 0 <=> pc[c] \notin Sending
  BY DEF OwnerInv, SendersOwn
<1>3. out'[c] = 0 <=> pc'[c] \notin Sending
  <2>1. CASE Quiet(c)
    BY <1>2, <2>1 DEF Quiet
  <2>2. CASE BuildMsg(c) /\ msgs' # msgs
    BY <2>2, Building
  <2>3. CASE ForwardDone(c) \/ Enqueue(c)
    BY <2>3 DEF ForwardDone, Enqueue
  <2>4. CASE ResolveNext(c)
    <3>1. pc[c] = "forward"
      BY <2>4 DEF ResolveNext
    <3>2. \/ out' = [out EXCEPT ![c] = 0] /\ pc' = [pc EXCEPT ![c] = ret[c]]
          \/ out' = out /\ pc' = [pc EXCEPT ![c] = "enqueue"]
      BY <2>4, Resolving
    <3> QED
      BY <1>2, <3>1, <3>2
  <2>5. CASE TryReceive(c)
    BY <1>2, <2>5 DEF TryReceive
  <2>6. CASE FinishReceive(c)
    BY <2>6 DEF FinishReceive
  <2>7. CASE Drain(c)
    <3>1. Head(fifo[m_queue[c]]) # 0
      BY <2>7, HeadOfQueue DEF Drain, InCall, ObjectOK
    <3> QED
      BY <2>7, <3>1 DEF Drain
  <2> QED
    BY <2>1, <2>2, <2>3, <2>4, <2>5, <2>6, <2>7, StepKinds
<1> QED
  BY <1>1, <1>3 DEF SendersOwn

(* An empty queue stays empty, unless it is sent to.                        *)
LEMMA EmptyStays ==
  ASSUME TypeInv, OwnerInv, NEW c \in Clients, Step(c), NEW q \in Queues, fifo[q] = <<>>,
         Enqueue(c) => dest[c] # q
  PROVE  fifo'[q] = <<>>
<1>1. CASE Quiet(c)
  BY <1>1, TrackedQuiet
<1>2. CASE BuildMsg(c) \/ ForwardDone(c) \/ ResolveNext(c) \/ FinishReceive(c)
  BY <1>2 DEF BuildMsg, ForwardDone, ResolveNext, FinishReceive, heap
<1>3. CASE Enqueue(c)
  BY <1>3 DEF Enqueue, TypeInv, TypeOK, HeapOK
<1>4. CASE TryReceive(c) \/ Drain(c)
  BY <1>4 DEF TryReceive, Drain, TypeInv, TypeOK, HeapOK
<1> QED
  BY <1>1, <1>2, <1>3, <1>4, StepKinds

(* A client in its destructor is not sent to.                               *)
LEMMA LeavingNotEntered ==
  ASSUME TypeInv, RoutingInv, TargetInv, NEW c \in Clients, At(c, "enqueue"),
         NEW d \in Clients, Leaving(d), m_queue[d] # NoQueue
  PROVE  dest[c] # m_queue[d]
<1>1. PICK e \in Clients : dest[c] = m_queue[e] /\ m_addr[e] # BusAddrInvalid
  BY DEF TargetInv, EntersTarget
<1>2. m_addr[d] = BusAddrInvalid
  BY DEF RoutingInv, LeavingIsOff
<1> QED
  BY <1>1, <1>2 DEF TypeInv, OneQueueEach

(* Queues come to exist and cease to exist empty.                           *)
LEMMA DeadQueuesNext ==
  ASSUME TypeInv, RoutingInv, TargetInv, OwnerInv, NEW c \in Clients, Step(c)
  PROVE  DeadQueuesEmpty'
<1> USE DEF At
<1>1. ASSUME NEW q \in Queues \ live' PROVE fifo'[q] = <<>>
  <2>1. q \notin live \/ (DeleteQueue(c) /\ q = m_queue[c])
    <3>1. live' = live \/ CreateQueue(c) \/ DeleteQueue(c)
      <4>1. Reconnect(c) \/ Construct(c) \/ Disconnect(c) \/ Destroy(c) => live' = live
        BY DEF Reconnect, Construct, Disconnect, Destroy, heap
      <4>2. (\E n \in Names : JoinName(c, n) \/ LeaveName(c, n) \/ SendName(c, n)) => live' = live
        BY DEF JoinName, LeaveName, SendName, heap
      <4>3. (\E to \in m_addrLast .. -1 : SendAddr(c, to)) => live' = live
        BY DEF SendAddr, heap
      <4>4. Connect(c) \/ JoinAddr(c) \/ LeaveAddr(c) \/ Drain(c) \/ Drained(c) => live' = live
        BY DEF Connect, JoinAddr, LeaveAddr, Drain, Drained, heap
      <4>5. BuildMsg(c) \/ ForwardDone(c) \/ ResolveNext(c) \/ Enqueue(c) => live' = live
        BY DEF BuildMsg, ForwardDone, ResolveNext, Enqueue, heap
      <4>6. TryReceive(c) \/ FinishReceive(c) => live' = live
        BY DEF TryReceive, FinishReceive, heap
      <4> QED
        BY <4>1, <4>2, <4>3, <4>4, <4>5, <4>6 DEF Step, Begin, Proceed
    <3>2. CreateQueue(c) => live \subseteq live'
      BY DEF CreateQueue
    <3>3. DeleteQueue(c) => live' = live \ {m_queue[c]}
      BY DEF DeleteQueue
    <3> QED
      BY <3>1, <3>2, <3>3
  <2>2. CASE q \notin live
    <3>1. fifo[q] = <<>>
      BY <2>2 DEF OwnerInv, DeadQueuesEmpty
    <3>2. Enqueue(c) => dest[c] # q
      BY <2>2, EntersLive DEF Enqueue, TargetInv
    <3> QED
      BY <3>1, <3>2, EmptyStays
  <2>3. CASE DeleteQueue(c) /\ q = m_queue[c]
    BY <2>3 DEF DeleteQueue, TypeInv, TypeOK, HeapOK
  <2> QED
    BY <2>1, <2>2, <2>3
<1>2. ASSUME NEW d \in Clients, pc'[d] = "delete" PROVE fifo'[m_queue'[d]] = <<>>
  <2>1. CASE d # c
    <3>1. pc[d] = "delete" /\ m_queue'[d] = m_queue[d]
      BY <1>2, <2>1, OthersKeep DEF SameTask
    <3>2. fifo[m_queue[d]] = <<>> /\ m_queue[d] \in Queues /\ m_queue[d] # NoQueue
      BY <3>1 DEF OwnerInv, DeadQueuesEmpty, TypeInv, TypeOK, ObjectOK, InCall
    <3>3. Enqueue(c) => dest[c] # m_queue[d]
      BY <3>1, <3>2, LeavingNotEntered DEF Enqueue, Leaving
    <3> QED
      BY <3>1, <3>2, <3>3, EmptyStays
  <2>2. CASE d = c
    <3>1. Quiet(c)
      <4> USE DEF TypeInv, TypeOK, TaskOK, Goto
      <4>1. ~(BuildMsg(c) /\ msgs' # msgs)
        BY <1>2, <2>2, Building
      <4>2. ~(ForwardDone(c) \/ Enqueue(c) \/ TryReceive(c) \/ FinishReceive(c) \/ Drain(c))
        BY <1>2, <2>2 DEF ForwardDone, Enqueue, TryReceive, FinishReceive, Drain
      <4>3. ~ResolveNext(c)
        <5>1. ResolveNext(c) => pc' = [pc EXCEPT ![c] = ret[c]] \/ pc' = [pc EXCEPT ![c] = "enqueue"]
          BY Resolving
        <5> QED
          BY <1>2, <2>2, <5>1
      <4> QED
        BY <4>1, <4>2, <4>3, StepKinds
    <3>2. Drained(c)
      BY <1>2, <2>2, <3>1 DEF Quiet
    <3> QED
      BY <2>2, <3>2 DEF Drained, object, heap
  <2> QED
    BY <2>1, <2>2
<1> QED
  BY <1>1, <1>2 DEF DeadQueuesEmpty

(* Every message has one owner, in every state.                             *)
LEMMA OwnerAlways == OldestStays /\ Spec => []OwnerInv
<1>1. Init => OwnerInv
  BY DEF Init, OwnerInv, OneSlot, DeadQueuesEmpty, SendersOwn, Sending, LostGone, NoneForgotten,
     Distinct, Elements
<1>2. TypeInv /\ RoutingInv /\ TargetInv /\ OwnerInv /\ [Next]_vars => OwnerInv'
  <2> SUFFICES ASSUME TypeInv, RoutingInv, TargetInv, OwnerInv, [Next]_vars
               PROVE  OwnerInv'
    OBVIOUS
  <2>1. CASE UNCHANGED vars
    <3>1. UNCHANGED <<fifo, live, pc, out, hand, m_queue, msgs, lost>>
      BY <2>1 DEF vars, object, heap, local, history
    <3> QED
      BY <3>1 DEF OwnerInv, OneSlot, DeadQueuesEmpty, SendersOwn, LostGone, NoneForgotten, Owned,
         Distinct, Elements
  <2>2. ASSUME NEW c \in Clients, Step(c) PROVE OwnerInv'
    <3>1. Tracked'
      BY <2>2, StepKinds, TrackedQuiet, TrackedBuild, TrackedForward, TrackedReceive, TrackedEnqueue
    <3> QED
      BY <2>2, <3>1, SendersNext, DeadQueuesNext DEF OwnerInv, Tracked
  <2> QED
    BY <2>1, <2>2 DEF Next, Step
<1> QED
  BY <1>1, <1>2, TypeAlways, RoutingAlways, TargetAlways, PTL DEF Spec

(* The set of owners, and what OwnerInv says of it.                         *)
LEMMA OwnersAre ==
  ASSUME TypeInv, OwnerInv, NEW id \in DOMAIN msgs
  PROVE  /\ Owners(id) = {} <=> ~Owned(id)
         /\ \A a, b \in Owners(id) : a = b
<1>1. id # 0
  BY DEF TypeInv, TypeOK, MessageOK
<1> DEFINE at(q) == {<<"queue", q, i>> : i \in {j \in DOMAIN fifo[q] : fifo[q][j] = id}}
           queued == {at(q) : q \in live}
           sent == {<<"out", c>> : c \in {d \in Clients : out[d] = id}}
           held == {<<"hand", c>> : c \in {d \in Clients : hand[d] = id}}
<1>2. \A x : x \in Owners(id) <=>
        \/ \E q \in live : \E i \in DOMAIN fifo[q] : fifo[q][i] = id /\ x = <<"queue", q, i>>
        \/ \E c \in Clients : out[c] = id /\ x = <<"out", c>>
        \/ \E c \in Clients : hand[c] = id /\ x = <<"hand", c>>
  <2>1. Owners(id) = (UNION queued) \cup sent \cup held
    BY Zenon DEF Owners
  <2>2. \A q, x : x \in at(q) <=> \E i \in DOMAIN fifo[q] : fifo[q][i] = id /\ x = <<"queue", q, i>>
    OBVIOUS
  <2>3. \A x : x \in sent <=> \E c \in Clients : out[c] = id /\ x = <<"out", c>>
    OBVIOUS
  <2>4. \A x : x \in held <=> \E c \in Clients : hand[c] = id /\ x = <<"hand", c>>
    OBVIOUS
  <2> HIDE DEF at, sent, held
  <2>5. \A x : x \in UNION queued <=> \E q \in live : x \in at(q)
    BY Zenon
  <2> HIDE DEF queued
  <2> QED
    BY <2>1, <2>2, <2>3, <2>4, <2>5
<1> HIDE DEF at, queued, sent, held
<1>3. \A q \in live : \A i \in DOMAIN fifo[q] : fifo[q][i] = id => <<"queue", q, i>> \in Owners(id)
  BY <1>2
<1>4. \A c \in Clients : /\ out[c] = id => <<"out", c>> \in Owners(id)
                         /\ hand[c] = id => <<"hand", c>> \in Owners(id)
  BY <1>2
<1>5. live \subseteq Queues
  BY DEF TypeInv, TypeOK, HeapOK
<1>6. \A q \in Queues \ live : DOMAIN fifo[q] = {}
  BY DEF OwnerInv, DeadQueuesEmpty
<1>7. Owners(id) = {} <=> ~Owned(id)
  <2>1. Owned(id) => Owners(id) # {}
    BY <1>3, <1>4, <1>5, <1>6 DEF Owned, Elements
  <2>2. \A x \in Owners(id) : Owned(id)
    BY <1>2, <1>5 DEF Owned, Elements
  <2> QED
    BY <2>1, <2>2
<1>8. \A a, b \in Owners(id) : a = b
  BY <1>1, <1>2, <1>5 DEF OwnerInv, OneSlot, Distinct, Elements
<1> QED
  BY <1>7, <1>8

(* A queue, a sending task or a receiving task owns a message, and no two   *)
(* of them do; a message that nobody owns was destroyed at a full queue or  *)
(* has nowhere left to go, so a queue is deleted with nothing in it         *)
(* (Bus.cpp 196-275).                                                       *)
THEOREM OwnerSafety == OldestStays /\ Spec => []SingleOwner
<1>1. TypeInv /\ OwnerInv => SingleOwner
  <2> SUFFICES ASSUME TypeInv, OwnerInv PROVE SingleOwner
    OBVIOUS
  <2>1. ASSUME NEW id \in DOMAIN msgs
        PROVE  /\ Owners(id) = {} <=> ~Owned(id)
               /\ \A a, b \in Owners(id) : a = b
    BY OwnersAre
  <2>2. ASSUME NEW id \in DOMAIN msgs PROVE Cardinality(Owners(id)) <= 1
    <3>1. CASE Owners(id) = {}
      BY <3>1, FS_EmptySet
    <3>2. CASE Owners(id) # {}
      <4>1. PICK x \in Owners(id) : TRUE
        BY <3>2
      <4>2. Owners(id) = {x}
        BY <2>1, <4>1
      <4> QED
        BY <4>2, FS_Singleton
    <3> QED
      BY <3>1, <3>2
  <2>3. \A c \in Clients : At(c, "delete") => fifo[m_queue[c]] = <<>>
    BY DEF OwnerInv, DeadQueuesEmpty, At
  <2> QED
    BY <2>1, <2>2, <2>3 DEF SingleOwner, OwnerInv, LostGone, NoneForgotten
<1> QED
  BY <1>1, TypeAlways, OwnerAlways, PTL

---------------------------------------------------------------------------
(* Delivery.                                                                *)

(* The address of a connected client is one that was handed out.            *)
LEMMA ConnectedIsKnown ==
  ASSUME RoutingInv, NEW c \in Clients, m_addr[c] # BusAddrInvalid
  PROVE  m_addr[c] \in m_addrLast .. -1
  BY DEF RoutingInv, Listed, AddressesConsistent

(* The addresses handed out stay handed out.                                *)
LEMMA KnownStays ==
  ASSUME TypeInv, NEW c \in Clients, Step(c), NEW a \in m_addrLast .. -1
  PROVE  a \in m_addrLast' .. -1
<1>1. m_addrLast \in Int
  BY DEF TypeInv, TypeOK, RegistryOK
<1>2. m_addrLast' = m_addrLast \/ m_addrLast' = m_addrLast - 1
  <2>1. CreateQueue(c) \/ DeleteQueue(c) => m_addrLast' = m_addrLast
    BY DEF CreateQueue, DeleteQueue, registry
  <2>2. Connect(c) => m_addrLast' = m_addrLast \/ m_addrLast' = m_addrLast - 1
    BY DEF Connect
  <2> QED
    BY <2>1, <2>2, OnlySomeRegister DEF Step
<1> QED
  BY <1>1, <1>2

(* Only joining and leaving change the groups.                              *)
LEMMA OnlySomeRegroup ==
  ASSUME NEW c \in Clients, Step(c)
  PROVE  \/ m_groups' = m_groups
         \/ \E n \in Names : JoinName(c, n)
         \/ JoinAddr(c) \/ LeaveAddr(c)
<1>1. \/ CreateQueue(c) \/ Reconnect(c) \/ Construct(c) \/ Disconnect(c) \/ Destroy(c)
      \/ Connect(c) \/ Drain(c) \/ Drained(c) \/ DeleteQueue(c)
      => m_groups' = m_groups
  BY DEF CreateQueue, Reconnect, Construct, Disconnect, Destroy, Connect, Drain, Drained,
     DeleteQueue, registry
<1>2. \/ \E n \in Names : LeaveName(c, n) \/ SendName(c, n)
      \/ \E to \in m_addrLast .. -1 : SendAddr(c, to)
      => m_groups' = m_groups
  BY DEF LeaveName, SendName, SendAddr, registry
<1>3. \/ BuildMsg(c) \/ ForwardDone(c) \/ ResolveNext(c) \/ Enqueue(c)
      \/ TryReceive(c) \/ FinishReceive(c)
      => m_groups' = m_groups
  BY DEF BuildMsg, ForwardDone, ResolveNext, Enqueue, TryReceive, FinishReceive, registry
<1> QED
  BY <1>1, <1>2, <1>3 DEF Step, Begin, Proceed

(* A group's list changes by the address of a client that joins, or of one  *)
(* that leaves.                                                             *)
LEMMA ListsFrom ==
  ASSUME TypeInv, NEW c \in Clients, Step(c), NEW g \in DOMAIN m_groups',
         NEW a \in Elements(m_groups'[g].destination)
  PROVE  \/ \E h \in DOMAIN m_groups : a \in Elements(m_groups[h].destination)
         \/ a = m_addr[c] /\ m_addr[c] # BusAddrInvalid
<1>1. CASE m_groups' = m_groups
  BY <1>1
<1>2. ASSUME NEW n \in Names, JoinName(c, n), m_groups' # m_groups
      PROVE  \E h \in DOMAIN m_groups : a \in Elements(m_groups[h].destination)
  <2>1. m_groups \in Seq(Group) /\ NewGroup(n) \in Group
    BY DEF TypeInv, TypeOK, RegistryOK, NewGroup, Group
  <2> DEFINE new == EmplaceFront(NewGroup(n), m_groups)
  <2>2. m_groups' = new
    BY <1>2 DEF JoinName
  <2>3. new \in Seq(Group) /\ Len(new) = Len(m_groups) + 1
    BY <2>1, EmplaceFrontType
  <2>4. new[1] = NewGroup(n)
    BY <2>1, EmplaceFrontType
  <2>5. \A i \in 2 .. Len(m_groups) + 1 : new[i] = m_groups[i - 1]
    BY <2>1, EmplaceFrontType
  <2> HIDE DEF new
  <2>6. g # 1
    BY <2>2, <2>4 DEF NewGroup, Elements
  <2>7. g - 1 \in DOMAIN m_groups /\ m_groups'[g] = m_groups[g - 1]
    BY <2>1, <2>2, <2>3, <2>5, <2>6
  <2> QED
    BY <2>7
<1>3. ASSUME NEW k \in DOMAIN m_groups, NEW list,
             m_groups' = [m_groups EXCEPT ![k].destination = list],
             a \in Elements(list) =>
               \/ a \in Elements(m_groups[k].destination)
               \/ a = m_addr[c] /\ m_addr[c] # BusAddrInvalid
      PROVE  \/ \E h \in DOMAIN m_groups : a \in Elements(m_groups[h].destination)
             \/ a = m_addr[c] /\ m_addr[c] # BusAddrInvalid
  <2>1. g \in DOMAIN m_groups
    BY <1>3
  <2>2. CASE g = k
    <3>1. m_groups'[g].destination = list
      BY <1>3, <2>2, GroupType DEF Group
    <3> QED
      BY <1>3, <3>1
  <2>3. CASE g # k
    <3>1. m_groups'[g] = m_groups[g]
      BY <1>3, <2>1, <2>3
    <3> QED
      BY <2>1, <3>1
  <2> QED
    BY <2>2, <2>3
<1>4. CASE JoinAddr(c) /\ m_groups' # m_groups
  <2> DEFINE k == First(GroupsAt(arg[c]))
             members == m_groups[k].destination
             list == EmplaceFront(m_addr[c], members)
  <2>1. k \in DOMAIN m_groups
    <3>1. GroupsAt(arg[c]) \subseteq DOMAIN m_groups
      BY DEF GroupsAt
    <3>2. GroupsAt(arg[c]) # {}
      BY <1>4 DEF JoinAddr
    <3> QED
      BY <3>1, <3>2, GroupFound DEF TypeInv, TypeOK
  <2>2. m_groups' = [m_groups EXCEPT ![k].destination = list] /\ m_addr[c] # BusAddrInvalid
    BY <1>4 DEF JoinAddr, BusAddrInvalid, TypeInv, TypeOK, ObjectOK
  <2>3. members \in Seq(Int) /\ m_addr[c] \in Int
    BY <2>1, GroupType DEF TypeInv, TypeOK, ObjectOK
  <2> HIDE DEF members
  <2>4. list \in Seq(Int) /\ Len(list) = Len(members) + 1
    BY <2>3, EmplaceFrontType
  <2>5. list[1] = m_addr[c]
    BY <2>3 DEF EmplaceFront
  <2>6. \A i \in 2 .. Len(members) + 1 : list[i] = members[i - 1]
    BY <2>3 DEF EmplaceFront
  <2> HIDE DEF list
  <2>7. \A i \in DOMAIN list : list[i] = m_addr[c] \/ \E j \in DOMAIN members : list[i] = members[j]
    <3> TAKE i \in DOMAIN list
    <3>1. i = 1 \/ (i \in 2 .. Len(members) + 1 /\ i - 1 \in DOMAIN members)
      BY <2>3, <2>4
    <3> QED
      BY <2>5, <2>6, <3>1
  <2>8. a \in Elements(list) => a \in Elements(members) \/ a = m_addr[c]
    BY <2>7 DEF Elements
  <2> QED
    BY <1>3, <2>1, <2>2, <2>8 DEF members
<1>5. CASE LeaveAddr(c) /\ m_groups' # m_groups
  <2> DEFINE k == First(GroupsAt(arg[c]))
             members == m_groups[k].destination
             gone == {i \in DOMAIN members : members[i] = m_addr[c]}
             list == RemoveIf(members, gone)
  <2>1. k \in DOMAIN m_groups
    <3>1. GroupsAt(arg[c]) \subseteq DOMAIN m_groups
      BY DEF GroupsAt
    <3>2. GroupsAt(arg[c]) # {}
      BY <1>5 DEF LeaveAddr
    <3> QED
      BY <3>1, <3>2, GroupFound DEF TypeInv, TypeOK
  <2>2. m_groups' = [m_groups EXCEPT ![k].destination = list]
    BY <1>5 DEF LeaveAddr
  <2>3. members \in Seq(Int)
    BY <2>1, GroupType
  <2> HIDE DEF members, gone
  <2>4. list \in Seq(Int) /\ Len(list) = Len(members)
        /\ \A p \in DOMAIN members : \E i \in DOMAIN members : list[p] = members[i]
    BY <2>3, RemoveIfType
  <2> HIDE DEF list
  <2>5. DOMAIN list = DOMAIN members
    BY <2>3, <2>4
  <2>6. a \in Elements(list) => a \in Elements(members)
    BY <2>4, <2>5 DEF Elements
  <2> QED
    BY <1>3, <2>1, <2>2, <2>6 DEF members
<1> QED
  BY <1>1, <1>2, <1>4, <1>5, OnlySomeRegroup

(* The list a message is built with names addresses handed out.             *)
LEMMA DestinationKnown ==
  ASSUME TypeInv, AddressesKnown, NEW c \in Clients, BuildMsg(c)
  PROVE  Elements(Destination(arg[c])) \subseteq m_addrLast .. -1
<1>1. pc[c] = "send" /\ arg[c] \in Int
  BY DEF BuildMsg, At, TypeInv, TypeOK, TaskOK
<1>2. CASE arg[c] < 0
  <2>1. arg[c] \in m_addrLast .. -1
    BY <1>1, <1>2 DEF AddressesKnown, At
  <2> QED
    BY <1>2, <2>1 DEF Destination, Elements
<1>3. CASE ~(arg[c] < 0) /\ GroupsAt(arg[c]) # {}
  <2>1. GroupsAt(arg[c]) \subseteq DOMAIN m_groups
    BY DEF GroupsAt
  <2>2. First(GroupsAt(arg[c])) \in DOMAIN m_groups
    BY <1>3, <2>1, GroupFound DEF TypeInv, TypeOK
  <2> QED
    BY <1>3, <2>2 DEF Destination, AddressesKnown
<1>4. CASE ~(arg[c] < 0) /\ GroupsAt(arg[c]) = {}
  BY <1>4 DEF Destination, Elements
<1> QED
  BY <1>2, <1>3, <1>4

(* Lists never name an address before it is handed out.                     *)
LEMMA KnownNext ==
  ASSUME TypeInv, RoutingInv, GroupInv, AddressesKnown, NEW c \in Clients, Step(c)
  PROVE  AddressesKnown'
<1>1. ASSUME NEW g \in DOMAIN m_groups', NEW a \in Elements(m_groups'[g].destination)
      PROVE  a \in m_addrLast' .. -1
  <2>1. a \in m_addrLast .. -1
    BY <1>1, ListsFrom, ConnectedIsKnown DEF AddressesKnown
  <2> QED
    BY <2>1, KnownStays
<1>2. ASSUME NEW id \in DOMAIN msgs', NEW a \in Elements(msgs'[id].targets)
      PROVE  a \in m_addrLast' .. -1
  <2>1. CASE id \in DOMAIN msgs
    <3>1. a \in m_addrLast .. -1
      BY <1>2, <2>1, MessagesKeep DEF AddressesKnown
    <3> QED
      BY <3>1, KnownStays
  <2>2. CASE id \notin DOMAIN msgs
    <3>1. BuildMsg(c) /\ msgs' # msgs
      BY <2>2, MessagesKeep
    <3>2. id = Len(msgs) + 1 /\ msgs'[id].targets = Destination(arg[c])
      BY <2>2, <3>1, Building
    <3>3. a \in m_addrLast .. -1
      BY <1>2, <3>1, <3>2, DestinationKnown
    <3> QED
      BY <3>3, KnownStays
  <2> QED
    BY <2>1, <2>2
<1>3. ASSUME NEW d \in Clients, pc'[d] = "send", arg'[d] < 0
      PROVE  arg'[d] \in m_addrLast' .. -1
  <2> USE DEF TypeInv, TypeOK, TaskOK, Goto, At
  <2>1. CASE d # c
    <3>1. pc[d] = "send" /\ arg'[d] = arg[d]
      BY <1>3, <2>1, OthersKeep DEF SameTask
    <3>2. arg'[d] \in m_addrLast .. -1
      BY <1>3, <3>1 DEF AddressesKnown
    <3> QED
      BY <3>2, KnownStays
  <2>2. CASE d = c
    <3>1. \/ \E n \in Names : SendName(c, n)
          \/ \E to \in m_addrLast .. -1 : SendAddr(c, to)
      <4> USE <1>3, <2>2
      <4>1. ~CreateQueue(c) /\ ~Reconnect(c) /\ ~Construct(c) /\ ~Destroy(c) /\ ~Disconnect(c)
        BY DEF CreateQueue, Reconnect, Construct, Destroy, Disconnect
      <4>2. ~(\E n \in Names : JoinName(c, n) \/ LeaveName(c, n))
        BY DEF JoinName, LeaveName
      <4>3. ~Connect(c) /\ ~JoinAddr(c) /\ ~LeaveAddr(c)
        BY DEF Connect, JoinAddr, LeaveAddr
      <4>4. ~BuildMsg(c) /\ ~ForwardDone(c)
        BY DEF BuildMsg, ForwardDone
      <4>5. ~ResolveNext(c)
        <5>1. ResolveNext(c) => pc' = [pc EXCEPT ![c] = ret[c]] \/ pc' = [pc EXCEPT ![c] = "enqueue"]
          BY Resolving
        <5> QED
          BY <5>1
      <4>6. ~Enqueue(c) /\ ~Drain(c) /\ ~Drained(c) /\ ~DeleteQueue(c)
        BY DEF Enqueue, Drain, Drained, DeleteQueue
      <4>7. ~TryReceive(c) /\ ~FinishReceive(c)
        BY DEF TryReceive, FinishReceive
      <4> QED
        BY <4>1, <4>2, <4>3, <4>4, <4>5, <4>6, <4>7 DEF Step, Begin, Proceed
    <3>2. ASSUME NEW n \in Names, SendName(c, n) PROVE FALSE
      <4>1. GroupsNamed(n) # {} /\ GroupsNamed(n) \subseteq DOMAIN m_groups
        BY <3>2 DEF SendName, GroupsNamed
      <4>2. First(GroupsNamed(n)) \in DOMAIN m_groups
        BY <4>1, GroupFound
      <4>3. m_groups[First(GroupsNamed(n))].addr \in 1 .. m_groupLast
        BY <4>2 DEF GroupInv, GroupsConsistent
      <4>4. arg'[c] = m_groups[First(GroupsNamed(n))].addr
        BY <3>2 DEF SendName
      <4> QED
        BY <1>3, <2>2, <4>3, <4>4 DEF RegistryOK
    <3>3. ASSUME NEW to \in m_addrLast .. -1, SendAddr(c, to) PROVE arg'[c] \in m_addrLast' .. -1
      <4>1. arg'[c] = to
        BY <3>3 DEF SendAddr
      <4> QED
        BY <4>1, KnownStays
    <3> QED
      BY <2>2, <3>1, <3>2, <3>3
  <2> QED
    BY <2>1, <2>2
<1> QED
  BY <1>1, <1>2, <1>3 DEF AddressesKnown, At

(* A connected client keeps what it received, and a lost message stays lost.*)
LEMMA HistoryKeeps ==
  ASSUME TypeInv, RoutingInv, NEW c \in Clients, Step(c),
         NEW d \in Clients, m_addr[d] # BusAddrInvalid
  PROVE  Elements(got[d]) \subseteq Elements(got'[d]) /\ lost \subseteq lost'
<1>1. lost \subseteq lost'
  <2>1. Quiet(c) => lost' = lost
    BY DEF Quiet
  <2>2. BuildMsg(c) \/ ForwardDone(c) \/ ResolveNext(c) \/ FinishReceive(c) \/ Drain(c) => lost' = lost
    BY DEF BuildMsg, ForwardDone, ResolveNext, FinishReceive, Drain, history
  <2>3. Enqueue(c) \/ TryReceive(c) => lost \subseteq lost'
    BY DEF Enqueue, TryReceive
  <2> QED
    BY <2>1, <2>2, <2>3, StepKinds
<1>2. CASE got'[d] = got[d]
  BY <1>1, <1>2
<1>3. CASE TryReceive(c) /\ d = c
  <2>1. m_queue[c] \in Queues /\ fifo[m_queue[c]] # <<>>
    BY <1>3 DEF TryReceive, TypeInv, TypeOK, ObjectOK
  <2>2. Head(fifo[m_queue[c]]) \in Nat
    BY <2>1, HeadOfQueue DEF TypeInv, TypeOK, MessageOK
  <2>3. got[c] \in Seq(Nat) /\ got'[c] = Append(got[c], Head(fifo[m_queue[c]]))
    BY <1>3 DEF TryReceive, TypeInv, TypeOK, MessageOK
  <2>4. Elements(got[c]) \subseteq Elements(got'[c])
    BY <2>2, <2>3, AppendElements
  <2> QED
    BY <1>1, <1>3, <2>4
<1>4. got'[d] = got[d] \/ (TryReceive(c) /\ d = c)
  <2>1. CASE d # c
    BY <2>1, OthersKeep DEF SameTask
  <2>2. CASE d = c
    <3>1. Quiet(c) => got' = got
      BY <2>2 DEF Quiet, RoutingInv, LeavingIsOff, Leaving
    <3>2. BuildMsg(c) \/ ForwardDone(c) \/ ResolveNext(c) \/ FinishReceive(c) \/ Drain(c)
          \/ Enqueue(c) => got' = got
      BY DEF BuildMsg, ForwardDone, ResolveNext, FinishReceive, Drain, Enqueue, history
    <3> QED
      BY <2>2, <3>1, <3>2, StepKinds
  <2> QED
    BY <2>1, <2>2
<1> QED
  BY <1>2, <1>3, <1>4

(* An address still to be visited stays on the list until its client's      *)
(* queue is resolved for it: what is skipped on the way has no client.      *)
LEMMA ListKeeps ==
  ASSUME TypeInv, RoutingInv, NEW c \in Clients, Step(c), NEW id \in DOMAIN msgs,
         NEW d \in Clients, m_addr[d] # BusAddrInvalid,
         m_addr[d] \in Elements(msgs[id].destination)
  PROVE  \/ m_addr[d] \in Elements(msgs'[id].destination)
         \/ pc'[c] = "enqueue" /\ out'[c] = id /\ dest'[c] = m_queue[d]
<1>1. CASE ResolveNext(c) /\ out[c] = id
  <2> DEFINE list == msgs[id].destination
             n == Final(Valid(list))
  <2>1. list \in Seq(Int) /\ DOMAIN list = 1 .. Len(list)
    BY <1>1, Resolving
  <2>2. PICK i \in DOMAIN list : list[i] = m_addr[d]
    BY DEF Elements
  <2>3. Resolvable(m_addr[d]) # {} /\ Resolve(m_addr[d]) = m_queue[d]
    BY ConnectedResolves
  <2>4. i \in Valid(list)
    BY <2>2, <2>3 DEF Valid
  <2>5. /\ n \in 1 .. Len(list) /\ \A j \in Valid(list) : j <= n
        /\ msgs'[id].destination = SubSeq(list, 1, n - 1)
        /\ dest' = [dest EXCEPT ![c] = Resolve(list[n])]
        /\ pc' = [pc EXCEPT ![c] = "enqueue"] /\ out' = out
    BY <1>1, <2>4, Resolving
  <2> HIDE DEF list, n
  <2>6. CASE i = n
    BY <1>1, <2>2, <2>3, <2>5, <2>6 DEF TypeInv, TypeOK, TaskOK
  <2>7. CASE i # n
    <3>1. i \in 1 .. n - 1
      BY <2>1, <2>4, <2>5, <2>7
    <3>2. DOMAIN SubSeq(list, 1, n - 1) = 1 .. n - 1 /\ SubSeq(list, 1, n - 1)[i] = list[i]
      BY <2>1, <2>5, <3>1, Prefix
    <3>3. m_addr[d] \in Elements(SubSeq(list, 1, n - 1))
      BY <2>2, <3>1, <3>2 DEF Elements
    <3> QED
      BY <2>5, <3>3
  <2> QED
    BY <2>6, <2>7
<1>2. CASE ~(ResolveNext(c) /\ out[c] = id)
  BY <1>2, ListChanges
<1> QED
  BY <1>1, <1>2

(* A pointer stays in a connected client's queue until the client receives  *)
(* it.                                                                      *)
LEMMA QueueKeeps ==
  ASSUME TypeInv, RoutingInv, OwnerInv, TargetInv, NEW c \in Clients, Step(c), NEW id,
         NEW d \in Clients, m_addr[d] # BusAddrInvalid, id \in Elements(fifo[m_queue[d]])
  PROVE  id \in Elements(fifo'[m_queue[d]]) \/ id \in Elements(got'[d])
<1> DEFINE q == m_queue[d]
<1>1. q \in Queues /\ fifo[q] \in Seq(Nat) /\ q # NoQueue
  BY ConnectedHasQueue DEF TypeInv, TypeOK, ObjectOK, HeapOK
<1>2. CASE fifo' = fifo
  BY <1>2
<1>3. CASE TryReceive(c) \/ Drain(c)
  <2>1. fifo' = [fifo EXCEPT ![m_queue[c]] = Tail(@)]
    BY <1>3 DEF TryReceive, Drain
  <2>2. CASE m_queue[c] # q
    BY <1>1, <2>1, <2>2 DEF TypeInv, TypeOK, HeapOK
  <2>3. CASE m_queue[c] = q
    <3>1. c = d
      BY <1>1, <2>3 DEF TypeInv, OneQueueEach
    <3>2. TryReceive(c)
      BY <1>3, <3>1 DEF Drain, At, RoutingInv, LeavingIsOff, Leaving
    <3>3. fifo[q] # <<>> /\ fifo'[q] = Tail(fifo[q])
      BY <1>1, <2>1, <2>3, <3>2 DEF TryReceive, TypeInv, TypeOK, HeapOK
    <3>4. got'[d] = Append(got[d], Head(fifo[q])) /\ got[d] \in Seq(Nat)
      BY <3>1, <3>2 DEF TryReceive, TypeInv, TypeOK, MessageOK
    <3>5. Head(fifo[q]) \in Nat
      BY <1>1, <3>3, HeadOfQueue DEF TypeInv, TypeOK, MessageOK
    <3>6. Elements(fifo[q]) = Elements(Tail(fifo[q])) \cup {Head(fifo[q])}
      BY <1>1, <3>3, TailElements
    <3>7. Head(fifo[q]) \in Elements(got'[d])
      BY <3>4, <3>5, AppendElements
    <3> QED
      BY <3>3, <3>6, <3>7
  <2> QED
    BY <2>2, <2>3
<1>4. CASE Enqueue(c)
  <2>1. fifo' = fifo \/ fifo' = [fifo EXCEPT ![dest[c]] = Append(fifo[dest[c]], out[c])]
    BY <1>4 DEF Enqueue, Sent
  <2>2. out[c] \in Nat
    BY DEF TypeInv, TypeOK, TaskOK
  <2>3. Elements(Append(fifo[q], out[c])) = Elements(fifo[q]) \cup {out[c]}
    BY <1>1, <2>2, AppendElements
  <2> QED
    BY <1>1, <2>1, <2>3 DEF TypeInv, TypeOK, HeapOK
<1>5. BuildMsg(c) \/ ForwardDone(c) \/ ResolveNext(c) \/ FinishReceive(c) => fifo' = fifo
  BY DEF BuildMsg, ForwardDone, ResolveNext, FinishReceive, heap
<1>6. Quiet(c) => fifo' = fifo
  BY TrackedQuiet
<1> QED
  BY <1>2, <1>3, <1>4, <1>5, <1>6, StepKinds

(* A task about to send puts the message into the queue, or loses it.       *)
LEMMA EnteringKeeps ==
  ASSUME TypeInv, RoutingInv, OwnerInv, TargetInv, NEW c \in Clients, Step(c), NEW id,
         NEW d \in Clients, m_queue'[d] = m_queue[d], m_queue[d] # NoQueue,
         NEW t \in Clients, Entering(t, id, d)
  PROVE  Entering(t, id, d)' \/ id \in Elements(fifo'[m_queue[d]]) \/ id \in lost'
<1>1. CASE t # c
  BY <1>1, OthersKeep DEF SameTask, Entering, At
<1>2. CASE t = c
  <2>1. pc[c] = "enqueue" /\ out[c] = id /\ dest[c] = m_queue[d]
    BY <1>2 DEF Entering, At
  <2>2. Enqueue(c)
    BY <2>1, StepKinds DEF Quiet, Sending, BuildMsg, ForwardDone, ResolveNext, TryReceive,
       FinishReceive, Drain, At
  <2>3. dest[c] \in live
    BY <2>1, EntersLive DEF TargetInv, At
  <2>4. \/ fifo' = [fifo EXCEPT ![m_queue[d]] = Append(fifo[m_queue[d]], id)]
        \/ id \in lost'
    BY <2>1, <2>2, <2>3 DEF Enqueue, Sent
  <2>5. m_queue[d] \in Queues /\ fifo[m_queue[d]] \in Seq(Nat) /\ id \in Nat
    BY <2>1 DEF TypeInv, TypeOK, ObjectOK, HeapOK, TaskOK
  <2>6. id \in Elements(Append(fifo[m_queue[d]], id))
    BY <2>5, AppendElements
  <2> QED
    BY <2>4, <2>5, <2>6 DEF TypeInv, TypeOK, HeapOK
<1> QED
  BY <1>1, <1>2

(* Every step keeps a message going to the targets it has not reached.      *)
LEMMA ComesNext ==
  ASSUME TypeInv, RoutingInv, OldestInv, TargetInv, OwnerInv, DeliveryInv, NEW c \in Clients, Step(c)
  PROVE  StillComes'
<1> SUFFICES ASSUME NEW id \in DOMAIN msgs', id \notin lost', NEW d \in Clients,
                    m_addr'[d] # BusAddrInvalid, m_addr'[d] \in Elements(msgs'[id].targets)
             PROVE  \/ id \in Elements(got'[d])
                    \/ m_addr'[d] \in Elements(msgs'[id].destination)
                    \/ id \in Elements(fifo'[m_queue'[d]])
                    \/ \E t \in Clients : Entering(t, id, d)'
  BY DEF StillComes
<1>1. CASE id \notin DOMAIN msgs
  <2>1. BuildMsg(c) /\ msgs' # msgs
    BY <1>1, MessagesKeep
  <2>2. id = Len(msgs) + 1
    BY <1>1, <2>1, Building
  <2>3. msgs'[id].targets = msgs'[id].destination
    BY <2>1, <2>2, Building
  <2> QED
    BY <2>3
<1>2. CASE id \in DOMAIN msgs
  <2>1. m_addr'[d] \in Elements(msgs[id].targets)
    BY <1>2, MessagesKeep
  <2>2. m_addr[d] # BusAddrInvalid
    <3>1. m_addr'[d] \in m_addrLast .. -1
      BY <1>2, <2>1 DEF DeliveryInv, AddressesKnown
    <3>2. Next
      BY DEF Next, Step, TargetInv
    <3> QED
      BY <3>1, <3>2, FreshNext DEF TypeInv, TypeOK, RegistryOK
  <2>3. m_queue'[d] = m_queue[d] /\ m_addr'[d] = m_addr[d]
    BY <2>2, ObjectsKeep
  <2>4. m_queue[d] # NoQueue
    BY <2>2, ConnectedHasQueue
  <2>5. id \notin lost
    BY <2>2, HistoryKeeps
  <2>6. \/ id \in Elements(got[d])
        \/ m_addr[d] \in Elements(msgs[id].destination)
        \/ id \in Elements(fifo[m_queue[d]])
        \/ \E t \in Clients : Entering(t, id, d)
    BY <1>2, <2>1, <2>2, <2>3, <2>5 DEF DeliveryInv, StillComes
  <2>7. CASE id \in Elements(got[d])
    BY <2>2, <2>7, HistoryKeeps
  <2>8. CASE m_addr[d] \in Elements(msgs[id].destination)
    <3>1. \/ m_addr[d] \in Elements(msgs'[id].destination)
          \/ pc'[c] = "enqueue" /\ out'[c] = id /\ dest'[c] = m_queue[d]
      BY <1>2, <2>2, <2>8, ListKeeps
    <3> QED
      BY <2>3, <3>1 DEF Entering, At
  <2>9. CASE id \in Elements(fifo[m_queue[d]])
    BY <2>2, <2>3, <2>9, QueueKeeps
  <2>10. ASSUME NEW t \in Clients, Entering(t, id, d)
         PROVE  Entering(t, id, d)' \/ id \in Elements(fifo'[m_queue'[d]])
    BY <2>3, <2>4, <2>10, EnteringKeeps
  <2> QED
    BY <2>6, <2>7, <2>8, <2>9, <2>10
<1> QED
  BY <1>1, <1>2

(* Every message is on its way to its targets, in every state.              *)
LEMMA DeliveryAlways == OldestStays /\ Spec => []DeliveryInv
<1>1. Init => DeliveryInv
  BY DEF Init, DeliveryInv, AddressesKnown, StillComes, At
<1>2. TypeInv /\ RoutingInv /\ GroupInv /\ OldestInv /\ TargetInv /\ OwnerInv /\ DeliveryInv
      /\ [Next]_vars => DeliveryInv'
  <2> SUFFICES ASSUME TypeInv, RoutingInv, GroupInv, OldestInv, TargetInv, OwnerInv, DeliveryInv,
                      [Next]_vars
               PROVE  DeliveryInv'
    OBVIOUS
  <2>1. CASE UNCHANGED vars
    <3>1. UNCHANGED <<m_groups, m_addrLast, msgs, pc, arg, lost, got, fifo, m_queue, m_addr, out, dest>>
      BY <2>1 DEF vars, registry, object, heap, local, history
    <3> QED
      BY <3>1 DEF DeliveryInv, AddressesKnown, StillComes, Entering, Elements, At
  <2>2. ASSUME NEW c \in Clients, Step(c) PROVE DeliveryInv'
    BY <2>2, KnownNext, ComesNext DEF DeliveryInv
  <2> QED
    BY <2>1, <2>2 DEF Next, Step
<1> QED
  BY <1>1, <1>2, TypeAlways, RoutingAlways, GroupAlways, OldestAlways, TargetAlways, OwnerAlways,
     PTL DEF Spec

(* A message that is on its way no more, and was not destroyed at a full    *)
(* queue, has reached every target that is still connected (Bus.cpp         *)
(* 232-275), although targets disappeared while it travelled.               *)
THEOREM DeliverySafety == OldestStays /\ Spec => []NoSilentLoss
<1>1. TypeInv /\ RoutingInv /\ OwnerInv /\ DeliveryInv => NoSilentLoss
  <2> SUFFICES ASSUME TypeInv, RoutingInv, OwnerInv, DeliveryInv,
                      NEW id \in DOMAIN msgs, ~InFlight(id), id \notin lost,
                      NEW c \in Clients, Connected(c), m_addr[c] \in Elements(msgs[id].targets)
               PROVE  id \in Elements(got[c])
    BY DEF NoSilentLoss
  <2>1. ~Owned(id)
    BY OwnersAre DEF InFlight
  <2>2. msgs[id].destination = <<>>
    BY <2>1 DEF OwnerInv, NoneForgotten
  <2>3. m_addr[c] # BusAddrInvalid /\ m_queue[c] \in Queues
    BY DEF Connected, TypeInv, TypeOK, ObjectOK
  <2>4. id \notin Elements(fifo[m_queue[c]]) /\ \A t \in Clients : ~Entering(t, id, c)
    BY <2>1, <2>3 DEF Owned, Entering
  <2>5. Elements(msgs[id].destination) = {}
    BY <2>2 DEF Elements
  <2> QED
    BY <2>3, <2>4, <2>5 DEF DeliveryInv, StillComes
<1> QED
  BY <1>1, TypeAlways, RoutingAlways, OwnerAlways, DeliveryAlways, PTL

---------------------------------------------------------------------------
(* No message travels for ever.                                             *)

Shortened(id) == Len(msgs'[id].destination) < Len(msgs[id].destination)

(* What is left of a message's list stays or gets shorter; it gets shorter  *)
(* whenever a task turns to a queue to send the message to; and nothing     *)
(* else makes a queue longer.                                               *)
HopsRunOut ==
  /\ \A id \in DOMAIN msgs :
       id \in DOMAIN msgs' /\ (msgs'[id].destination = msgs[id].destination \/ Shortened(id))
  /\ \A c \in Clients :
       pc[c] # "enqueue" /\ pc'[c] = "enqueue" => out[c] \in DOMAIN msgs /\ Shortened(out[c])
  /\ \A q \in Queues : Len(fifo'[q]) > Len(fifo[q]) => \E c \in Clients : Enqueue(c)

(* What comes before an entry of a list is shorter than the list.           *)
LEMMA FrontIsShorter ==
  ASSUME NEW s \in Seq(Int), s # <<>>, NEW left, NEW n,
         left = <<>> \/ (n \in 1 .. Len(s) /\ left = SubSeq(s, 1, n - 1))
  PROVE  Len(left) < Len(s)
<1>1. Len(s) \in Nat \ {0}
  OBVIOUS
<1>2. CASE left = <<>>
  BY <1>1, <1>2
<1>3. CASE n \in 1 .. Len(s) /\ left = SubSeq(s, 1, n - 1)
  <2>1. n \in Int /\ 1 <= n /\ n <= Len(s)
    BY <1>1, <1>3
  <2>2. Len(SubSeq(s, 1, n - 1)) = n - 1
    BY <1>1, <2>1
  <2> QED
    BY <1>1, <1>3, <2>1, <2>2
<1> QED
  BY <1>2, <1>3

(* A task that resolves an address, or finds none, shortens the list.       *)
LEMMA ResolvingShortens ==
  ASSUME TypeInv, NEW c \in Clients, ResolveNext(c)
  PROVE  out[c] \in DOMAIN msgs /\ Shortened(out[c])
<1> DEFINE id == out[c]
           list == msgs[id].destination
           n == Final(Valid(list))
<1>1. list # <<>>
  BY DEF ResolveNext
<1>2. /\ id \in DOMAIN msgs /\ list \in Seq(Int)
      /\ \/ msgs'[id].destination = <<>>
         \/ n \in 1 .. Len(list) /\ msgs'[id].destination = SubSeq(list, 1, n - 1)
  BY Resolving
<1> HIDE DEF id, list, n
<1>3. Len(msgs'[id].destination) < Len(list)
  BY <1>1, <1>2, FrontIsShorter
<1> QED
  BY <1>2, <1>3 DEF Shortened, id, list

(* Only sendToNextClient makes a queue longer.                              *)
LEMMA OnlyEnqueueFills ==
  ASSUME TypeInv, NEW c \in Clients, Step(c), NEW q \in Queues, Len(fifo'[q]) > Len(fifo[q])
  PROVE  Enqueue(c)
<1>1. fifo \in [Queues -> Seq(Nat)]
  BY DEF TypeInv, TypeOK, HeapOK
<1>2. fifo[q] \in Seq(Nat) /\ Len(fifo[q]) \in Nat
  BY <1>1
<1>3. fifo'[q] # fifo[q] /\ fifo'[q] # <<>>
  BY <1>2
<1>4. ~Quiet(c)
  BY <1>1, <1>3 DEF Quiet
<1>5. ~BuildMsg(c) /\ ~ForwardDone(c) /\ ~ResolveNext(c) /\ ~FinishReceive(c)
  BY <1>3 DEF BuildMsg, ForwardDone, ResolveNext, FinishReceive, heap
<1>6. ASSUME NEW p, fifo[p] # <<>>, fifo' = [fifo EXCEPT ![p] = Tail(@)] PROVE FALSE
  <2>1. p = q /\ fifo'[q] = Tail(fifo[q])
    BY <1>1, <1>3, <1>6
  <2>2. fifo[q] # <<>>
    BY <1>6, <2>1
  <2>3. Len(Tail(fifo[q])) = Len(fifo[q]) - 1
    BY <1>2, <2>2
  <2> QED
    BY <1>2, <2>1, <2>3
<1>7. ~TryReceive(c)
  BY <1>6 DEF TryReceive
<1>8. ~Drain(c)
  BY <1>6 DEF Drain
<1> QED
  BY <1>4, <1>5, <1>7, <1>8, StepKinds

(* However clients come and go, a message is sent to no more queues than    *)
(* its list had entries (Bus.cpp 232-275): popping, and not the members,    *)
(* ends its way round.  That is what Settles rests on beside the fairness.  *)
THEOREM MessagesRunOut == Spec => [][HopsRunOut]_vars
<1>1. TypeInv /\ Next => HopsRunOut
  <2> SUFFICES ASSUME TypeInv, Next PROVE HopsRunOut
    OBVIOUS
  <2>1. PICK c \in Clients : Step(c)
    BY DEF Next, Step
  <2>2. ASSUME NEW id \in DOMAIN msgs
        PROVE  id \in DOMAIN msgs' /\ (msgs'[id].destination = msgs[id].destination \/ Shortened(id))
    BY <2>1, MessagesKeep, ListChanges, ResolvingShortens
  <2>3. ASSUME NEW d \in Clients, pc[d] # "enqueue", pc'[d] = "enqueue"
        PROVE  out[d] \in DOMAIN msgs /\ Shortened(out[d])
    <3>1. d = c
      BY <2>1, <2>3, OthersKeep DEF SameTask
    <3> QED
      BY <2>1, <2>3, <3>1, OnlyResolvingEnters, ResolvingShortens
  <2>4. \A q \in Queues : Len(fifo'[q]) > Len(fifo[q]) => \E d \in Clients : Enqueue(d)
    BY <2>1, OnlyEnqueueFills
  <2> QED
    BY <2>2, <2>3, <2>4 DEF HopsRunOut
<1> QED
  BY <1>1, TypeAlways, PTL DEF Spec

============================================================================
