------------------------------ MODULE BusOrder ------------------------------
(***************************************************************************)
(* Proofs about Bus: where nobody is taken away, two messages of one       *)
(* sender to one address are received in the order sent.                   *)
(*                                                                         *)
(* Each message travels on its own, carried by the task of one member and  *)
(* then of the next.  What keeps two of them in order: the list of a group *)
(* grows in front only and is visited from the back, so that the later one *)
(* has the same way and some more; a member that stays is never skipped;   *)
(* and each member takes messages off its queue, and hands them on, one    *)
(* after the other.                                                        *)
(***************************************************************************)
EXTENDS BusDelivery

---------------------------------------------------------------------------
(* Everybody stays.                                                         *)

(* The application uses none of the calls that take anybody away.           *)
EverybodyStays == Usage \subseteq {"direct"}

(* List t is list s with more elements in front.                            *)
EndsWith(t, s) ==
  /\ Len(s) <= Len(t)
  /\ \A i \in DOMAIN s : t[Len(t) - Len(s) + i] = s[i]

(* How many addresses of its list a message has left, and visited.          *)
Rest(id)    == Len(msgs[id].destination)
Visited(id) == Len(msgs[id].targets) - Rest(id)

(* No client is in a call that would take it away, and so every address     *)
(* handed out is that of a connected client.                                *)
NobodyLeft ==
  /\ \A c \in Clients : pc[c] \notin {"leaveAddr", "drain", "delete", "dead"} /\ ret[c] = "idle"
  /\ \A addr \in m_addrLast .. -1 : \E d \in Clients : m_addr[d] = addr

(* A message has a list it has to visit from the back; the list of a group  *)
(* grows in front only, so later messages have the same way and some more.  *)
RoutesGrow ==
  /\ \A id \in DOMAIN msgs :
       /\ msgs[id].targets # <<>> /\ Distinct(msgs[id].targets)
       /\ Rest(id) <= Len(msgs[id].targets)
       /\ \A i \in 1 .. Rest(id) : msgs[id].destination[i] = msgs[id].targets[i]
       /\ \/ msgs[id].to < 0 /\ msgs[id].targets = <<msgs[id].to>>
          \/ \E g \in DOMAIN m_groups :
               /\ m_groups[g].addr = msgs[id].to
               /\ EndsWith(m_groups[g].destination, msgs[id].targets)
  /\ \A b \in DOMAIN msgs : \A a \in 1 .. b :
       msgs[a].to = msgs[b].to => EndsWith(msgs[b].targets, msgs[a].targets)

StayInv == EverybodyStays /\ NobodyLeft /\ RoutesGrow

(* A client that stays keeps its address and its queue.                     *)
LEMMA AddressStays ==
  ASSUME TypeInv, RoutingInv, OldestInv, EverybodyStays, NEW c \in Clients, Step(c),
         NEW d \in Clients, m_addr[d] # BusAddrInvalid
  PROVE  m_addr'[d] = m_addr[d] /\ m_queue'[d] = m_queue[d]
<1>1. m_queue'[d] = m_queue[d]
  BY ObjectsKeep
<1>2. CASE d # c
  BY <1>1, <1>2, OthersKeep DEF SameTask
<1>3. CASE d = c
  <2>1. m_addr'[c] # BusAddrInvalid
    <3>1. CASE Connect(c)
      <4>1. ClientsAt(m_queue[c]) # {}
        BY <1>3 DEF RoutingInv, Listed, ClientsAt
      <4> DEFINE i == First(ClientsAt(m_queue[c]))
      <4>2. i \in DOMAIN m_clients
        BY <4>1, ClientFound DEF ClientsAt, TypeInv, TypeOK
      <4>3. m_clients[i].addr \in m_addrLast .. -1
        BY <4>2 DEF RoutingInv, AddressesConsistent
      <4>4. m_addr' = [m_addr EXCEPT ![c] = m_clients[i].addr]
        BY <3>1, <4>1 DEF Connect
      <4> QED
        BY <4>3, <4>4 DEF TypeInv, TypeOK, ObjectOK, RegistryOK, BusAddrInvalid
    <3>2. Usage \cap {"disconnect", "destroy"} = {}
      BY DEF EverybodyStays
    <3>3. CreateQueue(c) \/ DeleteQueue(c) => m_addr' = m_addr
      BY DEF CreateQueue, DeleteQueue
    <3> QED
      BY <1>3, <3>1, <3>2, <3>3, OnlySomeRegister DEF Step
  <2> QED
    BY <1>1, <1>3, <2>1, ObjectsKeep
<1> QED
  BY <1>2, <1>3

(* Nobody ever begins such a call.                                          *)
LEMMA NobodyLeaves ==
  ASSUME TypeInv, RoutingInv, OldestInv, StayInv, NEW c \in Clients, Step(c)
  PROVE  /\ NobodyLeft'
         /\ ~LeaveAddr(c) /\ ~Drain(c) /\ ~Drained(c) /\ ~DeleteQueue(c) /\ ~Construct(c)
         /\ ~Disconnect(c) /\ ~Destroy(c)
<1> USE DEF TypeInv, TypeOK, TaskOK, Goto, At, StayInv, EverybodyStays
<1>1. /\ ~LeaveAddr(c) /\ ~Drain(c) /\ ~Drained(c) /\ ~DeleteQueue(c) /\ ~Construct(c)
      /\ ~Disconnect(c) /\ ~Destroy(c) /\ \A n \in Names : ~LeaveName(c, n)
  BY DEF LeaveAddr, Drain, Drained, DeleteQueue, Construct, Disconnect, Destroy, LeaveName, NobodyLeft
<1> DEFINE Here(label, back) == label \notin {"leaveAddr", "drain", "delete", "dead"} /\ back = "idle"
<1>2. Here(pc[c], ret[c])
  BY DEF NobodyLeft
<1>3. ASSUME NEW d \in Clients PROVE Here(pc'[d], ret'[d])
  <2>1. CASE d # c
    BY <2>1, OthersKeep DEF SameTask, NobodyLeft
  <2>2. CASE d = c
    <3> USE <2>2, <1>2
    <3>1. CreateQueue(c) \/ Reconnect(c) => Here(pc'[c], ret'[c])
      BY DEF CreateQueue, Reconnect, local
    <3>2. (\E n \in Names : JoinName(c, n) \/ SendName(c, n)) => Here(pc'[c], ret'[c])
      BY DEF JoinName, SendName
    <3>3. (\E to \in m_addrLast .. -1 : SendAddr(c, to)) => Here(pc'[c], ret'[c])
      BY DEF SendAddr
    <3>4. Connect(c) => Here(pc'[c], ret'[c])
      BY DEF Connect, local
    <3>5. JoinAddr(c) => Here(pc'[c], ret'[c])
      BY DEF JoinAddr
    <3>6. BuildMsg(c) => Here(pc'[c], ret'[c])
      BY DEF BuildMsg
    <3>7. ForwardDone(c) => Here(pc'[c], ret'[c])
      BY DEF ForwardDone
    <3>8. Enqueue(c) => Here(pc'[c], ret'[c])
      BY DEF Enqueue
    <3>9. ResolveNext(c) => Here(pc'[c], ret'[c])
      <4>1. ResolveNext(c) => /\ ret' = ret
                              /\ pc' = [pc EXCEPT ![c] = ret[c]] \/ pc' = [pc EXCEPT ![c] = "enqueue"]
        BY Resolving DEF ResolveNext
      <4> QED
        BY <4>1
    <3>10. TryReceive(c) => Here(pc'[c], ret'[c])
      BY DEF TryReceive
    <3>11. FinishReceive(c) => Here(pc'[c], ret'[c])
      BY DEF FinishReceive
    <3> QED
      BY <1>1, <3>1, <3>2, <3>3, <3>4, <3>5, <3>6, <3>7, <3>8, <3>9, <3>10, <3>11
         DEF Step, Begin, Proceed
  <2> QED
    BY <2>1, <2>2
<1>4. ASSUME NEW addr \in m_addrLast' .. -1 PROVE \E d \in Clients : m_addr'[d] = addr
  <2>1. CASE addr \in m_addrLast .. -1
    <3>1. PICK d \in Clients : m_addr[d] = addr
      BY <2>1 DEF NobodyLeft
    <3>2. m_addr[d] # BusAddrInvalid
      BY <2>1, <3>1 DEF BusAddrInvalid, RegistryOK
    <3> QED
      BY <3>1, <3>2, AddressStays
  <2>2. CASE addr \notin m_addrLast .. -1
    <3>1. m_addrLast' # m_addrLast
      BY <2>2
    <3>2. Connect(c)
      <4>1. CreateQueue(c) => m_addrLast' = m_addrLast
        BY DEF CreateQueue, registry
      <4> QED
        BY <1>1, <3>1, <4>1, OnlySomeRegister DEF Step
    <3>3. m_addrLast' = m_addrLast - 1 /\ m_addr' = [m_addr EXCEPT ![c] = m_addrLast']
      BY <3>1, <3>2 DEF Connect
    <3>4. addr = m_addrLast'
      BY <2>2, <3>3 DEF RegistryOK
    <3> QED
      BY <3>3, <3>4 DEF ObjectOK
  <2> QED
    BY <2>1, <2>2
<1> QED
  BY <1>1, <1>3, <1>4 DEF NobodyLeft

(* The list a message was built with, its sender and its address are its    *)
(* own for good.                                                            *)
LEMMA MessagesSame ==
  ASSUME TypeInv, NEW c \in Clients, Step(c), NEW id \in DOMAIN msgs
  PROVE  /\ id \in DOMAIN msgs' /\ msgs'[id].targets = msgs[id].targets
         /\ msgs'[id].from = msgs[id].from /\ msgs'[id].to = msgs[id].to
<1>1. id \in DOMAIN msgs' /\ msgs'[id].targets = msgs[id].targets
  BY MessagesKeep
<1>2. CASE ResolveNext(c)
  <2>1. out[c] \in DOMAIN msgs
    BY <1>2, Resolving
  <2>2. ASSUME NEW new, msgs' = [msgs EXCEPT ![out[c]].destination = new]
        PROVE  msgs'[id].from = msgs[id].from /\ msgs'[id].to = msgs[id].to
    <3>1. msgs[id] \in Message
      BY ElementOfSeq DEF TypeInv, TypeOK, MessageOK
    <3> QED
      BY <2>1, <2>2, <3>1 DEF Message
  <2> QED
    BY <1>1, <1>2, <2>2 DEF ResolveNext
<1>3. CASE BuildMsg(c) /\ msgs' # msgs
  BY <1>1, <1>3, Building
<1>4. ForwardDone(c) \/ Enqueue(c) \/ TryReceive(c) \/ FinishReceive(c) \/ Drain(c) => msgs' = msgs
  BY DEF ForwardDone, Enqueue, TryReceive, FinishReceive, Drain
<1>5. Quiet(c) => msgs' = msgs
  BY DEF Quiet
<1> QED
  BY <1>1, <1>2, <1>3, <1>4, <1>5, StepKinds

(* A list ends with itself.                                                 *)
LEMMA EndsWithItself ==
  ASSUME NEW S, NEW s \in Seq(S)
  PROVE  EndsWith(s, s)
<1>1. Len(s) \in Nat /\ DOMAIN s = 1 .. Len(s)
  OBVIOUS
<1> QED
  BY <1>1 DEF EndsWith

(* A list with one more element in front ends with what it ended with.      *)
LEMMA EndsWithRest ==
  ASSUME NEW S, NEW s \in Seq(S), NEW t \in Seq(S), NEW e \in S, EndsWith(t, s)
  PROVE  EndsWith(EmplaceFront(e, t), s)
<1> DEFINE new == EmplaceFront(e, t)
<1>1. /\ Len(new) = Len(t) + 1 /\ Len(t) \in Nat /\ Len(s) \in Nat
      /\ DOMAIN s = 1 .. Len(s)
  <2>1. new \in Seq(S) /\ Len(new) = Len(t) + 1
    BY EmplaceFrontType
  <2> QED
    BY <2>1
<1>2. \A i \in 2 .. Len(t) + 1 : new[i] = t[i - 1]
  BY DEF EmplaceFront
<1> HIDE DEF new
<1>3. Len(s) <= Len(t) /\ \A i \in 1 .. Len(s) : t[Len(t) - Len(s) + i] = s[i]
  BY <1>1 DEF EndsWith
<1>4. ASSUME NEW i \in 1 .. Len(s) PROVE new[Len(new) - Len(s) + i] = s[i]
  <2> DEFINE j == Len(new) - Len(s) + i
  <2>1. j \in 2 .. Len(t) + 1 /\ j - 1 = Len(t) - Len(s) + i
    BY <1>1, <1>3
  <2>2. new[j] = t[j - 1]
    BY <1>2, <2>1
  <2> QED
    BY <1>3, <2>1, <2>2
<1> QED
  BY <1>1, <1>3, <1>4 DEF EndsWith, new

(* Where nobody leaves, a group stays and its list grows in front.          *)
LEMMA GroupsGrow ==
  ASSUME TypeInv, NEW c \in Clients, Step(c), ~LeaveAddr(c), NEW g \in DOMAIN m_groups,
         NEW s \in Seq(Int), EndsWith(m_groups[g].destination, s)
  PROVE  \E h \in DOMAIN m_groups' :
           m_groups'[h].addr = m_groups[g].addr /\ EndsWith(m_groups'[h].destination, s)
<1>1. CASE m_groups' = m_groups
  BY <1>1
<1>2. ASSUME NEW n \in Names, JoinName(c, n), m_groups' # m_groups
      PROVE  \E h \in DOMAIN m_groups' : m_groups'[h] = m_groups[g]
  <2>1. m_groups \in Seq(Group) /\ NewGroup(n) \in Group
    BY DEF TypeInv, TypeOK, RegistryOK, NewGroup, Group
  <2> DEFINE new == EmplaceFront(NewGroup(n), m_groups)
  <2>2. m_groups' = new
    BY <1>2 DEF JoinName
  <2>3. new \in Seq(Group) /\ Len(new) = Len(m_groups) + 1
    BY <2>1, EmplaceFrontType
  <2>4. \A i \in 2 .. Len(m_groups) + 1 : new[i] = m_groups[i - 1]
    BY <2>1, EmplaceFrontType
  <2> HIDE DEF new
  <2>5. g + 1 \in DOMAIN new /\ g + 1 \in 2 .. Len(m_groups) + 1 /\ (g + 1) - 1 = g
    BY <2>1, <2>3
  <2> QED
    BY <2>2, <2>4, <2>5
<1>3. CASE JoinAddr(c) /\ m_groups' # m_groups
  <2> DEFINE k == First(GroupsAt(arg[c]))
             members == m_groups[k].destination
  <2>1. k \in DOMAIN m_groups
    <3>1. GroupsAt(arg[c]) \subseteq DOMAIN m_groups
      BY DEF GroupsAt
    <3>2. GroupsAt(arg[c]) # {}
      BY <1>3 DEF JoinAddr
    <3> QED
      BY <3>1, <3>2, GroupFound DEF TypeInv, TypeOK
  <2>2. m_groups' = [m_groups EXCEPT ![k].destination = EmplaceFront(m_addr[c], members)]
    BY <1>3 DEF JoinAddr
  <2>3. members \in Seq(Int) /\ m_addr[c] \in Int
    BY <2>1, GroupType DEF TypeInv, TypeOK, ObjectOK
  <2> HIDE DEF members
  <2>4. g \in DOMAIN m_groups' /\ m_groups'[g].addr = m_groups[g].addr
    BY <2>2, GroupType DEF Group
  <2>5. CASE g = k
    <3>1. m_groups'[g].destination = EmplaceFront(m_addr[c], members)
      BY <2>2, <2>5, GroupType DEF Group
    <3>2. EndsWith(EmplaceFront(m_addr[c], members), s)
      BY <2>3, <2>5, EndsWithRest DEF members
    <3> QED
      BY <2>4, <3>1, <3>2
  <2>6. CASE g # k
    BY <2>2, <2>4, <2>6
  <2> QED
    BY <2>5, <2>6
<1> QED
  BY <1>1, <1>2, <1>3, OnlySomeRegroup

(* What send(addr) puts into a new message.                                 *)
LEMMA BuiltMessage ==
  ASSUME TypeInv, NEW c \in Clients, BuildMsg(c), msgs' # msgs
  PROVE  /\ msgs'[Len(msgs) + 1].from = m_addr[c] /\ msgs'[Len(msgs) + 1].to = arg[c]
         /\ arg[c] \in Int
<1> DEFINE list == Destination(arg[c])
           new == [from |-> m_addr[c], to |-> arg[c], destination |-> list, targets |-> list]
<1>1. arg[c] \in Int /\ list \in Seq(Int)
  BY DestinationType DEF TypeInv, TypeOK, TaskOK
<1>2. msgs' = Append(msgs, new)
  BY DEF BuildMsg
<1>3. new \in Message /\ msgs \in Seq(Message)
  BY <1>1 DEF Message, TypeInv, TypeOK, ObjectOK, MessageOK
<1>4. new.from = m_addr[c] /\ new.to = arg[c]
  OBVIOUS
<1> HIDE DEF new
<1>5. msgs'[Len(msgs) + 1] = new
  BY <1>2, <1>3, AppendProperties
<1> QED
  BY <1>1, <1>4, <1>5

(* A new message has the way of the ones before it, and more.               *)
LEMMA NewRoute ==
  ASSUME TypeInv, GroupInv, RoutesGrow, NEW c \in Clients, BuildMsg(c), msgs' # msgs
  PROVE  LET new == Destination(arg[c])
         IN  /\ \/ arg[c] < 0 /\ new = <<arg[c]>>
                \/ \E g \in DOMAIN m_groups :
                     m_groups[g].addr = arg[c] /\ EndsWith(m_groups[g].destination, new)
             /\ \A a \in DOMAIN msgs : msgs[a].to = arg[c] => EndsWith(new, msgs[a].targets)
<1> DEFINE new == Destination(arg[c])
<1>1. new \in Seq(Int) /\ new # <<>>
  BY Building
<1>2. \A g, h \in DOMAIN m_groups :
        m_groups[g].addr >= 1 /\ (m_groups[g].addr = m_groups[h].addr => g = h)
  BY DEF GroupInv, GroupsConsistent, TypeInv, TypeOK, RegistryOK
<1>3. CASE arg[c] < 0
  <2>1. new = <<arg[c]>>
    BY <1>3 DEF Destination
  <2>2. ASSUME NEW a \in DOMAIN msgs, msgs[a].to = arg[c] PROVE msgs[a].targets = new
    <3>1. \/ msgs[a].targets = <<msgs[a].to>>
          \/ \E g \in DOMAIN m_groups : m_groups[g].addr = msgs[a].to
      BY DEF RoutesGrow
    <3>2. \A g \in DOMAIN m_groups : m_groups[g].addr # arg[c]
      BY <1>2, <1>3, BuiltMessage
    <3> QED
      BY <2>1, <2>2, <3>1, <3>2
  <2> QED
    BY <1>1, <1>3, <2>1, <2>2, EndsWithItself
<1>4. CASE ~(arg[c] < 0)
  <2> DEFINE k == First(GroupsAt(arg[c]))
  <2>1. GroupsAt(arg[c]) # {} /\ new = m_groups[k].destination
    BY <1>1, <1>4 DEF Destination
  <2>2. k \in DOMAIN m_groups /\ m_groups[k].addr = arg[c]
    <3>1. GroupsAt(arg[c]) \subseteq DOMAIN m_groups
      BY DEF GroupsAt
    <3>2. k \in GroupsAt(arg[c])
      BY <2>1, <3>1, GroupFound DEF TypeInv, TypeOK
    <3> QED
      BY <3>2 DEF GroupsAt
  <2> HIDE DEF k
  <2>3. ASSUME NEW a \in DOMAIN msgs, msgs[a].to = arg[c] PROVE EndsWith(new, msgs[a].targets)
    <3>1. PICK g \in DOMAIN m_groups :
             m_groups[g].addr = msgs[a].to /\ EndsWith(m_groups[g].destination, msgs[a].targets)
      BY <1>4, <2>3 DEF RoutesGrow
    <3>2. g = k
      BY <1>2, <2>2, <2>3, <3>1
    <3> QED
      BY <2>1, <3>1, <3>2
  <2>4. EndsWith(m_groups[k].destination, new)
    BY <1>1, <2>1, EndsWithItself
  <2> QED
    BY <2>2, <2>3, <2>4
<1> QED
  BY <1>3, <1>4

(* What is left of the way of a message is the front of its list.           *)
LEMMA RestNext ==
  ASSUME TypeInv, StayInv, NEW c \in Clients, Step(c), NEW id \in DOMAIN msgs
  PROVE  /\ Rest(id)' <= Len(msgs'[id].targets)
         /\ \A i \in 1 .. Rest(id)' : msgs'[id].destination[i] = msgs'[id].targets[i]
<1> DEFINE list == msgs[id].destination
           all  == msgs[id].targets
           n    == Final(Valid(list))
<1>1. msgs'[id].targets = all
  BY MessagesSame
<1>2. list \in Seq(Int) /\ all \in Seq(Int)
  BY MessageParts
<1>3. Len(list) <= Len(all) /\ \A i \in 1 .. Len(list) : list[i] = all[i]
  BY DEF StayInv, RoutesGrow, Rest
<1>4. \/ msgs'[id].destination = list \/ msgs'[id].destination = <<>>
      \/ n \in 1 .. Len(list) /\ msgs'[id].destination = SubSeq(list, 1, n - 1)
  BY ListChanges
<1> HIDE DEF list, all, n
<1>5. CASE msgs'[id].destination = list
  BY <1>1, <1>3, <1>5 DEF Rest
<1>6. CASE msgs'[id].destination = <<>>
  BY <1>1, <1>2, <1>6 DEF Rest
<1>7. CASE n \in 1 .. Len(list) /\ msgs'[id].destination = SubSeq(list, 1, n - 1)
  <2>1. /\ Len(list) \in Nat /\ Len(all) \in Nat /\ Len(SubSeq(list, 1, n - 1)) = n - 1
        /\ \A i \in 1 .. n - 1 : SubSeq(list, 1, n - 1)[i] = list[i]
    BY <1>2, <1>7, Prefix
  <2> QED
    BY <1>1, <1>3, <1>7, <2>1 DEF Rest
<1> QED
  BY <1>4, <1>5, <1>6, <1>7

(* Every step keeps the ways as they are, or adds one.                      *)
LEMMA RoutesNext ==
  ASSUME TypeInv, RoutingInv, OldestInv, GroupInv, ListsDistinct', StayInv,
         NEW c \in Clients, Step(c)
  PROVE  RoutesGrow'
<1> DEFINE x == Len(msgs) + 1
           Built == BuildMsg(c) /\ msgs' # msgs
<1>1. DOMAIN msgs' = DOMAIN msgs \/ (Built /\ DOMAIN msgs' = DOMAIN msgs \cup {x})
  <2>1. Built => DOMAIN msgs' = DOMAIN msgs \cup {x}
    <3>1. Built => DOMAIN msgs = 1 .. Len(msgs) /\ DOMAIN msgs' = 1 .. x /\ Len(msgs) \in Nat
      BY Building
    <3> QED
      BY <3>1
  <2> QED
    BY <2>1, MessagesKeep
<1>2. DOMAIN msgs = 1 .. Len(msgs) /\ Len(msgs) \in Nat
  BY DEF TypeInv, TypeOK, MessageOK
<1>3. Built => LET new == Destination(arg[c])
               IN  /\ msgs'[x].targets = new /\ msgs'[x].destination = new
                   /\ msgs'[x].to = arg[c] /\ new # <<>> /\ new \in Seq(Int)
  BY Building, BuiltMessage
<1>4. ASSUME NEW id \in DOMAIN msgs'
      PROVE  /\ msgs'[id].targets # <<>> /\ Distinct(msgs'[id].targets)
             /\ Rest(id)' <= Len(msgs'[id].targets)
             /\ \A i \in 1 .. Rest(id)' : msgs'[id].destination[i] = msgs'[id].targets[i]
  <2>1. CASE id \in DOMAIN msgs
    <3>1. msgs'[id].targets = msgs[id].targets
      BY <2>1, MessagesSame
    <3> QED
      BY <2>1, <3>1, RestNext DEF StayInv, RoutesGrow
  <2>2. CASE id \notin DOMAIN msgs
    <3>1. id = x /\ Built
      BY <1>1, <2>2
    <3>2. msgs'[id].targets = msgs'[id].destination /\ msgs'[id].targets # <<>>
      BY <1>3, <3>1
    <3>3. Distinct(msgs'[id].destination) /\ Len(msgs'[id].destination) \in Nat
      BY <1>3, <3>1 DEF ListsDistinct
    <3> QED
      BY <3>2, <3>3 DEF Rest
  <2> QED
    BY <2>1, <2>2
<1>5. ASSUME NEW id \in DOMAIN msgs'
      PROVE  \/ msgs'[id].to < 0 /\ msgs'[id].targets = <<msgs'[id].to>>
             \/ \E g \in DOMAIN m_groups' :
                  /\ m_groups'[g].addr = msgs'[id].to
                  /\ EndsWith(m_groups'[g].destination, msgs'[id].targets)
  <2>1. CASE id \in DOMAIN msgs
    <3>1. msgs'[id].targets = msgs[id].targets /\ msgs'[id].to = msgs[id].to
          /\ msgs[id].targets \in Seq(Int)
      BY <2>1, MessagesSame, MessageParts
    <3>2. ~LeaveAddr(c)
      BY NobodyLeaves
    <3>3. CASE msgs[id].to < 0 /\ msgs[id].targets = <<msgs[id].to>>
      BY <3>1, <3>3
    <3>4. ASSUME NEW g \in DOMAIN m_groups, m_groups[g].addr = msgs[id].to,
                 EndsWith(m_groups[g].destination, msgs[id].targets)
          PROVE  \E h \in DOMAIN m_groups' :
                   /\ m_groups'[h].addr = msgs'[id].to
                   /\ EndsWith(m_groups'[h].destination, msgs'[id].targets)
      BY <3>1, <3>2, <3>4, GroupsGrow
    <3> QED
      BY <2>1, <3>3, <3>4 DEF StayInv, RoutesGrow
  <2>2. CASE id \notin DOMAIN msgs
    <3>1. id = x /\ Built
      BY <1>1, <2>2
    <3>2. m_groups' = m_groups
      BY <3>1 DEF BuildMsg, registry
    <3> QED
      BY <1>3, <3>1, <3>2, NewRoute DEF StayInv
  <2> QED
    BY <2>1, <2>2
<1>6. ASSUME NEW b \in DOMAIN msgs', NEW a \in 1 .. b, msgs'[a].to = msgs'[b].to
      PROVE  EndsWith(msgs'[b].targets, msgs'[a].targets)
  <2>1. CASE b \in DOMAIN msgs
    <3>1. a \in DOMAIN msgs
      BY <1>2, <2>1
    <3>2. /\ msgs'[a].targets = msgs[a].targets /\ msgs'[a].to = msgs[a].to
          /\ msgs'[b].targets = msgs[b].targets /\ msgs'[b].to = msgs[b].to
      BY <2>1, <3>1, MessagesSame
    <3> QED
      BY <1>6, <2>1, <3>2 DEF StayInv, RoutesGrow
  <2>2. CASE b \notin DOMAIN msgs
    <3>1. b = x /\ Built
      BY <1>1, <2>2
    <3>2. CASE a = b
      BY <1>3, <3>1, <3>2, EndsWithItself
    <3>3. CASE a # b
      <4>1. a \in DOMAIN msgs
        BY <1>2, <3>1, <3>3
      <4>2. msgs'[a].targets = msgs[a].targets /\ msgs'[a].to = msgs[a].to
        BY <4>1, MessagesSame
      <4> QED
        BY <1>3, <1>6, <3>1, <4>1, <4>2, NewRoute DEF StayInv
    <3> QED
      BY <3>2, <3>3
  <2> QED
    BY <2>1, <2>2
<1> QED
  BY <1>4, <1>5, <1>6 DEF RoutesGrow

(* Where nobody is taken away, nobody leaves and the ways grow.             *)
LEMMA StayAlways == EverybodyStays /\ Spec => []StayInv
<1> SUFFICES ASSUME EverybodyStays PROVE Spec => []StayInv
  OBVIOUS
<1>1. OldestStays /\ "leave" \notin Usage
  BY DEF EverybodyStays, OldestStays
<1>2. Spec => []OldestInv
  BY <1>1, OldestAlways
<1>3. Spec => []OnceInv
  BY <1>1, OnceAlways
<1>4. Init => StayInv
  BY DEF Init, StayInv, NobodyLeft, RoutesGrow, BusAddrInvalid
<1>5. TypeInv /\ RoutingInv /\ OldestInv /\ GroupInv /\ OnceInv' /\ StayInv /\ [Next]_vars
      => StayInv'
  <2> SUFFICES ASSUME TypeInv, RoutingInv, OldestInv, GroupInv, OnceInv', StayInv, [Next]_vars
               PROVE  StayInv'
    OBVIOUS
  <2>1. CASE UNCHANGED vars
    <3>1. UNCHANGED <<pc, ret, m_addrLast, m_addr, msgs, m_groups>>
      BY <2>1 DEF vars, registry, object, local
    <3> QED
      BY <3>1 DEF StayInv, NobodyLeft, RoutesGrow, Rest, EndsWith, Distinct
  <2>2. ASSUME NEW c \in Clients, Step(c) PROVE StayInv'
    BY <2>2, NobodyLeaves, RoutesNext DEF StayInv, OnceInv
  <2> QED
    BY <2>1, <2>2 DEF Next, Step
<1> QED
  BY <1>2, <1>3, <1>4, <1>5, TypeAlways, RoutingAlways, GroupAlways, PTL DEF Spec

(* The length of a list and of what is left of it.                          *)
LEMMA Lengths ==
  ASSUME TypeInv, StayInv, NEW id \in DOMAIN msgs
  PROVE  /\ Rest(id) \in Nat /\ Len(msgs[id].targets) \in Nat /\ Len(msgs[id].targets) >= 1
         /\ DOMAIN msgs[id].targets = 1 .. Len(msgs[id].targets)
         /\ Rest(id) <= Len(msgs[id].targets)
<1>1. msgs[id].destination \in Seq(Int) /\ msgs[id].targets \in Seq(Int)
  BY MessageParts
<1>2. msgs[id].targets # <<>> /\ Rest(id) <= Len(msgs[id].targets)
  BY DEF StayInv, RoutesGrow
<1>3. Rest(id) \in Nat
  BY <1>1 DEF Rest
<1> QED
  BY <1>1, <1>2, <1>3

(* Whoever is on a list is connected, and stays.                            *)
LEMMA TargetStays ==
  ASSUME TypeInv, RoutingInv, OldestInv, StayInv, AddressesKnown, NEW c \in Clients, Step(c),
         NEW id \in DOMAIN msgs, NEW i \in DOMAIN msgs[id].targets, NEW d \in Clients,
         msgs[id].targets[i] = m_addr[d]
  PROVE  m_addr[d] # BusAddrInvalid /\ m_addr'[d] = m_addr[d] /\ m_queue'[d] = m_queue[d]
<1>1. m_addr[d] \in m_addrLast .. -1
  BY DEF AddressesKnown, Elements
<1>2. m_addr[d] # BusAddrInvalid
  BY <1>1 DEF BusAddrInvalid, TypeInv, TypeOK, RegistryOK
<1> QED
  BY <1>2, AddressStays DEF StayInv

(* The last address left is the next one to be visited: none is skipped.    *)
LEMMA VisitNext ==
  ASSUME TypeInv, RoutingInv, OldestInv, StayInv, AddressesKnown, NEW c \in Clients,
         ResolveNext(c), NEW id, id = out[c]
  PROVE  /\ id \in DOMAIN msgs /\ Rest(id) >= 1 /\ Rest(id)' = Rest(id) - 1
         /\ pc'[c] = "enqueue" /\ out' = out /\ UNCHANGED <<m_addr, m_queue>>
         /\ \E d \in Clients :
              /\ m_addr[d] # BusAddrInvalid /\ dest'[c] = m_queue[d]
              /\ m_addr[d] = msgs[id].targets[Rest(id)]
<1> DEFINE list == msgs[id].destination
           n    == Final(Valid(list))
<1>1. /\ id \in DOMAIN msgs /\ list \in Seq(Int) /\ list # <<>>
      /\ UNCHANGED <<m_addr, m_queue>> /\ pc[c] = "forward"
  BY Resolving DEF ResolveNext, At, object
<1>2. /\ Rest(id) = Len(list) /\ Len(list) \in Nat /\ Len(list) >= 1
      /\ DOMAIN list = 1 .. Len(list)
  BY <1>1 DEF Rest
<1>3. ASSUME NEW i \in DOMAIN list
      PROVE  \E d \in Clients :
               /\ m_addr[d] # BusAddrInvalid /\ m_addr[d] = list[i]
               /\ Resolvable(list[i]) # {} /\ Resolve(list[i]) = m_queue[d]
  <2>1. list[i] = msgs[id].targets[i] /\ i \in DOMAIN msgs[id].targets
    BY <1>1, <1>2, <1>3, Lengths DEF StayInv, RoutesGrow
  <2>2. list[i] \in m_addrLast .. -1
    BY <1>1, <2>1 DEF AddressesKnown, Elements
  <2>3. PICK d \in Clients : m_addr[d] = list[i]
    BY <2>2 DEF StayInv, NobodyLeft
  <2>4. m_addr[d] # BusAddrInvalid
    BY <2>2, <2>3 DEF BusAddrInvalid, TypeInv, TypeOK, RegistryOK
  <2> QED
    BY <2>3, <2>4, ConnectedResolves
<1>4. Len(list) \in Valid(list) /\ Valid(list) \subseteq DOMAIN list
  <2> HIDE DEF list
  <2>1. \A i \in DOMAIN list : Resolvable(list[i]) # {}
    BY <1>3
  <2>2. Len(list) \in DOMAIN list
    BY <1>2
  <2> QED
    BY <2>1, <2>2 DEF Valid
<1>5. /\ n \in Valid(list) /\ \A j \in Valid(list) : j <= n
      /\ msgs'[id].destination = SubSeq(list, 1, n - 1)
      /\ dest' = [dest EXCEPT ![c] = Resolve(list[n])]
      /\ pc' = [pc EXCEPT ![c] = "enqueue"] /\ UNCHANGED out
  BY <1>4, Resolving
<1> HIDE DEF n
<1>6. n = Len(list)
  BY <1>2, <1>4, <1>5
<1>7. Rest(id)' = Rest(id) - 1
  <2>1. Len(SubSeq(list, 1, n - 1)) = n - 1
    BY <1>1, <1>2, <1>6
  <2>2. Rest(id)' = Len(msgs'[id].destination)
    BY DEF Rest
  <2> QED
    BY <1>2, <1>5, <1>6, <2>1, <2>2
<1>8. list[n] = msgs[id].targets[Rest(id)]
  BY <1>1, <1>2, <1>6 DEF StayInv, RoutesGrow
<1>9. dest'[c] = Resolve(list[n]) /\ pc'[c] = "enqueue"
  BY <1>5 DEF TypeInv, TypeOK, TaskOK
<1> HIDE DEF list
<1>10. PICK d \in Clients :
         m_addr[d] # BusAddrInvalid /\ m_addr[d] = list[n] /\ Resolve(list[n]) = m_queue[d]
  BY <1>2, <1>3, <1>6
<1> QED
  BY <1>1, <1>2, <1>5, <1>7, <1>8, <1>9, <1>10

(* Only that takes an address off a list.                                   *)
LEMMA RestSame ==
  ASSUME TypeInv, NEW c \in Clients, Step(c), NEW id \in DOMAIN msgs,
         ~(ResolveNext(c) /\ out[c] = id)
  PROVE  Rest(id)' = Rest(id)
  BY ListChanges DEF Rest

(* What is on its way to a client is a message, and nobody is looking for   *)
(* where it goes next.                                                      *)
LEMMA ComesKnown ==
  ASSUME TypeInv, OwnerInv, NEW d \in Clients, m_queue[d] # NoQueue, NEW id, Comes(id, d)
  PROVE  /\ id \in DOMAIN msgs
         /\ \A c \in Clients : pc[c] = "forward" => out[c] # id
         /\ \A c \in Clients : hand[c] # id
<1>1. m_queue[d] \in Queues
  BY DEF TypeInv, TypeOK, ObjectOK
<1>2. CASE id \in Elements(fifo[m_queue[d]])
  <2>1. id \in DOMAIN msgs
    BY <1>1, <1>2 DEF TypeInv, TypeOK, HeapOK, Elements
  <2>2. \A c \in Clients : out[c] # id /\ hand[c] # id
    BY <1>1, <1>2 DEF OwnerInv, OneSlot
  <2> QED
    BY <2>1, <2>2
<1>3. ASSUME NEW t \in Clients, Entering(t, id, d)
      PROVE  /\ id \in DOMAIN msgs
             /\ \A c \in Clients : pc[c] = "forward" => out[c] # id
             /\ \A c \in Clients : hand[c] # id
  <2>1. pc[t] = "enqueue" /\ out[t] = id
    BY <1>3 DEF Entering, At
  <2>2. id \in DOMAIN msgs /\ id # 0
    BY <2>1, SenderOwns DEF Sending
  <2>3. \A c \in Clients : out[c] = id => c = t
    BY <2>1, <2>2 DEF OwnerInv, OneSlot
  <2>4. \A c \in Clients : hand[c] # id
    BY <2>1, <2>2 DEF OwnerInv, OneSlot
  <2> QED
    BY <2>1, <2>2, <2>3, <2>4
<1> QED
  BY <1>2, <1>3 DEF Comes

(* What a client received it received before, or takes off its queue.       *)
LEMMA ReceivedFrom ==
  ASSUME TypeInv, OwnerInv, ComesOnce, NEW c \in Clients, Step(c), NEW d \in Clients,
         NEW id \in Elements(got'[d])
  PROVE  /\ id \in DOMAIN msgs
         /\ \/ id \in Elements(got[d])
            \/ TryReceive(c) /\ d = c /\ id = Head(fifo[m_queue[d]])
<1>1. Elements(got[d]) \subseteq DOMAIN msgs /\ got[d] \in Seq(Nat)
  BY DEF ComesOnce, TypeInv, TypeOK, MessageOK
<1>2. CASE got'[d] = got[d]
  BY <1>1, <1>2
<1>3. CASE got'[d] = <<>>
  BY <1>3 DEF Elements
<1>4. CASE TryReceive(c) /\ d = c /\ got'[d] = Append(got[d], Head(fifo[m_queue[d]]))
  <2> DEFINE x == Head(fifo[m_queue[d]])
  <2>1. x \in DOMAIN msgs /\ x \in Nat
    BY <1>4, TakenOnce
  <2> HIDE DEF x
  <2>2. Elements(Append(got[d], x)) = Elements(got[d]) \cup {x}
    BY <1>1, <2>1, AppendElements
  <2> QED
    BY <1>1, <1>4, <2>1, <2>2 DEF x
<1> QED
  BY <1>2, <1>3, <1>4, ReceivedBy

---------------------------------------------------------------------------
(* Where the messages are.                                                  *)

(* Everything shown above of a bus that nobody leaves.                      *)
StayingInv ==
  /\ TypeInv /\ RoutingInv /\ GroupInv /\ OldestInv
  /\ TargetInv /\ OwnerInv /\ DeliveryInv /\ OnceInv /\ StayInv

(* All of it holds in every state reached.                                  *)
LEMMA StayingAlways == EverybodyStays /\ Spec => []StayingInv
<1> SUFFICES ASSUME EverybodyStays PROVE Spec => []StayingInv
  OBVIOUS
<1>1. OldestStays /\ "leave" \notin Usage
  BY DEF EverybodyStays, OldestStays
<1>2. Spec => []OldestInv /\ []TargetInv /\ []OwnerInv /\ []DeliveryInv
  BY <1>1, OldestAlways, TargetAlways, OwnerAlways, DeliveryAlways
<1>3. Spec => []OnceInv
  BY <1>1, OnceAlways
<1>4. Spec => []StayInv
  BY StayAlways
<1>5. TypeInv /\ RoutingInv /\ GroupInv /\ OldestInv /\ TargetInv /\ OwnerInv /\ DeliveryInv
        /\ OnceInv /\ StayInv => StayingInv
  BY DEF StayingInv
<1> QED
  BY <1>2, <1>3, <1>4, <1>5, TypeAlways, RoutingAlways, GroupAlways, PTL

(* The client that a message was addressed to is the next on its list.      *)
LEMMA ResolvedIsNext ==
  ASSUME StayingInv, NEW c \in Clients, NEW id, NEW d \in Clients, m_queue[d] # NoQueue,
         Resolves(c, id, d)
  PROVE  /\ id \in DOMAIN msgs /\ Rest(id) >= 1 /\ Rest(id)' = Rest(id) - 1
         /\ m_addr'[d] = m_addr[d] /\ m_addr[d] = msgs[id].targets[Rest(id)]
<1>1. ResolveNext(c) /\ id = out[c] /\ dest'[c] = m_queue[d]
  BY DEF Resolves
<1>2. /\ id \in DOMAIN msgs /\ Rest(id) >= 1 /\ Rest(id)' = Rest(id) - 1 /\ m_addr' = m_addr
      /\ \E e \in Clients : /\ m_addr[e] # BusAddrInvalid /\ dest'[c] = m_queue[e]
                            /\ m_addr[e] = msgs[id].targets[Rest(id)]
  BY <1>1, VisitNext DEF StayingInv, DeliveryInv
<1>3. PICK e \in Clients : /\ m_addr[e] # BusAddrInvalid /\ dest'[c] = m_queue[e]
                           /\ m_addr[e] = msgs[id].targets[Rest(id)]
  BY <1>2
<1>4. e = d
  BY <1>1, <1>3 DEF StayingInv, TypeInv, OneQueueEach
<1> QED
  BY <1>2, <1>3, <1>4

(* What is left of a list only gets shorter.                                *)
LEMMA RestShrinks ==
  ASSUME StayingInv, NEW c \in Clients, Step(c), NEW id \in DOMAIN msgs
  PROVE  Rest(id)' \in Nat /\ Rest(id)' <= Rest(id)
<1>1. CASE ResolveNext(c) /\ out[c] = id
  BY <1>1, VisitNext, Lengths DEF StayingInv, DeliveryInv
<1>2. CASE ~(ResolveNext(c) /\ out[c] = id)
  BY <1>2, RestSame, Lengths DEF StayingInv
<1> QED
  BY <1>1, <1>2

(* A message has been to the clients that received it, and is on its way to *)
(* the one whose address was taken off its list last.                       *)
Visits ==
  \A d \in Clients :
    /\ \A id \in Elements(got[d]) :
         \E i \in DOMAIN msgs[id].targets : i > Rest(id) /\ msgs[id].targets[i] = m_addr[d]
    /\ m_queue[d] # NoQueue =>
         \A id \in DOMAIN msgs : Comes(id, d) =>
            Rest(id) < Len(msgs[id].targets) /\ msgs[id].targets[Rest(id) + 1] = m_addr[d]

(* Where a message has been and where it goes, after a step.                *)
LEMMA VisitsNext ==
  ASSUME StayingInv, Visits, NEW c \in Clients, Step(c)
  PROVE  Visits'
<1> USE DEF StayingInv, OnceInv, DeliveryInv
<1> SUFFICES ASSUME NEW d \in Clients
             PROVE  /\ \A id \in Elements(got'[d]) : \E i \in DOMAIN msgs'[id].targets :
                         i > Rest(id)' /\ msgs'[id].targets[i] = m_addr'[d]
                    /\ m_queue'[d] # NoQueue =>
                         \A id \in DOMAIN msgs' : Comes(id, d)' =>
                            /\ Rest(id)' < Len(msgs'[id].targets)
                            /\ msgs'[id].targets[Rest(id)' + 1] = m_addr'[d]
  BY DEF Visits
<1>1. ASSUME NEW id \in Elements(got'[d])
      PROVE  \E i \in DOMAIN msgs'[id].targets :
                i > Rest(id)' /\ msgs'[id].targets[i] = m_addr'[d]
  <2>1. /\ id \in DOMAIN msgs
        /\ \/ id \in Elements(got[d])
           \/ TryReceive(c) /\ d = c /\ id = Head(fifo[m_queue[d]])
    BY <1>1, ReceivedFrom
  <2>2. \E i \in DOMAIN msgs[id].targets : i > Rest(id) /\ msgs[id].targets[i] = m_addr[d]
    <3>1. CASE id \in Elements(got[d])
      BY <3>1 DEF Visits
    <3>2. CASE TryReceive(c) /\ d = c /\ id = Head(fifo[m_queue[d]])
      <4>1. m_queue[d] # NoQueue /\ Comes(id, d)
        BY <3>2, TakenOnce
      <4>2. Rest(id) < Len(msgs[id].targets) /\ msgs[id].targets[Rest(id) + 1] = m_addr[d]
        BY <2>1, <4>1 DEF Visits
      <4> QED
        BY <2>1, <4>2, Lengths
    <3> QED
      BY <2>1, <3>1, <3>2
  <2>3. PICK i \in DOMAIN msgs[id].targets : i > Rest(id) /\ msgs[id].targets[i] = m_addr[d]
    BY <2>2
  <2>4. m_addr'[d] = m_addr[d] /\ msgs'[id].targets = msgs[id].targets
    BY <2>1, <2>3, TargetStays, MessagesSame
  <2>5. i > Rest(id)'
    BY <2>1, <2>3, RestShrinks, Lengths
  <2> QED
    BY <2>3, <2>4, <2>5
<1>2. ASSUME m_queue'[d] # NoQueue, NEW id \in DOMAIN msgs', Comes(id, d)'
      PROVE  /\ Rest(id)' < Len(msgs'[id].targets)
             /\ msgs'[id].targets[Rest(id)' + 1] = m_addr'[d]
  <2>1. m_queue'[d] = m_queue[d] /\ (Comes(id, d) \/ Resolves(c, id, d))
    BY <1>2, CameFrom
  <2>2. CASE Comes(id, d)
    <3>1. id \in DOMAIN msgs /\ (pc[c] = "forward" => out[c] # id)
      BY <1>2, <2>1, <2>2, ComesKnown
    <3>2. Rest(id)' = Rest(id)
      BY <3>1, RestSame DEF ResolveNext, At
    <3>3. Rest(id) < Len(msgs[id].targets) /\ msgs[id].targets[Rest(id) + 1] = m_addr[d]
      BY <1>2, <2>1, <2>2, <3>1 DEF Visits
    <3>4. Rest(id) + 1 \in DOMAIN msgs[id].targets
      BY <3>1, <3>3, Lengths
    <3>5. m_addr'[d] = m_addr[d] /\ msgs'[id].targets = msgs[id].targets
      BY <3>1, <3>3, <3>4, TargetStays, MessagesSame
    <3> QED
      BY <3>2, <3>3, <3>5
  <2>3. CASE Resolves(c, id, d)
    <3>1. /\ id \in DOMAIN msgs /\ Rest(id) >= 1 /\ Rest(id)' = Rest(id) - 1
          /\ m_addr'[d] = m_addr[d] /\ m_addr[d] = msgs[id].targets[Rest(id)]
      BY <1>2, <2>1, <2>3, ResolvedIsNext
    <3>2. msgs'[id].targets = msgs[id].targets
      BY <3>1, MessagesSame
    <3> QED
      BY <3>1, <3>2, Lengths
  <2> QED
    BY <2>1, <2>2, <2>3
<1> QED
  BY <1>1, <1>2

(* What a client handles it received; and so it did what it hands on, once  *)
(* the message has been anywhere: it holds no other then.                   *)
Handled ==
  \A c \in Clients :
    /\ hand[c] # 0 => hand[c] \in Elements(got[c])
    /\ pc[c] = "forward" /\ Rest(out[c]) < Len(msgs[out[c]].targets) =>
         out[c] \in Elements(got[c]) /\ hand[c] = 0

(* A message that was not destroyed is with its sender until it was         *)
(* anywhere, and then with the client whose address was taken off last.     *)
IsWith(id, e) == Comes(id, e) \/ hand[e] = id \/ (pc[e] = "forward" /\ out[e] = id)

Whereabouts ==
  \A id \in DOMAIN msgs \ lost :
    /\ Rest(id) = Len(msgs[id].targets) /\ msgs[id].from # BusAddrInvalid =>
         \E s \in Clients : m_addr[s] = msgs[id].from /\ out[s] = id /\ pc[s] = "forward"
    /\ 0 < Rest(id) /\ Rest(id) < Len(msgs[id].targets) =>
         \E e \in Clients : m_addr[e] = msgs[id].targets[Rest(id) + 1] /\ IsWith(id, e)

(* A task that has to hand a message on looks for the next client, or finds *)
(* that there is none.                                                      *)
LEMMA HandingOn ==
  ASSUME TypeInv, NEW c \in Clients, Step(c), pc[c] = "forward"
  PROVE  \/ ForwardDone(c) /\ Rest(out[c]) = 0
         \/ ResolveNext(c)
<1>1. ForwardDone(c) => Rest(out[c]) = 0
  BY DEF ForwardDone, Rest
<1>2. ~Quiet(c)
  BY DEF Quiet, Sending
<1> QED
  BY <1>1, <1>2, StepKinds DEF BuildMsg, Enqueue, TryReceive, FinishReceive, Drain, At

(* What was destroyed stays destroyed.                                      *)
LEMMA LostStays ==
  ASSUME TypeInv, NEW c \in Clients, Step(c)
  PROVE  lost \subseteq lost'
<1>1. Enqueue(c) => lost \subseteq lost'
  BY DEF Enqueue
<1>2. Quiet(c) => lost' = lost
  BY DEF Quiet
<1>3. BuildMsg(c) \/ ForwardDone(c) \/ ResolveNext(c) \/ TryReceive(c) \/ FinishReceive(c)
        \/ Drain(c) => lost' = lost
  BY DEF BuildMsg, ForwardDone, ResolveNext, TryReceive, FinishReceive, Drain, history
<1> QED
  BY <1>1, <1>2, <1>3, StepKinds

(* What a client handles and hands on it received, after a step.            *)
LEMMA HandledNext ==
  ASSUME StayingInv, Handled, NEW c \in Clients, Step(c)
  PROVE  Handled'
<1> USE DEF StayingInv
<1> SUFFICES ASSUME NEW d \in Clients
             PROVE  /\ hand'[d] # 0 => hand'[d] \in Elements(got'[d])
                    /\ pc'[d] = "forward" /\ Rest(out[d])' < Len(msgs'[out'[d]].targets) =>
                         out'[d] \in Elements(got'[d]) /\ hand'[d] = 0
  BY DEF Handled
<1>1. CASE d # c
  <2>1. SameTask(d)
    BY <1>1, OthersKeep
  <2>2. CASE pc[d] = "forward"
    <3>1. out[d] \in DOMAIN msgs /\ out[d] # 0
      BY <2>2, SenderOwns DEF Sending
    <3>2. out[c] # out[d]
      BY <1>1, <3>1 DEF OwnerInv, OneSlot
    <3>3. Rest(out[d])' = Len(msgs'[out[d]].destination)
      BY <2>1 DEF Rest, SameTask
    <3>4. Len(msgs'[out[d]].destination) = Rest(out[d])
      BY <3>1, <3>2, ListChanges DEF Rest
    <3>5. msgs'[out[d]].targets = msgs[out[d]].targets
      BY <3>1, MessagesSame
    <3> QED
      BY <2>1, <3>3, <3>4, <3>5 DEF Handled, SameTask
  <2>3. CASE pc[d] # "forward"
    BY <2>1, <2>3 DEF Handled, SameTask
  <2> QED
    BY <2>2, <2>3
<1>2. CASE d = c
  <2> USE <1>2
  <2>1. ret[c] = "idle" /\ pc[c] # "dead"
    BY DEF StayInv, NobodyLeft
  <2>2. CASE Quiet(c)
    <3>1. got' = got /\ hand' = hand /\ pc'[c] # "forward"
      BY <2>1, <2>2 DEF Quiet, Sending
    <3> QED
      BY <3>1 DEF Handled
  <2>3. CASE BuildMsg(c) /\ msgs' # msgs
    <3>1. got' = got /\ hand' = hand
      BY <2>3 DEF BuildMsg, history
    <3>2. msgs'[Len(msgs) + 1].destination = msgs'[Len(msgs) + 1].targets
          /\ out'[c] = Len(msgs) + 1
      BY <2>3, Building DEF TypeInv, TypeOK, TaskOK
    <3>3. Rest(out[c])' = Len(msgs'[out'[c]].targets)
      BY <3>2 DEF Rest
    <3>4. Len(msgs'[out'[c]].targets) \in Nat
      <4>1. Destination(arg[c]) \in Seq(Int) /\ msgs'[Len(msgs) + 1].targets = Destination(arg[c])
        BY <2>3, Building
      <4> QED
        BY <3>2, <4>1
    <3> QED
      BY <3>1, <3>3, <3>4 DEF Handled
  <2>4. CASE ForwardDone(c) \/ ResolveNext(c) \/ Enqueue(c)
    <3>1. got' = got /\ hand' = hand
      BY <2>4 DEF ForwardDone, ResolveNext, Enqueue, history
    <3>2. ForwardDone(c) \/ Enqueue(c) => pc'[c] = ret[c]
      BY DEF ForwardDone, Enqueue, Goto, TypeInv, TypeOK, TaskOK
    <3>3. ResolveNext(c) => pc'[c] \in {ret[c], "enqueue"}
      BY Resolving DEF TypeInv, TypeOK, TaskOK
    <3> QED
      BY <2>1, <2>4, <3>1, <3>2, <3>3 DEF Handled
  <2>5. CASE TryReceive(c)
    <3> DEFINE x == Head(fifo[m_queue[c]])
    <3>1. hand'[c] = x /\ got'[c] = Append(got[c], x) /\ pc'[c] # "forward"
      BY <2>5 DEF TryReceive, At, TypeInv, TypeOK, TaskOK, MessageOK
    <3>2. x \in Nat
      BY <2>5, TakenOnce
    <3>3. got[c] \in Seq(Nat)
      BY DEF TypeInv, TypeOK, MessageOK
    <3> HIDE DEF x
    <3>4. x \in Elements(Append(got[c], x))
      BY <3>2, <3>3, AppendElements
    <3> QED
      BY <3>1, <3>4
  <2>6. CASE FinishReceive(c)
    <3>1. out'[c] = hand[c] /\ hand'[c] = 0 /\ got' = got /\ hand[c] # 0
      BY <2>6 DEF FinishReceive, TypeInv, TypeOK, TaskOK, history
    <3> QED
      BY <3>1 DEF Handled
  <2>7. ~Drain(c)
    BY NobodyLeaves
  <2> QED
    BY <2>2, <2>3, <2>4, <2>5, <2>6, <2>7, StepKinds
<1> QED
  BY <1>1, <1>2

(* A message that is with a client stays with it for as long as its list    *)
(* does, or is destroyed.                                                   *)
LEMMA StaysWith ==
  ASSUME StayingInv, NEW c \in Clients, Step(c), NEW id \in DOMAIN msgs, NEW e \in Clients,
         m_addr[e] # BusAddrInvalid, Rest(id) > 0, ~(ResolveNext(c) /\ out[c] = id),
         IsWith(id, e)
  PROVE  IsWith(id, e)' \/ id \in lost'
<1> USE DEF StayingInv
<1>1. m_queue'[e] = m_queue[e] /\ m_queue[e] # NoQueue /\ m_queue[e] \in Queues
  BY AddressStays, ConnectedHasQueue DEF StayInv, TypeInv, TypeOK, ObjectOK
<1>2. id # 0
  BY DEF TypeInv, TypeOK, MessageOK
<1>3. CASE id \in Elements(fifo[m_queue[e]])
  <2>1. CASE id \in Elements(fifo'[m_queue[e]])
    BY <1>1, <2>1 DEF IsWith, Comes
  <2>2. CASE id \in Elements(got'[e])
    <3>1. id \notin Elements(got[e])
      BY <1>1, <1>3 DEF Comes, OnceInv, ComesOnce
    <3>2. TryReceive(c) /\ e = c /\ id = Head(fifo[m_queue[e]])
      BY <2>2, <3>1, ReceivedFrom DEF OnceInv
    <3>3. hand'[e] = id
      BY <3>2 DEF TryReceive, TypeInv, TypeOK, TaskOK
    <3> QED
      BY <3>3 DEF IsWith
  <2> QED
    BY <1>3, <2>1, <2>2, QueueKeeps
<1>4. ASSUME NEW t \in Clients, Entering(t, id, e) PROVE IsWith(id, e)' \/ id \in lost'
  <2>1. Entering(t, id, e)' \/ id \in Elements(fifo'[m_queue[e]]) \/ id \in lost'
    BY <1>1, <1>4, EnteringKeeps
  <2> QED
    BY <1>1, <2>1 DEF IsWith, Comes
<1>5. CASE e # c /\ (hand[e] = id \/ (pc[e] = "forward" /\ out[e] = id))
  BY <1>5, OthersKeep DEF IsWith, SameTask
<1>6. CASE e = c /\ hand[e] = id
  <2>1. CASE FinishReceive(c)
    <3>1. out'[c] = hand[c] /\ pc'[c] = "forward"
      BY <2>1 DEF FinishReceive, Goto, TypeInv, TypeOK, TaskOK
    <3> QED
      BY <1>6, <3>1 DEF IsWith
  <2>2. ~TryReceive(c) /\ ~Drain(c)
    BY <1>2, <1>6, NobodyLeaves DEF TryReceive
  <2>3. Quiet(c) \/ BuildMsg(c) \/ ForwardDone(c) \/ ResolveNext(c) \/ Enqueue(c) => hand' = hand
    BY DEF Quiet, BuildMsg, ForwardDone, ResolveNext, Enqueue
  <2> QED
    BY <1>6, <2>1, <2>2, <2>3, StepKinds DEF IsWith
<1>7. ~(e = c /\ pc[e] = "forward" /\ out[e] = id)
  BY HandingOn
<1> QED
  BY <1>3, <1>4, <1>5, <1>6, <1>7 DEF IsWith, Comes

(* Where a message is, after a step.                                        *)
LEMMA WhereaboutsNext ==
  ASSUME StayingInv, Whereabouts, NEW c \in Clients, Step(c)
  PROVE  Whereabouts'
<1> USE DEF StayingInv, DeliveryInv
<1> SUFFICES ASSUME NEW id \in DOMAIN msgs' \ lost'
             PROVE  /\ Rest(id)' = Len(msgs'[id].targets) /\ msgs'[id].from # BusAddrInvalid =>
                         \E s \in Clients :
                           m_addr'[s] = msgs'[id].from /\ out'[s] = id /\ pc'[s] = "forward"
                    /\ 0 < Rest(id)' /\ Rest(id)' < Len(msgs'[id].targets) =>
                         \E e \in Clients :
                           m_addr'[e] = msgs'[id].targets[Rest(id)' + 1] /\ IsWith(id, e)'
  BY DEF Whereabouts
<1>1. CASE id \notin DOMAIN msgs
  <2>1. BuildMsg(c) /\ msgs' # msgs
    BY <1>1, MessagesKeep
  <2>2. id = Len(msgs) + 1
    <3>1. DOMAIN msgs = 1 .. Len(msgs) /\ DOMAIN msgs' = 1 .. Len(msgs) + 1 /\ Len(msgs) \in Nat
      BY <2>1, Building
    <3> QED
      BY <1>1, <3>1
  <2>3. /\ msgs'[id].from = m_addr[c] /\ out'[c] = id /\ pc'[c] = "forward" /\ m_addr' = m_addr
        /\ msgs'[id].destination = msgs'[id].targets
        /\ Len(msgs'[id].targets) \in Nat
    <3>1. m_addr' = m_addr
      BY <2>1 DEF BuildMsg, object
    <3>2. Destination(arg[c]) \in Seq(Int)
      BY <2>1, Building
    <3> QED
      BY <2>1, <2>2, <3>1, <3>2, Building, BuiltMessage DEF TypeInv, TypeOK, TaskOK
  <2>4. Rest(id)' = Len(msgs'[id].targets)
    BY <2>3 DEF Rest
  <2> QED
    BY <2>3, <2>4
<1>2. CASE id \in DOMAIN msgs
  <2>1. id \in DOMAIN msgs \ lost
    BY <1>2, LostStays
  <2>2. /\ msgs'[id].targets = msgs[id].targets /\ msgs'[id].from = msgs[id].from
    BY <1>2, MessagesSame
  <2>3. CASE ResolveNext(c) /\ out[c] = id
    <3>1. /\ Rest(id) >= 1 /\ Rest(id)' = Rest(id) - 1 /\ Rest(id) <= Len(msgs[id].targets)
          /\ Rest(id) \in Nat
          /\ pc'[c] = "enqueue" /\ out' = out /\ UNCHANGED <<m_addr, m_queue>>
          /\ \E d \in Clients :
               /\ m_addr[d] # BusAddrInvalid /\ dest'[c] = m_queue[d]
               /\ m_addr[d] = msgs[id].targets[Rest(id)]
      BY <1>2, <2>3, VisitNext, Lengths
    <3>2. PICK d \in Clients : dest'[c] = m_queue[d] /\ m_addr[d] = msgs[id].targets[Rest(id)]
      BY <3>1
    <3>3. IsWith(id, d)'
      BY <2>3, <3>1, <3>2 DEF IsWith, Comes, Entering, At
    <3>4. Rest(id)' # Len(msgs'[id].targets) /\ Rest(id)' + 1 = Rest(id)
      BY <1>2, <2>2, <3>1, Lengths
    <3> QED
      BY <2>2, <3>1, <3>2, <3>3, <3>4
  <2>4. CASE ~(ResolveNext(c) /\ out[c] = id)
    <3>1. Rest(id)' = Rest(id)
      BY <1>2, <2>4, RestSame
    <3>2. ASSUME NEW s \in Clients, m_addr[s] = msgs[id].from, m_addr[s] # BusAddrInvalid,
                 out[s] = id, pc[s] = "forward", Rest(id) = Len(msgs[id].targets)
          PROVE  m_addr'[s] = m_addr[s] /\ out'[s] = id /\ pc'[s] = "forward"
      <4>1. s # c
        BY <1>2, <2>4, <3>2, HandingOn, Lengths
      <4> QED
        BY <3>2, <4>1, OthersKeep DEF SameTask
    <3>3. ASSUME NEW e \in Clients, m_addr[e] = msgs[id].targets[Rest(id) + 1], IsWith(id, e),
                 0 < Rest(id), Rest(id) < Len(msgs[id].targets)
          PROVE  m_addr'[e] = m_addr[e] /\ IsWith(id, e)'
      <4>1. Rest(id) + 1 \in DOMAIN msgs[id].targets
        BY <1>2, <3>3, Lengths
      <4>2. m_addr[e] # BusAddrInvalid /\ m_addr'[e] = m_addr[e]
        BY <1>2, <3>3, <4>1, TargetStays
      <4> QED
        BY <1>2, <2>4, <3>3, <4>2, StaysWith
    <3>4. CASE Rest(id) = Len(msgs[id].targets) /\ msgs[id].from # BusAddrInvalid
      <4>1. PICK s \in Clients : m_addr[s] = msgs[id].from /\ out[s] = id /\ pc[s] = "forward"
        BY <2>1, <3>4 DEF Whereabouts
      <4> QED
        BY <2>2, <3>1, <3>2, <3>4, <4>1
    <3>5. CASE 0 < Rest(id) /\ Rest(id) < Len(msgs[id].targets)
      <4>1. PICK e \in Clients : m_addr[e] = msgs[id].targets[Rest(id) + 1] /\ IsWith(id, e)
        BY <2>1, <3>5 DEF Whereabouts
      <4>2. Rest(id) # Len(msgs[id].targets)
        BY <1>2, <3>5, Lengths
      <4> QED
        BY <2>2, <3>1, <3>3, <3>5, <4>1, <4>2
    <3> QED
      BY <2>2, <3>1, <3>4, <3>5
  <2> QED
    BY <2>3, <2>4
<1> QED
  BY <1>1, <1>2

---------------------------------------------------------------------------
(* The order.                                                               *)

(* Message a was sent before b, by the same client to the same address.     *)
SameRoute(a, b) ==
  /\ a < b
  /\ msgs[a].from = msgs[b].from /\ msgs[a].to = msgs[b].to
  /\ msgs[a].from # BusAddrInvalid

(* Of two such messages the first is ahead until it is destroyed or has     *)
(* been everywhere; it comes to no client that has received the second; and *)
(* it waits in front of the second where both come to.                      *)
InFront(a, b, s) == \A i, j \in DOMAIN s : s[i] = a /\ s[j] = b => i < j

Ahead ==
  \A a, b \in DOMAIN msgs : SameRoute(a, b) =>
    /\ a \notin lost /\ Rest(a) > 0 => Visited(a) >= Visited(b)
    /\ \A d \in Clients : m_queue[d] # NoQueue =>
         /\ b \in Elements(got[d]) => ~Comes(a, d)
         /\ Comes(b, d) => /\ \A t \in Clients : ~Entering(t, a, d)
                           /\ InFront(a, b, fifo[m_queue[d]])

(* The way of the second ends with that of the first: an address of the     *)
(* first is as far from the end of the second, and only there.              *)
LEMMA Aligned ==
  ASSUME StayingInv, NEW a \in DOMAIN msgs, NEW b \in DOMAIN msgs, SameRoute(a, b),
         NEW k \in DOMAIN msgs[a].targets
  PROVE  /\ \A m \in Int : Len(msgs[b].targets) - m = Len(msgs[a].targets) - k =>
              m \in DOMAIN msgs[b].targets /\ msgs[b].targets[m] = msgs[a].targets[k]
         /\ \A i \in DOMAIN msgs[b].targets : msgs[b].targets[i] = msgs[a].targets[k] =>
              Len(msgs[b].targets) - i = Len(msgs[a].targets) - k
<1> DEFINE s == msgs[a].targets
           t == msgs[b].targets
           m == Len(t) - Len(s) + k
<1>1. Len(s) \in Nat /\ Len(t) \in Nat /\ DOMAIN s = 1 .. Len(s) /\ DOMAIN t = 1 .. Len(t)
  BY Lengths DEF StayingInv
<1>2. a \in 1 .. b
  BY DEF SameRoute, StayingInv, TypeInv, TypeOK, MessageOK
<1>3. EndsWith(t, s) /\ Distinct(t)
  BY <1>2 DEF SameRoute, StayingInv, StayInv, RoutesGrow
<1> HIDE DEF s, t
<1>4. k \in DOMAIN s
  BY DEF s
<1>5. m \in 1 .. Len(t) /\ t[m] = s[k]
  BY <1>1, <1>3, <1>4 DEF EndsWith
<1>6. \A i \in 1 .. Len(t) : t[i] = t[m] => i = m
  BY <1>1, <1>3, <1>5 DEF Distinct
<1>7. \A n \in Int : Len(t) - n = Len(s) - k => n = m
  BY <1>1, <1>4
<1>8. \A n \in Int : Len(t) - n = Len(s) - k => n \in DOMAIN t /\ t[n] = s[k]
  BY <1>1, <1>5, <1>7
<1>9. Len(t) - m = Len(s) - k
  BY <1>1, <1>4
<1>10. \A i \in DOMAIN t : t[i] = s[k] => Len(t) - i = Len(s) - k
  BY <1>1, <1>5, <1>6, <1>9
<1> QED
  BY <1>8, <1>10 DEF s, t

(* The second is not taken one stop further while the first is level with   *)
(* it: the task that would do it is the one that has the first to hand on,  *)
(* or to receive, before.                                                   *)
LEMMA LeadsBefore ==
  ASSUME StayingInv, Whereabouts, Handled, Ahead, NEW c \in Clients, ResolveNext(c),
         NEW a \in DOMAIN msgs, NEW b \in DOMAIN msgs, SameRoute(a, b), out[c] = b,
         a \notin lost, Rest(a) > 0
  PROVE  Visited(a) > Visited(b)
<1> USE DEF StayingInv, DeliveryInv
<1>1. pc[c] = "forward" /\ b # 0 /\ a # 0 /\ a # b
  BY DEF ResolveNext, At, SameRoute, TypeInv, TypeOK, MessageOK
<1>2. b \notin lost
  BY <1>1, SenderOwns DEF Sending, OwnerInv, LostGone
<1>3. Rest(b) >= 1
  BY VisitNext
<1>4. /\ Rest(a) \in Nat /\ Len(msgs[a].targets) \in Nat /\ Rest(a) <= Len(msgs[a].targets)
      /\ Rest(b) \in Nat /\ Len(msgs[b].targets) \in Nat /\ Rest(b) <= Len(msgs[b].targets)
      /\ DOMAIN msgs[a].targets = 1 .. Len(msgs[a].targets)
  BY Lengths
<1>5. Visited(a) >= Visited(b)
  BY DEF Ahead
<1>6. ASSUME Visited(a) = 0, Visited(b) = 0 PROVE FALSE
  <2>1. PICK s \in Clients : m_addr[s] = msgs[a].from /\ out[s] = a
    BY <1>4, <1>6 DEF Visited, Whereabouts, SameRoute
  <2>2. PICK t \in Clients : m_addr[t] = msgs[b].from /\ out[t] = b
    BY <1>2, <1>4, <1>6 DEF Visited, Whereabouts, SameRoute
  <2>3. s = t
    BY <2>1, <2>2, ConnectedHasQueue DEF SameRoute
  <2> QED
    BY <1>1, <2>1, <2>2, <2>3
<1>7. ASSUME Visited(a) = Visited(b), Visited(b) # 0 PROVE FALSE
  <2>1. PICK e \in Clients : m_addr[e] = msgs[a].targets[Rest(a) + 1] /\ IsWith(a, e)
    BY <1>4, <1>7 DEF Visited, Whereabouts
  <2>2. PICK f \in Clients : m_addr[f] = msgs[b].targets[Rest(b) + 1] /\ IsWith(b, f)
    BY <1>2, <1>3, <1>4, <1>7 DEF Visited, Whereabouts
  <2>3. Rest(a) + 1 \in DOMAIN msgs[a].targets
    BY <1>4, <1>7 DEF Visited
  <2>4. msgs[b].targets[Rest(b) + 1] = msgs[a].targets[Rest(a) + 1]
    <3>1. Len(msgs[b].targets) - Rest(b) = Len(msgs[a].targets) - Rest(a)
      BY <1>7 DEF Visited
    <3>2. Len(msgs[b].targets) - (Rest(b) + 1) = Len(msgs[a].targets) - (Rest(a) + 1)
          /\ Rest(b) + 1 \in Int
      BY <1>4, <3>1, SMTT(20)
    <3> QED
      BY <2>3, <3>2, Aligned
  <2>5. m_addr[e] # BusAddrInvalid
    <3>1. m_addr[e] \in m_addrLast .. -1
      BY <2>1, <2>3 DEF AddressesKnown, Elements
    <3> QED
      BY <3>1 DEF BusAddrInvalid, TypeInv, TypeOK, RegistryOK
  <2>6. e = f /\ m_queue[e] # NoQueue
    BY <2>1, <2>2, <2>4, <2>5, ConnectedHasQueue
  <2>7. f = c
    <3>1. ~Comes(b, f)
      BY <1>1, <2>6, ComesKnown
    <3>2. hand[f] # b
      BY <1>1 DEF OwnerInv, OneSlot
    <3>3. out[f] = b
      BY <2>2, <3>1, <3>2 DEF IsWith
    <3> QED
      BY <1>1, <3>3 DEF OwnerInv, OneSlot
  <2>8. b \in Elements(got[c]) /\ hand[c] = 0
    <3>1. Rest(b) < Len(msgs[b].targets)
      BY <1>4, <1>7 DEF Visited
    <3> QED
      BY <1>1, <3>1 DEF Handled
  <2>9. ~Comes(a, c)
    BY <2>6, <2>7, <2>8 DEF Ahead
  <2> QED
    BY <1>1, <2>1, <2>6, <2>7, <2>8, <2>9 DEF IsWith
<1>8. Visited(a) \in Nat /\ Visited(b) \in Nat
  BY <1>4 DEF Visited
<1> QED
  BY <1>5, <1>6, <1>7, <1>8

(* What a step does to a queue.                                             *)
LEMMA QueueSteps ==
  ASSUME TypeInv, RoutingInv, TargetInv, NEW c \in Clients, Step(c), NEW q \in Queues
  PROVE  \/ fifo'[q] = fifo[q]
         \/ fifo'[q] = <<>>
         \/ (fifo[q] # <<>> /\ fifo'[q] = Tail(fifo[q]))
         \/ (Enqueue(c) /\ dest[c] = q /\ fifo'[q] = Append(fifo[q], out[c]))
<1> USE DEF TypeInv, TypeOK, HeapOK, ObjectOK
<1>1. Quiet(c) => fifo'[q] = fifo[q] \/ fifo'[q] = <<>>
  BY DEF Quiet
<1>2. BuildMsg(c) \/ ForwardDone(c) \/ ResolveNext(c) \/ FinishReceive(c) => fifo' = fifo
  BY DEF BuildMsg, ForwardDone, ResolveNext, FinishReceive, heap
<1>3. ASSUME TryReceive(c) \/ Drain(c)
      PROVE  fifo'[q] = fifo[q] \/ (fifo[q] # <<>> /\ fifo'[q] = Tail(fifo[q]))
  <2>1. /\ fifo[m_queue[c]] # <<>>
        /\ fifo' = [fifo EXCEPT ![m_queue[c]] = Tail(fifo[m_queue[c]])]
    BY <1>3 DEF TryReceive, Drain
  <2> QED
    BY <2>1
<1>4. ASSUME Enqueue(c)
      PROVE  \/ fifo'[q] = fifo[q]
             \/ dest[c] = q /\ fifo'[q] = Append(fifo[q], out[c])
  <2>1. fifo' = fifo \/ fifo' = [fifo EXCEPT ![dest[c]] = Append(fifo[dest[c]], out[c])]
    BY <1>4 DEF Enqueue, Sent
  <2> QED
    BY <2>1
<1> QED
  BY <1>1, <1>2, <1>3, <1>4, StepKinds

(* Where both wait, the first waits in front: it left the task that sends   *)
(* before the second did.                                                   *)
LEMMA InFrontNext ==
  ASSUME StayingInv, Ahead, NEW c \in Clients, Step(c),
         NEW a \in DOMAIN msgs, NEW b \in DOMAIN msgs, SameRoute(a, b),
         NEW d \in Clients, m_queue[d] # NoQueue
  PROVE  InFront(a, b, fifo'[m_queue[d]])
<1> USE DEF StayingInv
<1> DEFINE s == fifo[m_queue[d]]
           t == fifo'[m_queue[d]]
<1>1. m_queue[d] \in Queues /\ s \in Seq(Nat) /\ out[c] \in Nat
  BY DEF TypeInv, TypeOK, ObjectOK, HeapOK, TaskOK
<1>2. b \in Elements(s) => Comes(b, d)
  BY DEF Comes
<1>3. b \in Elements(s) => InFront(a, b, s)
  BY <1>2 DEF Ahead
<1>4. \/ t = s
      \/ t = <<>>
      \/ (s # <<>> /\ t = Tail(s))
      \/ (Enqueue(c) /\ dest[c] = m_queue[d] /\ t = Append(s, out[c]))
  <2> DEFINE q == m_queue[d]
  <2>1. q \in Queues
    BY <1>1
  <2> HIDE DEF q
  <2>2. \/ fifo'[q] = fifo[q]
        \/ fifo'[q] = <<>>
        \/ (fifo[q] # <<>> /\ fifo'[q] = Tail(fifo[q]))
        \/ (Enqueue(c) /\ dest[c] = q /\ fifo'[q] = Append(fifo[q], out[c]))
    BY <2>1, QueueSteps
  <2> QED
    BY <2>2 DEF q
<1>5. Enqueue(c) /\ dest[c] = m_queue[d] /\ out[c] = a => ~Comes(b, d)
  <2>1. Enqueue(c) /\ dest[c] = m_queue[d] /\ out[c] = a => Entering(c, a, d)
    BY DEF Enqueue, Entering
  <2> QED
    BY <2>1 DEF Ahead
<1>6. a # b
  BY DEF SameRoute, TypeInv, TypeOK, MessageOK
<1> HIDE DEF s, t
<1>7. ASSUME t = s PROVE InFront(a, b, t)
  BY <1>3, <1>7 DEF InFront, Elements
<1>8. ASSUME t = <<>> PROVE InFront(a, b, t)
  BY <1>8 DEF InFront
<1>9. ASSUME s # <<>>, t = Tail(s) PROVE InFront(a, b, t)
  <2>1. DOMAIN t = 1 .. Len(s) - 1 /\ DOMAIN s = 1 .. Len(s) /\ Len(s) \in Nat
        /\ \A i \in DOMAIN t : t[i] = s[i + 1]
    BY <1>1, <1>9
  <2>2. ASSUME NEW i \in DOMAIN t, NEW j \in DOMAIN t, t[i] = a, t[j] = b PROVE i < j
    <3>1. i + 1 \in DOMAIN s /\ j + 1 \in DOMAIN s /\ s[i + 1] = a /\ s[j + 1] = b
      BY <2>1, <2>2
    <3>2. i + 1 < j + 1
      BY <1>3, <3>1 DEF InFront, Elements
    <3> QED
      BY <2>1, <3>2
  <2> QED
    BY <2>2 DEF InFront
<1>10. ASSUME Enqueue(c), dest[c] = m_queue[d], t = Append(s, out[c]) PROVE InFront(a, b, t)
  <2>1. /\ DOMAIN t = 1 .. Len(s) + 1 /\ DOMAIN s = 1 .. Len(s) /\ Len(s) \in Nat
        /\ \A i \in 1 .. Len(s) : t[i] = s[i]
        /\ t[Len(s) + 1] = out[c]
    BY <1>1, <1>10
  <2>2. ASSUME NEW i \in DOMAIN t, NEW j \in DOMAIN t, t[i] = a, t[j] = b PROVE i < j
    <3>1. CASE j = Len(s) + 1
      BY <1>6, <2>1, <2>2, <3>1
    <3>2. CASE j # Len(s) + 1
      <4>1. j \in DOMAIN s /\ s[j] = b
        BY <2>1, <2>2, <3>2
      <4>2. i # Len(s) + 1
        BY <1>2, <1>5, <1>10, <2>1, <2>2, <4>1 DEF Elements
      <4>3. i \in DOMAIN s /\ s[i] = a
        BY <2>1, <2>2, <4>2
      <4> QED
        BY <1>3, <4>1, <4>3 DEF InFront, Elements
    <3> QED
      BY <3>1, <3>2
  <2> QED
    BY <2>2 DEF InFront
<1> QED
  BY <1>4, <1>7, <1>8, <1>9, <1>10 DEF t

(* A message is not on its way to a client that has received the second     *)
(* and, while the second is on its way there, not in front of its queue.    *)
LEMMA NotResolvedBehind ==
  ASSUME StayingInv, Visits, Ahead, NEW c \in Clients,
         NEW a \in DOMAIN msgs, NEW b \in DOMAIN msgs, SameRoute(a, b),
         NEW d \in Clients, m_queue[d] # NoQueue, Resolves(c, a, d)
  PROVE  b \notin Elements(got[d]) /\ ~Comes(b, d)
<1> USE DEF StayingInv
<1>1. Rest(a) >= 1 /\ m_addr[d] = msgs[a].targets[Rest(a)]
  BY ResolvedIsNext
<1>2. a \notin lost
  <2>1. pc[c] = "forward" /\ out[c] = a
    BY DEF Resolves, ResolveNext, At
  <2> QED
    BY <2>1, SenderOwns DEF Sending, OwnerInv, LostGone
<1>3. /\ Rest(a) \in Nat /\ Len(msgs[a].targets) \in Nat /\ Rest(a) \in DOMAIN msgs[a].targets
      /\ Rest(b) \in Nat /\ Len(msgs[b].targets) \in Nat
      /\ DOMAIN msgs[b].targets = 1 .. Len(msgs[b].targets)
  BY <1>1, Lengths
<1>4. Visited(a) >= Visited(b)
  BY <1>1, <1>2, <1>3 DEF Ahead
<1>5. ASSUME NEW i \in DOMAIN msgs[b].targets, msgs[b].targets[i] = m_addr[d]
      PROVE  i <= Rest(b)
  <2> DEFINE k == Rest(a)
  <2>1. k \in DOMAIN msgs[a].targets /\ msgs[b].targets[i] = msgs[a].targets[k]
    BY <1>1, <1>3, <1>5
  <2> HIDE DEF k
  <2>2. Len(msgs[b].targets) - i = Len(msgs[a].targets) - k
    BY <1>5, <2>1, Aligned
  <2> QED
    BY <1>3, <1>4, <1>5, <2>2 DEF Visited, k
<1>6. b \notin Elements(got[d])
  BY <1>3, <1>5 DEF Visits
<1>7. ~Comes(b, d)
  <2>1. Comes(b, d) => /\ Rest(b) + 1 \in DOMAIN msgs[b].targets
                       /\ msgs[b].targets[Rest(b) + 1] = m_addr[d]
    BY <1>3 DEF Visits
  <2> QED
    BY <1>3, <1>5, <2>1
<1> QED
  BY <1>6, <1>7

(* Two messages under way to the same client entered its queue, or will, in *)
(* the order sent.                                                          *)
LEMMA NotEnteredBehind ==
  ASSUME StayingInv, StayingInv', Visits, Ahead, NEW c \in Clients, Step(c),
         NEW a \in DOMAIN msgs, NEW b \in DOMAIN msgs, SameRoute(a, b),
         NEW d \in Clients, m_queue'[d] # NoQueue, Comes(b, d)',
         NEW t \in Clients, Entering(t, a, d)'
  PROVE  FALSE
<1> USE DEF StayingInv
<1>1. Comes(a, d)'
  BY DEF Comes
<1>2. /\ m_queue'[d] = m_queue[d] /\ m_queue[d] # NoQueue
      /\ Comes(a, d) \/ Resolves(c, a, d)
      /\ Comes(b, d) \/ Resolves(c, b, d)
  BY <1>1, CameFrom
<1>3. pc'[t] = "enqueue" /\ out'[t] = a
  BY DEF Entering, At
<1>4. a # b
  BY DEF SameRoute, TypeInv, TypeOK, MessageOK
<1>5. ~Resolves(c, b, d)
  <2> SUFFICES ASSUME Resolves(c, b, d) PROVE FALSE
    OBVIOUS
  <2>1. pc'[c] = "enqueue" /\ out'[c] = b
    <3>1. pc'[c] = "enqueue" /\ out[c] = b
      BY DEF Resolves
    <3> QED
      BY <3>1, OnlyResolvingEnters
  <2>2. m_mutex' = c /\ m_mutex' = t
    BY <1>3, <2>1 DEF TypeInv, MutexHeld, At
  <2> QED
    BY <1>3, <1>4, <2>1, <2>2
<1>6. ~Resolves(c, a, d)
  BY <1>2, <1>5, NotResolvedBehind
<1>7. Comes(a, d) /\ Comes(b, d)
  BY <1>2, <1>5, <1>6
<1>8. ~Entering(t, a, d)
  BY <1>2, <1>7 DEF Ahead
<1>9. t = c
  <2>1. t # c => Entering(t, a, d)
    BY <1>2, OthersKeep DEF SameTask, Entering, At
  <2> QED
    BY <1>8, <2>1
<1>10. ResolveNext(c) /\ out[c] = a
  BY <1>3, <1>9, OnlyResolvingEnters
<1> QED
  BY <1>2, <1>7, <1>10, ComesKnown DEF ResolveNext, At

(* A lead of one is left when the one behind makes one step.                *)
LEMMA OneFurther ==
  ASSUME NEW m \in Nat, NEW r \in Nat, NEW n \in Nat, NEW s \in Nat, m - r > n - s,
         NEW x \in Nat, x <= r
  PROVE  m - x >= n - (s - 1)
  OBVIOUS

(* The first stays ahead.                                                   *)
LEMMA AheadNext ==
  ASSUME StayingInv, StayingInv', Visits, Whereabouts, Handled, Ahead, NEW c \in Clients, Step(c)
  PROVE  Ahead'
<1> USE DEF StayingInv
<1> SUFFICES ASSUME NEW a \in DOMAIN msgs', NEW b \in DOMAIN msgs', SameRoute(a, b)'
             PROVE  /\ a \notin lost' /\ Rest(a)' > 0 => Visited(a)' >= Visited(b)'
                    /\ \A d \in Clients : m_queue'[d] # NoQueue =>
                         /\ b \in Elements(got'[d]) => ~Comes(a, d)'
                         /\ Comes(b, d)' => /\ \A t \in Clients : ~Entering(t, a, d)'
                                            /\ InFront(a, b, fifo'[m_queue'[d]])
  BY DEF Ahead, InFront
<1>1. CASE b \notin DOMAIN msgs
  <2>1. Visited(a)' >= Visited(b)'
    <3>1. BuildMsg(c) /\ msgs' # msgs
      BY <1>1, MessagesKeep
    <3>2. b = Len(msgs) + 1
      <4>1. DOMAIN msgs = 1 .. Len(msgs) /\ DOMAIN msgs' = 1 .. Len(msgs) + 1
            /\ Len(msgs) \in Nat
        BY <3>1, Building
      <4> QED
        BY <1>1, <4>1
    <3>3. Rest(b)' = Len(msgs'[b].targets) /\ Len(msgs'[b].targets) \in Nat
      <4>1. Destination(arg[c]) \in Seq(Int) /\ msgs'[b].targets = Destination(arg[c])
            /\ msgs'[b].destination = msgs'[b].targets
        BY <3>1, <3>2, Building
      <4> QED
        BY <4>1 DEF Rest
    <3>4. a \in DOMAIN msgs
      <4>1. DOMAIN msgs = 1 .. Len(msgs) /\ DOMAIN msgs' = 1 .. Len(msgs) + 1
            /\ Len(msgs) \in Nat
        BY <3>1, Building
      <4> QED
        BY <3>2, <4>1 DEF SameRoute
    <3>5. /\ Rest(a)' \in Nat /\ Rest(a)' <= Rest(a) /\ Rest(a) <= Len(msgs[a].targets)
          /\ Rest(a) \in Nat /\ Len(msgs[a].targets) \in Nat
          /\ msgs'[a].targets = msgs[a].targets
      BY <3>4, Lengths, RestShrinks, MessagesSame
    <3>6. Visited(b)' = 0
      BY <3>3 DEF Visited
    <3>7. Visited(a)' >= 0
      BY <3>5 DEF Visited
    <3> QED
      BY <3>6, <3>7
  <2>2. ASSUME NEW d \in Clients, m_queue'[d] # NoQueue
        PROVE  b \notin Elements(got'[d]) /\ ~Comes(b, d)'
    <3>1. b \notin Elements(got'[d])
      BY <1>1, ReceivedFrom DEF OnceInv
    <3>2. ASSUME Comes(b, d)' PROVE FALSE
      <4>1. m_queue[d] # NoQueue /\ (Comes(b, d) \/ Resolves(c, b, d))
        BY <2>2, <3>2, CameFrom
      <4> QED
        BY <1>1, <4>1, ComesKnown, ResolvedIsNext
    <3> QED
      BY <3>1, <3>2
  <2> QED
    BY <2>1, <2>2
<1>2. CASE b \in DOMAIN msgs
  <2>1. a \in DOMAIN msgs
    <3>1. DOMAIN msgs = 1 .. Len(msgs) /\ DOMAIN msgs' \subseteq Nat \ {0} /\ Len(msgs) \in Nat
      BY DEF TypeInv, TypeOK, MessageOK
    <3> QED
      BY <1>2, <3>1 DEF SameRoute
  <2>2. SameRoute(a, b)
    BY <1>2, <2>1, MessagesSame DEF SameRoute
  <2>3. ASSUME a \notin lost', Rest(a)' > 0 PROVE Visited(a)' >= Visited(b)'
    <3>1. /\ Rest(a) \in Nat /\ Len(msgs[a].targets) \in Nat
          /\ Rest(b) \in Nat /\ Len(msgs[b].targets) \in Nat
      BY <1>2, <2>1, Lengths
    <3>2. /\ msgs'[a].targets = msgs[a].targets /\ msgs'[b].targets = msgs[b].targets
          /\ Rest(a)' \in Nat /\ Rest(a)' <= Rest(a)
      BY <1>2, <2>1, MessagesSame, RestShrinks
    <3>3. a \notin lost /\ Rest(a) > 0
      BY <2>3, <3>1, <3>2, LostStays
    <3>4. /\ Visited(a) = Len(msgs[a].targets) - Rest(a)
           /\ Visited(a)' = Len(msgs[a].targets) - Rest(a)'
           /\ Visited(b) = Len(msgs[b].targets) - Rest(b)
           /\ Visited(b)' = Len(msgs[b].targets) - Rest(b)'
      BY <3>2 DEF Visited
    <3>5. CASE ResolveNext(c) /\ out[c] = b
      <4>1. Visited(a) > Visited(b)
        BY <1>2, <2>1, <2>2, <3>3, <3>5, LeadsBefore
      <4>2. Rest(b)' = Rest(b) - 1
        BY <3>5, VisitNext DEF DeliveryInv
      <4>3. Len(msgs[a].targets) - Rest(a)' >= Len(msgs[b].targets) - Rest(b)'
        <5>1. Len(msgs[a].targets) - Rest(a) > Len(msgs[b].targets) - Rest(b)
          BY <3>4, <4>1
        <5> QED
          BY <3>1, <3>2, <4>2, <5>1, OneFurther
      <4> QED
        BY <3>4, <4>3
    <3>6. CASE ~(ResolveNext(c) /\ out[c] = b)
      <4>1. Rest(b)' = Rest(b)
        BY <1>2, <3>6, RestSame
      <4>2. Visited(a) >= Visited(b)
        BY <1>2, <2>1, <2>2, <3>3 DEF Ahead
      <4> QED
        BY <3>1, <3>2, <3>4, <4>1, <4>2, SMTT(20)
    <3> QED
      BY <3>5, <3>6
  <2>4. ASSUME NEW d \in Clients, m_queue'[d] # NoQueue, b \in Elements(got'[d]), Comes(a, d)'
        PROVE  FALSE
    <3>1. m_queue'[d] = m_queue[d] /\ (Comes(a, d) \/ Resolves(c, a, d))
      BY <2>4, CameFrom
    <3>2. CASE b \in Elements(got[d])
      <4>1. ~Comes(a, d)
        BY <1>2, <2>1, <2>2, <2>4, <3>1, <3>2 DEF Ahead
      <4> QED
        BY <1>2, <2>1, <2>2, <2>4, <3>1, <3>2, <4>1, NotResolvedBehind
    <3>3. CASE TryReceive(c) /\ d = c /\ b = Head(fifo[m_queue[d]])
      <4>1. Comes(b, d) /\ m_queue[d] # NoQueue
        BY <3>3, TakenOnce
      <4>2. Comes(a, d)
        BY <3>1, <3>3 DEF Resolves, ResolveNext, TryReceive, At
      <4>3. InFront(a, b, fifo[m_queue[d]]) /\ a \in Elements(fifo[m_queue[d]])
        BY <1>2, <2>1, <2>2, <4>1, <4>2 DEF Ahead, Comes
      <4>4. fifo[m_queue[d]] \in Seq(Nat) /\ fifo[m_queue[d]] # <<>>
        BY <3>3, <4>1 DEF TryReceive, TypeInv, TypeOK, HeapOK, ObjectOK
      <4> DEFINE s == fifo[m_queue[d]]
      <4>5. 1 \in DOMAIN s /\ s[1] = b /\ \A i \in DOMAIN s : i \in Nat /\ i >= 1
        BY <3>3, <4>4
      <4>6. InFront(a, b, s) /\ a \in Elements(s)
        BY <4>3
      <4> HIDE DEF s
      <4>7. PICK i \in DOMAIN s : s[i] = a
        BY <4>6 DEF Elements
      <4>8. i < 1
        BY <4>5, <4>6, <4>7 DEF InFront
      <4> QED
        BY <4>5, <4>8
    <3> QED
      BY <2>4, <3>2, <3>3, ReceivedFrom DEF OnceInv
  <2>5. ASSUME NEW d \in Clients, m_queue'[d] # NoQueue, Comes(b, d)'
        PROVE  /\ \A t \in Clients : ~Entering(t, a, d)'
               /\ InFront(a, b, fifo'[m_queue'[d]])
    <3>1. \A t \in Clients : ~Entering(t, a, d)'
      BY <1>2, <2>1, <2>2, <2>5, NotEnteredBehind
    <3>2. m_queue'[d] = m_queue[d]
      BY <2>5, CameFrom
    <3>3. InFront(a, b, fifo'[m_queue[d]])
      BY <1>2, <2>1, <2>2, <2>5, <3>2, InFrontNext
    <3> QED
      BY <3>1, <3>2, <3>3
  <2> QED
    BY <2>3, <2>4, <2>5
<1> QED
  BY <1>1, <1>2

(* What is received comes after what was sent before it.                    *)
LEMMA FifoNext ==
  ASSUME StayingInv, Ahead, FifoPerGroup, NEW c \in Clients, Step(c)
  PROVE  FifoPerGroup'
<1> USE DEF StayingInv
<1> SUFFICES ASSUME NEW d \in Clients, NEW i \in DOMAIN got'[d], NEW j \in DOMAIN got'[d],
                    NEW a, a = got'[d][i], NEW b, b = got'[d][j], i < j,
                    msgs'[a].from = msgs'[b].from, msgs'[a].to = msgs'[b].to,
                    msgs'[a].from # BusAddrInvalid
             PROVE  a < b
  BY DEF FifoPerGroup
<1>1. a \in DOMAIN msgs /\ b \in DOMAIN msgs
  <2>1. a \in Elements(got'[d]) /\ b \in Elements(got'[d])
    BY DEF Elements
  <2> QED
    BY <2>1, ReceivedFrom DEF OnceInv
<1>2. /\ msgs[a].from = msgs[b].from /\ msgs[a].to = msgs[b].to
      /\ msgs[a].from # BusAddrInvalid
  BY <1>1, MessagesSame
<1>3. CASE got'[d] = got[d]
  BY <1>2, <1>3 DEF FifoPerGroup
<1>4. CASE got'[d] = <<>>
  BY <1>4
<1>5. CASE TryReceive(c) /\ d = c /\ got'[d] = Append(got[d], Head(fifo[m_queue[d]]))
  <2> DEFINE x == Head(fifo[m_queue[c]])
             s == got[c]
             t == got'[c]
  <2>1. x \in DOMAIN msgs /\ m_queue[c] # NoQueue /\ Comes(x, c)
    BY <1>5, TakenOnce
  <2>2. s \in Seq(Nat) /\ Distinct(s) /\ x \notin Elements(s)
    BY <2>1 DEF TypeInv, TypeOK, MessageOK, OnceInv, ComesOnce
  <2>3. /\ DOMAIN s = 1 .. Len(s) /\ Len(s) \in Nat /\ DOMAIN t = 1 .. Len(s) + 1
        /\ t[Len(s) + 1] = x /\ \A k \in 1 .. Len(s) : t[k] = s[k]
    BY <1>5, <2>2
  <2>4. i \in DOMAIN s /\ a = s[i]
    BY <1>5, <2>3
  <2>5. CASE j \in DOMAIN s
    <3>1. b = s[j]
      BY <1>5, <2>3, <2>5
    <3> QED
      BY <1>2, <2>4, <2>5, <3>1 DEF FifoPerGroup
  <2>6. CASE j \notin DOMAIN s
    <3>1. b = x /\ a \in Elements(s)
      BY <1>5, <2>3, <2>4, <2>6, SMTT(20) DEF Elements
    <3>2. a # b
      BY <2>2, <3>1
    <3>3. a \in Nat /\ b \in Nat
      BY <1>1 DEF TypeInv, TypeOK, MessageOK
    <3>4. ~(b < a)
      <4> SUFFICES ASSUME b < a PROVE FALSE
        OBVIOUS
      <4>1. SameRoute(b, a)
        BY <1>2 DEF SameRoute
      <4>2. ~Comes(b, c)
        BY <1>1, <2>1, <3>1, <4>1 DEF Ahead
      <4> QED
        BY <2>1, <3>1, <4>2
    <3> QED
      BY <3>2, <3>3, <3>4
  <2> QED
    BY <2>5, <2>6
<1> QED
  BY <1>3, <1>4, <1>5, ReceivedBy

(* All of it together is inductive.                                         *)
OrderInv == Visits /\ Whereabouts /\ Handled /\ Ahead /\ FifoPerGroup

(* Two messages that one client sent to one address are received in the     *)
(* order sent, by everybody and however the tasks interleave, where nobody  *)
(* is taken away (FifoPerGroup).  A client that disconnects or is destroyed *)
(* while a message is on its way to it holds that one up, and a later one   *)
(* is not sent through it and overtakes; when a client leaves a group,      *)
(* another can be listed twice, and receives a message twice.               *)
THEOREM OrderSafety == EverybodyStays /\ Spec => []FifoPerGroup
<1> SUFFICES ASSUME EverybodyStays PROVE Spec => []FifoPerGroup
  OBVIOUS
<1>1. Spec => []StayingInv
  BY StayingAlways
<1>2. Init => OrderInv
  <2>1. Init => Elements(<<>>) = {}
    BY DEF Elements
  <2> SUFFICES ASSUME Init PROVE OrderInv
    OBVIOUS
  <2>2. /\ msgs = <<>> /\ \A c \in Clients : got[c] = <<>> /\ hand[c] = 0 /\ pc[c] = "idle"
    BY DEF Init
  <2>3. Visits /\ Whereabouts /\ Handled
    BY <2>1, <2>2 DEF Visits, Whereabouts, Handled, Elements
  <2>4. Ahead /\ FifoPerGroup
    BY <2>2 DEF Ahead, FifoPerGroup
  <2> QED
    BY <2>3, <2>4 DEF OrderInv
<1>3. StayingInv /\ StayingInv' /\ OrderInv /\ [Next]_vars => OrderInv'
  <2> SUFFICES ASSUME StayingInv, StayingInv', OrderInv, [Next]_vars PROVE OrderInv'
    OBVIOUS
  <2>1. CASE UNCHANGED vars
    <3>1. UNCHANGED <<pc, out, dest, hand, m_addr, m_queue, fifo, msgs, got, lost>>
      BY <2>1 DEF vars, object, heap, local, history
    <3>2. Visits'
      BY <3>1 DEF OrderInv, Visits, Rest, Comes, Entering, At
    <3>3. Whereabouts'
      BY <3>1 DEF OrderInv, Whereabouts, IsWith, Rest, Comes, Entering, At
    <3>4. Handled'
      BY <3>1 DEF OrderInv, Handled, Rest
    <3>5. Ahead'
      <4>1. \A a, b \in DOMAIN msgs : SameRoute(a, b)' <=> SameRoute(a, b)
        BY <3>1 DEF SameRoute
      <4>2. \A a \in DOMAIN msgs : Rest(a)' = Rest(a) /\ Visited(a)' = Visited(a)
        BY <3>1 DEF Visited, Rest
      <4>3. \A a \in DOMAIN msgs, d \in Clients :
              /\ Comes(a, d)' <=> Comes(a, d)
              /\ \A t \in Clients : Entering(t, a, d)' <=> Entering(t, a, d)
        BY <3>1 DEF Comes, Entering, At
      <4>4. \A a, b \in DOMAIN msgs, d \in Clients :
              InFront(a, b, fifo'[m_queue'[d]]) <=> InFront(a, b, fifo[m_queue[d]])
        BY <3>1
      <4> QED
        BY <3>1, <4>1, <4>2, <4>3, <4>4 DEF OrderInv, Ahead, InFront
    <3>6. FifoPerGroup'
      BY <3>1 DEF OrderInv, FifoPerGroup
    <3> QED
      BY <3>2, <3>3, <3>4, <3>5, <3>6 DEF OrderInv
  <2>2. ASSUME NEW c \in Clients, Step(c) PROVE OrderInv'
    BY <2>2, VisitsNext, WhereaboutsNext, HandledNext, AheadNext, FifoNext DEF OrderInv
  <2> QED
    BY <2>1, <2>2 DEF Next, Step
<1>4. OrderInv => FifoPerGroup
  BY DEF OrderInv
<1> QED
  BY <1>1, <1>2, <1>3, <1>4, PTL DEF Spec

============================================================================
