---------------------------- MODULE BusDelivery ----------------------------
(* How often and in which order messages are received, and that the bus      *)
(* implements Multicast, while its oldest client stays: for any number of    *)
(* clients, queues and messages.                                             *)
EXTENDS BusMessages, BusMulticast

---------------------------------------------------------------------------
(* At most once.                                                            *)

(* Nobody leaves a group, so a list names nobody twice.                     *)
ListsDistinct ==
  /\ \A c \in Clients : pc[c] # "leaveAddr"
  /\ \A g \in DOMAIN m_groups : Distinct(m_groups[g].destination)
  /\ \A id \in DOMAIN msgs : Distinct(msgs[id].destination)

(* A message is on its way to a client only once.                           *)
Comes(id, c) == id \in Elements(fifo[m_queue[c]]) \/ \E t \in Clients : Entering(t, id, c)

ComesOnce ==
  \A c \in Clients :
    /\ Distinct(got[c])
    /\ Elements(got[c]) \subseteq DOMAIN msgs
    /\ \A id \in DOMAIN msgs :
         /\ m_queue[c] # NoQueue /\ Comes(id, c) => id \notin Elements(got[c])
         /\ /\ m_addr[c] # BusAddrInvalid
            /\ id \in Elements(got[c]) \/ Comes(id, c)
            => m_addr[c] \notin Elements(msgs[id].destination)

OnceInv == "leave" \notin Usage /\ ListsDistinct /\ ComesOnce

(* emplace_front of an element that is not there yet.                       *)
LEMMA FrontDistinct ==
  ASSUME NEW S, NEW s \in Seq(S), NEW e \in S, Distinct(s), \A i \in DOMAIN s : s[i] # e
  PROVE  Distinct(EmplaceFront(e, s))
<1> DEFINE new == EmplaceFront(e, s)
<1>1. new \in Seq(S) /\ Len(new) = Len(s) + 1
  BY EmplaceFrontType
<1>2. new[1] = e
  BY DEF EmplaceFront
<1>3. \A i \in 2 .. Len(s) + 1 : new[i] = s[i - 1]
  BY DEF EmplaceFront
<1> HIDE DEF new
<1>4. DOMAIN new = 1 .. Len(s) + 1 /\ DOMAIN s = 1 .. Len(s) /\ Len(s) \in Nat
  BY <1>1
<1>5. \A i \in DOMAIN new : i = 1 \/ (i - 1 \in DOMAIN s /\ new[i] = s[i - 1])
  BY <1>3, <1>4
<1>6. ASSUME NEW i \in DOMAIN new, NEW j \in DOMAIN new, new[i] = new[j] PROVE i = j
  <2>1. CASE i = 1 \/ j = 1
    BY <1>2, <1>5, <1>6, <2>1
  <2>2. CASE i # 1 /\ j # 1
    <3>1. i - 1 = j - 1
      BY <1>5, <1>6, <2>2 DEF Distinct
    <3> QED
      BY <1>4, <3>1
  <2> QED
    BY <2>1, <2>2
<1> QED
  BY <1>6 DEF Distinct, new

(* No list names a client twice.                                            *)
LEMMA GroupListsNext ==
  ASSUME TypeInv, ListsDistinct, NEW c \in Clients, Step(c), NEW g \in DOMAIN m_groups'
  PROVE  Distinct(m_groups'[g].destination)
<1>1. CASE m_groups' = m_groups
  BY <1>1 DEF ListsDistinct
<1>2. ASSUME NEW n \in Names, JoinName(c, n), m_groups' # m_groups
      PROVE  Distinct(m_groups'[g].destination)
  <2>1. m_groups \in Seq(Group) /\ NewGroup(n) \in Group
    BY DEF TypeInv, TypeOK, RegistryOK, NewGroup, Group
  <2> DEFINE new == EmplaceFront(NewGroup(n), m_groups)
  <2>2. m_groups' = new
    BY <1>2 DEF JoinName
  <2>3. new \in Seq(Group) /\ Len(new) = Len(m_groups) + 1
    BY <2>1, EmplaceFrontType
  <2>4. new[1] = NewGroup(n)
    BY <2>1, EmplaceFrontType
  <2>5. \A i \in 2 .. Len(m_groups) + 1 : new[i] = m_groups[i - 1]
    BY <2>1, EmplaceFrontType
  <2> HIDE DEF new
  <2>6. CASE g = 1
    BY <2>2, <2>4, <2>6 DEF NewGroup, Distinct
  <2>7. CASE g # 1
    <3>1. g - 1 \in DOMAIN m_groups /\ m_groups'[g] = m_groups[g - 1]
      BY <2>1, <2>2, <2>3, <2>5, <2>7
    <3> QED
      BY <3>1 DEF ListsDistinct
  <2> QED
    BY <2>6, <2>7
<1>3. CASE JoinAddr(c) /\ m_groups' # m_groups
  <2> DEFINE k == First(GroupsAt(arg[c]))
             members == m_groups[k].destination
  <2>1. k \in DOMAIN m_groups
    <3>1. GroupsAt(arg[c]) \subseteq DOMAIN m_groups
      BY DEF GroupsAt
    <3>2. GroupsAt(arg[c]) # {}
      BY <1>3 DEF JoinAddr
    <3> QED
      BY <3>1, <3>2, GroupFound DEF TypeInv, TypeOK
  <2>2. /\ m_groups' = [m_groups EXCEPT ![k].destination = EmplaceFront(m_addr[c], members)]
        /\ \A i \in DOMAIN members : members[i] # m_addr[c]
    BY <1>3 DEF JoinAddr
  <2>3. members \in Seq(Int) /\ m_addr[c] \in Int
    BY <2>1, GroupType DEF TypeInv, TypeOK, ObjectOK
  <2>4. Distinct(members)
    BY <2>1 DEF ListsDistinct
  <2> HIDE DEF members
  <2>5. Distinct(EmplaceFront(m_addr[c], members))
    BY <2>2, <2>3, <2>4, FrontDistinct
  <2>6. g \in DOMAIN m_groups /\ (g # k => m_groups'[g] = m_groups[g])
    BY <2>2
  <2>7. m_groups'[k].destination = EmplaceFront(m_addr[c], members)
    BY <2>1, <2>2, GroupType DEF Group
  <2> QED
    BY <2>5, <2>6, <2>7 DEF ListsDistinct
<1>4. ~LeaveAddr(c)
  BY DEF LeaveAddr, ListsDistinct, At
<1>5. \/ m_groups' = m_groups
      \/ \E n \in Names : JoinName(c, n)
      \/ JoinAddr(c) \/ LeaveAddr(c)
  BY OnlySomeRegroup
<1> QED
  BY <1>1, <1>2, <1>3, <1>4, <1>5

(* No step lists an address twice, while nobody leaves.                    *)
LEMMA ListsDistinctNext ==
  ASSUME TypeInv, "leave" \notin Usage, ListsDistinct, NEW c \in Clients, Step(c)
  PROVE  ListsDistinct'
<1>1. ASSUME NEW d \in Clients PROVE pc'[d] # "leaveAddr"
  <2> USE DEF TypeInv, TypeOK, TaskOK, Goto, At
  <2>1. CASE d # c
    BY <2>1, OthersKeep DEF SameTask, ListsDistinct
  <2>2. CASE d = c
    <3>1. pc[c] # "leaveAddr"
      BY DEF ListsDistinct
    <3>2. CreateQueue(c) \/ Reconnect(c) \/ Construct(c) \/ Destroy(c) \/ Disconnect(c)
          => pc'[c] # "leaveAddr"
      BY <3>1 DEF CreateQueue, Reconnect, Construct, Destroy, Disconnect
    <3>3. (\E n \in Names : JoinName(c, n) \/ LeaveName(c, n) \/ SendName(c, n))
          => pc'[c] # "leaveAddr"
      BY DEF JoinName, LeaveName, SendName
    <3>4. (\E to \in m_addrLast .. -1 : SendAddr(c, to)) => pc'[c] # "leaveAddr"
      BY DEF SendAddr
    <3>5. Connect(c) \/ JoinAddr(c) \/ LeaveAddr(c) => pc'[c] # "leaveAddr"
      BY DEF Connect, JoinAddr, LeaveAddr
    <3>6. BuildMsg(c) \/ ForwardDone(c) \/ Enqueue(c) => pc'[c] # "leaveAddr"
      BY ZenonT(40) DEF BuildMsg, ForwardDone, Enqueue
    <3>7. ResolveNext(c) => pc'[c] # "leaveAddr"
      <4>1. ResolveNext(c) => pc' = [pc EXCEPT ![c] = ret[c]] \/ pc' = [pc EXCEPT ![c] = "enqueue"]
        BY Resolving
      <4> QED
        BY <4>1
    <3>8. Drain(c) \/ Drained(c) \/ DeleteQueue(c) => pc'[c] # "leaveAddr"
      BY DEF Drain, Drained, DeleteQueue
    <3>9. TryReceive(c) \/ FinishReceive(c) => pc'[c] # "leaveAddr"
      BY <3>1 DEF TryReceive, FinishReceive
    <3> QED
      BY <2>2, <3>2, <3>3, <3>4, <3>5, <3>6, <3>7, <3>8, <3>9 DEF Step, Begin, Proceed
  <2> QED
    BY <2>1, <2>2
<1>2. ASSUME NEW id \in DOMAIN msgs' PROVE Distinct(msgs'[id].destination)
  <2>1. CASE id \notin DOMAIN msgs
    <3>1. BuildMsg(c) /\ msgs' # msgs
      BY <2>1, MessagesKeep
    <3>2. msgs'[id].destination = Destination(arg[c])
      BY <2>1, <3>1, Building
    <3>3. Distinct(Destination(arg[c]))
      <4>1. GroupsAt(arg[c]) # {} => First(GroupsAt(arg[c])) \in DOMAIN m_groups
        <5>1. GroupsAt(arg[c]) \subseteq DOMAIN m_groups
          BY DEF GroupsAt
        <5> QED
          BY <5>1, GroupFound DEF TypeInv, TypeOK
      <4>2. Distinct(<<arg[c]>>) /\ Distinct(<<>>)
        BY DEF Distinct
      <4> QED
        BY <4>1, <4>2 DEF Destination, ListsDistinct
    <3> QED
      BY <3>2, <3>3
  <2>2. CASE id \in DOMAIN msgs /\ msgs'[id].destination = msgs[id].destination
    BY <2>2 DEF ListsDistinct
  <2>3. CASE id \in DOMAIN msgs /\ msgs'[id].destination # msgs[id].destination
    <3> DEFINE list == msgs[id].destination
               n == Final(Valid(list))
    <3>1. /\ list \in Seq(Int)
          /\ \/ msgs'[id].destination = <<>>
             \/ n \in 1 .. Len(list) /\ msgs'[id].destination = SubSeq(list, 1, n - 1)
      BY <2>3, ListChanges
    <3>2. Distinct(list)
      BY <2>3 DEF ListsDistinct
    <3> HIDE DEF list, n
    <3>3. CASE msgs'[id].destination = <<>>
      BY <3>3 DEF Distinct
    <3>4. CASE n \in 1 .. Len(list) /\ msgs'[id].destination = SubSeq(list, 1, n - 1)
      <4>1. /\ DOMAIN list = 1 .. Len(list) /\ Len(list) \in Nat
            /\ DOMAIN SubSeq(list, 1, n - 1) = 1 .. n - 1
            /\ \A i \in 1 .. n - 1 : SubSeq(list, 1, n - 1)[i] = list[i]
        BY <3>1, <3>4, Prefix
      <4>2. Distinct(SubSeq(list, 1, n - 1))
        BY <3>2, <3>4, <4>1 DEF Distinct
      <4> QED
        BY <3>4, <4>2
    <3> QED
      BY <3>1, <3>3, <3>4
  <2> QED
    BY <2>1, <2>2, <2>3
<1> QED
  BY <1>1, <1>2, GroupListsNext DEF ListsDistinct

(* What a queue holds was in it, or was just sent to it.                    *)
LEMMA QueueFrom ==
  ASSUME TypeInv, OwnerInv, NEW c \in Clients, Step(c), NEW q \in Queues,
         NEW id \in Elements(fifo'[q])
  PROVE  id \in Elements(fifo[q]) \/ (Enqueue(c) /\ out[c] = id /\ dest[c] = q)
<1>1. fifo \in [Queues -> Seq(Nat)]
  BY DEF TypeInv, TypeOK, HeapOK
<1>2. CASE fifo' = fifo
  BY <1>2
<1>3. CASE TryReceive(c) \/ Drain(c)
  <2>1. m_queue[c] \in Queues /\ fifo[m_queue[c]] # <<>> /\ fifo' = [fifo EXCEPT ![m_queue[c]] = Tail(@)]
    BY <1>3 DEF TryReceive, Drain, At, TypeInv, TypeOK, ObjectOK, InCall
  <2>2. CASE q # m_queue[c]
    BY <1>1, <2>1, <2>2
  <2>3. CASE q = m_queue[c]
    <3>1. Elements(fifo[q]) = Elements(Tail(fifo[q])) \cup {Head(fifo[q])}
      BY <1>1, <2>1, <2>3, TailElements
    <3>2. fifo'[q] = Tail(fifo[q])
      BY <1>1, <2>1, <2>3
    <3> QED
      BY <3>1, <3>2
  <2> QED
    BY <2>2, <2>3
<1>4. CASE Enqueue(c)
  <2>1. fifo' = fifo \/ fifo' = [fifo EXCEPT ![dest[c]] = Append(fifo[dest[c]], out[c])]
    BY <1>4 DEF Enqueue, Sent
  <2>2. out[c] \in Nat
    BY DEF TypeInv, TypeOK, TaskOK
  <2>3. Elements(Append(fifo[q], out[c])) = Elements(fifo[q]) \cup {out[c]}
    BY <1>1, <2>2, AppendElements
  <2> QED
    BY <1>1, <1>4, <2>1, <2>3
<1>5. BuildMsg(c) \/ ForwardDone(c) \/ ResolveNext(c) \/ FinishReceive(c) => fifo' = fifo
  BY DEF BuildMsg, ForwardDone, ResolveNext, FinishReceive, heap
<1>6. Quiet(c) => fifo' = fifo
  BY TrackedQuiet
<1> QED
  BY <1>2, <1>3, <1>4, <1>5, <1>6, StepKinds

(* Task c resolves client d for message id.                                 *)
Resolves(c, id, d) == ResolveNext(c) /\ out[c] = id /\ pc'[c] = "enqueue" /\ dest'[c] = m_queue[d]

(* A message on its way to a client was on its way to it before the step,   *)
(* unless the step resolved the client's queue for it.                      *)
LEMMA CameFrom ==
  ASSUME TypeInv, RoutingInv, TargetInv, OwnerInv, NEW c \in Clients, Step(c),
         NEW id, NEW d \in Clients, m_queue'[d] # NoQueue, Comes(id, d)'
  PROVE  m_queue'[d] = m_queue[d] /\ (Comes(id, d) \/ Resolves(c, id, d))
<1> USE DEF TypeInv, TypeOK
<1>1. CASE m_queue'[d] = m_queue[d]
  <2>1. CASE id \in Elements(fifo'[m_queue[d]])
    <3>1. m_queue[d] \in Queues
      BY <1>1 DEF ObjectOK
    <3>2. id \in Elements(fifo[m_queue[d]]) \/ (Enqueue(c) /\ out[c] = id /\ dest[c] = m_queue[d])
      BY <2>1, <3>1, QueueFrom
    <3> QED
      BY <1>1, <3>2 DEF Comes, Entering, Enqueue
  <2>2. ASSUME NEW t \in Clients, Entering(t, id, d)' PROVE Comes(id, d) \/ Resolves(c, id, d)
    <3>1. CASE t # c
      BY <1>1, <2>2, <3>1, OthersKeep DEF SameTask, Entering, Comes, At
    <3>2. CASE t = c
      <4>1. ResolveNext(c) /\ out' = out
        BY <2>2, <3>2, OnlyResolvingEnters DEF Entering, At
      <4> QED
        BY <1>1, <2>2, <3>2, <4>1 DEF Entering, Resolves, At
    <3> QED
      BY <3>1, <3>2
  <2> QED
    BY <1>1, <2>1, <2>2 DEF Comes
<1>2. CASE m_queue'[d] # m_queue[d]
  <2>1. d = c
    BY <1>2, OthersKeep DEF SameTask
  <2>2. CreateQueue(c)
    <3>1. ~DeleteQueue(c)
      BY <2>1 DEF DeleteQueue, ObjectOK
    <3>2. ~(Unregister(c) /\ m_queue' = m_queue) /\ ~Connect(c)
      BY <1>2 DEF Connect
    <3> QED
      BY <1>2, <3>1, <3>2, OnlySomeRegister DEF Step
  <2>3. PICK q \in Queues \ live : /\ m_queue' = [m_queue EXCEPT ![c] = q]
                                   /\ fifo' = [fifo EXCEPT ![q] = <<>>]
    BY <2>2 DEF CreateQueue
  <2>4. m_queue'[d] = q /\ fifo'[q] = <<>>
    BY <2>1, <2>3 DEF ObjectOK, HeapOK
  <2>5. ASSUME NEW t \in Clients, Entering(t, id, d)' PROVE FALSE
    <3>1. UNCHANGED <<out, dest>> /\ pc' = [pc EXCEPT ![c] = "connect"]
      BY <2>2 DEF CreateQueue, local, Goto
    <3>2. pc[t] = "enqueue" /\ dest[t] = q
      BY <2>4, <2>5, <3>1 DEF Entering, At, TaskOK
    <3> QED
      BY <2>3, <3>2, EntersLive DEF TargetInv, At
  <2> QED
    BY <2>4, <2>5 DEF Comes, Elements
<1> QED
  BY <1>1, <1>2

(* What a client received grows by what it takes off its queue.             *)
LEMMA ReceivedBy ==
  ASSUME TypeInv, NEW c \in Clients, Step(c), NEW d \in Clients
  PROVE  \/ got'[d] = got[d] \/ got'[d] = <<>>
         \/ TryReceive(c) /\ d = c /\ got'[d] = Append(got[d], Head(fifo[m_queue[d]]))
<1> USE DEF TypeInv, TypeOK, MessageOK
<1>1. CASE d # c
  BY <1>1, OthersKeep DEF SameTask
<1>2. CASE d = c
  <2>1. Quiet(c) => got'[d] = got[d] \/ got'[d] = <<>>
    BY <1>2 DEF Quiet
  <2>2. BuildMsg(c) \/ ForwardDone(c) \/ ResolveNext(c) \/ FinishReceive(c) \/ Drain(c)
        \/ Enqueue(c) => got' = got
    BY DEF BuildMsg, ForwardDone, ResolveNext, FinishReceive, Drain, Enqueue, history
  <2>3. TryReceive(c) => got'[d] = Append(got[d], Head(fifo[m_queue[d]]))
    BY <1>2 DEF TryReceive
  <2> QED
    BY <1>2, <2>1, <2>2, <2>3, StepKinds
<1> QED
  BY <1>1, <1>2

(* What a client takes off its queue was on its way to it, and is no more.  *)
LEMMA TakenOnce ==
  ASSUME TypeInv, OwnerInv, NEW c \in Clients, TryReceive(c),
         NEW id, id = Head(fifo[m_queue[c]])
  PROVE  /\ id \in DOMAIN msgs /\ id \in Nat
         /\ m_queue[c] # NoQueue /\ m_queue'[c] = m_queue[c]
         /\ Comes(id, c) /\ ~Comes(id, c)'
<1> DEFINE q == m_queue[c]
<1>1. q \in Queues /\ q # NoQueue /\ fifo[q] # <<>> /\ fifo[q] \in Seq(Nat) /\ m_queue' = m_queue
  BY DEF TryReceive, TypeInv, TypeOK, ObjectOK, HeapOK, object
<1>2. id \in DOMAIN msgs /\ id \in Nat
  BY <1>1, HeadOfQueue DEF TypeInv, TypeOK, MessageOK
<1>3. /\ Elements(fifo[q]) = Elements(Tail(fifo[q])) \cup {id}
      /\ id \notin Elements(Tail(fifo[q]))
  BY <1>1, TailElements DEF OwnerInv, OneSlot
<1>4. fifo'[q] = Tail(fifo[q]) /\ UNCHANGED <<out, pc, dest>>
  BY <1>1 DEF TryReceive, TypeInv, TypeOK, HeapOK
<1>5. \A t \in Clients : out[t] # id
  BY <1>1, <1>3, Zenon DEF OwnerInv, OneSlot
<1>6. Comes(id, c)
  BY <1>3 DEF Comes
<1>7. ~Comes(id, c)'
  BY <1>1, <1>3, <1>4, <1>5 DEF Comes, Entering
<1> QED
  BY <1>1, <1>2, <1>6, <1>7

(* A queue is resolved for a message only by taking its client's address    *)
(* off the list.                                                            *)
LEMMA ResolvedIsTaken ==
  ASSUME TypeInv, RoutingInv, OldestInv, ListsDistinct, NEW c \in Clients, Step(c),
         NEW id, NEW d \in Clients, m_queue[d] # NoQueue, Resolves(c, id, d)
  PROVE  /\ m_addr[d] # BusAddrInvalid /\ m_addr'[d] = m_addr[d]
         /\ m_addr[d] \in Elements(msgs[id].destination)
         /\ m_addr[d] \notin Elements(msgs'[id].destination)
<1> DEFINE list == msgs[id].destination
           n == Final(Valid(list))
<1>1. ResolveNext(c) /\ out[c] = id /\ pc'[c] = "enqueue" /\ dest'[c] = m_queue[d]
  BY DEF Resolves
<1>2. id \in DOMAIN msgs /\ list \in Seq(Int)
  BY <1>1, Resolving
<1>3. /\ n \in Valid(list) /\ n \in 1 .. Len(list) /\ msgs'[id].destination = SubSeq(list, 1, n - 1)
      /\ dest' = [dest EXCEPT ![c] = Resolve(list[n])]
  <2>1. pc' = [pc EXCEPT ![c] = ret[c]] => pc'[c] # "enqueue"
    BY DEF TypeInv, TypeOK, TaskOK
  <2> QED
    BY <1>1, <2>1, Resolving
<1>4. Resolve(list[n]) = m_queue[d]
  BY <1>1, <1>3 DEF TypeInv, TypeOK, TaskOK
<1>5. PICK e \in Clients : m_queue[e] = Resolve(list[n]) /\ m_addr[e] = list[n] /\ list[n] # BusAddrInvalid
  BY <1>3, ResolvedIsConnected DEF Valid
<1>6. e = d
  BY <1>4, <1>5 DEF TypeInv, OneQueueEach
<1>7. UNCHANGED m_addr
  BY <1>1 DEF ResolveNext, object
<1>8. Distinct(list)
  BY <1>2 DEF ListsDistinct
<1> HIDE DEF list, n
<1>9. /\ DOMAIN list = 1 .. Len(list) /\ Len(list) \in Nat
      /\ DOMAIN SubSeq(list, 1, n - 1) = 1 .. n - 1
      /\ \A i \in 1 .. n - 1 : SubSeq(list, 1, n - 1)[i] = list[i]
  BY <1>2, <1>3, Prefix
<1>10. list[n] \in Elements(list) /\ list[n] \notin Elements(SubSeq(list, 1, n - 1))
  BY <1>3, <1>8, <1>9 DEF Elements, Distinct
<1> QED
  BY <1>3, <1>5, <1>6, <1>7, <1>10 DEF list

(* Every step keeps it so that a message comes to a client once.            *)
LEMMA OnceNext ==
  ASSUME TypeInv, RoutingInv, OldestInv, TargetInv, OwnerInv, DeliveryInv, OnceInv,
         NEW c \in Clients, Step(c)
  PROVE  ComesOnce'
<1> USE DEF OnceInv
<1>1. ASSUME NEW d \in Clients PROVE Distinct(got'[d]) /\ Elements(got'[d]) \subseteq DOMAIN msgs'
  <2>1. /\ Distinct(got[d]) /\ Elements(got[d]) \subseteq DOMAIN msgs
        /\ got[d] \in Seq(Nat) /\ DOMAIN msgs \subseteq DOMAIN msgs'
    BY MessagesKeep DEF ComesOnce, TypeInv, TypeOK, MessageOK
  <2>2. CASE got'[d] = got[d]
    BY <2>1, <2>2
  <2>3. CASE got'[d] = <<>>
    BY <2>3 DEF Distinct, Elements
  <2>4. CASE TryReceive(c) /\ d = c /\ got'[d] = Append(got[d], Head(fifo[m_queue[d]]))
    <3> DEFINE id == Head(fifo[m_queue[d]])
    <3>1. id \in DOMAIN msgs /\ id \in Nat /\ m_queue[d] # NoQueue /\ Comes(id, d)
      BY <2>4, TakenOnce
    <3>2. id \notin Elements(got[d])
      BY <3>1 DEF ComesOnce
    <3> HIDE DEF id
    <3>3. Distinct(Append(got[d], id)) /\ Elements(Append(got[d], id)) = Elements(got[d]) \cup {id}
      BY <2>1, <3>1, <3>2, AppendElements
    <3> QED
      BY <2>1, <2>4, <3>1, <3>3 DEF id
  <2> QED
    BY <2>2, <2>3, <2>4, ReceivedBy
<1>2. ASSUME NEW d \in Clients, NEW id, id \in Elements(got'[d])
      PROVE  /\ id \in DOMAIN msgs
             /\ \/ id \in Elements(got[d])
                \/ TryReceive(c) /\ d = c /\ id = Head(fifo[m_queue[d]])
  <2>1. Elements(got[d]) \subseteq DOMAIN msgs /\ got[d] \in Seq(Nat)
    BY DEF ComesOnce, TypeInv, TypeOK, MessageOK
  <2>2. CASE got'[d] = got[d]
    BY <1>2, <2>1, <2>2
  <2>3. CASE got'[d] = <<>>
    BY <1>2, <2>3 DEF Elements
  <2>4. CASE TryReceive(c) /\ d = c /\ got'[d] = Append(got[d], Head(fifo[m_queue[d]]))
    <3> DEFINE x == Head(fifo[m_queue[d]])
    <3>1. x \in DOMAIN msgs /\ x \in Nat
      BY <2>4, TakenOnce
    <3> HIDE DEF x
    <3>2. Elements(Append(got[d], x)) = Elements(got[d]) \cup {x}
      BY <2>1, <3>1, AppendElements
    <3> QED
      BY <1>2, <2>1, <2>4, <3>1, <3>2 DEF x
  <2> QED
    BY <2>2, <2>3, <2>4, ReceivedBy
<1>3. ASSUME NEW d \in Clients, NEW id, m_queue'[d] # NoQueue, Comes(id, d)'
      PROVE  /\ m_queue'[d] = m_queue[d] /\ id \in DOMAIN msgs
             /\ Comes(id, d) \/ Resolves(c, id, d)
  <2>1. m_queue'[d] = m_queue[d] /\ (Comes(id, d) \/ Resolves(c, id, d))
    BY <1>3, CameFrom
  <2>2. Comes(id, d) => id \in DOMAIN msgs
    <3>1. ASSUME id \in Elements(fifo[m_queue[d]]) PROVE id \in DOMAIN msgs
      BY <1>3, <2>1, <3>1 DEF TypeInv, TypeOK, ObjectOK, HeapOK, Elements
    <3>2. ASSUME NEW t \in Clients, Entering(t, id, d) PROVE id \in DOMAIN msgs
      BY <3>2, OutMessage DEF Entering, At
    <3> QED
      BY <3>1, <3>2 DEF Comes
  <2>3. Resolves(c, id, d) => id \in DOMAIN msgs
    BY Resolving DEF Resolves
  <2> QED
    BY <2>1, <2>2, <2>3
<1>4. ASSUME NEW d \in Clients, NEW id, m_queue'[d] # NoQueue, Comes(id, d)'
      PROVE  id \notin Elements(got'[d])
  <2> SUFFICES ASSUME id \in Elements(got'[d]) PROVE FALSE
    OBVIOUS
  <2>1. m_queue[d] # NoQueue /\ id \in DOMAIN msgs /\ (Comes(id, d) \/ Resolves(c, id, d))
    BY <1>3, <1>4
  <2>2. CASE TryReceive(c) /\ d = c /\ id = Head(fifo[m_queue[d]])
    BY <1>4, <2>2, TakenOnce
  <2>3. CASE id \in Elements(got[d])
    <3>1. ~Comes(id, d)
      BY <2>1, <2>3 DEF ComesOnce
    <3>2. Resolves(c, id, d)
      BY <2>1, <3>1
    <3>3. m_addr[d] # BusAddrInvalid /\ m_addr[d] \in Elements(msgs[id].destination)
      BY <2>1, <3>2, ResolvedIsTaken
    <3> QED
      BY <2>1, <2>3, <3>3 DEF ComesOnce
  <2> QED
    BY <1>2, <2>2, <2>3
<1>5. ASSUME NEW d \in Clients, NEW id \in DOMAIN msgs, m_addr'[d] # BusAddrInvalid,
             id \in Elements(got[d]) \/ (m_queue[d] # NoQueue /\ Comes(id, d))
      PROVE  m_addr'[d] \notin Elements(msgs'[id].destination)
  <2>1. Elements(msgs'[id].destination) \subseteq Elements(msgs[id].destination)
    BY MessagesKeep
  <2>2. CASE m_addr[d] = BusAddrInvalid
    <3>1. m_addr'[d] < m_addrLast
      <4>1. Next
        BY DEF Next, Step, TargetInv
      <4> QED
        BY <1>5, <2>2, <4>1, FreshNext
    <3>2. Elements(msgs[id].destination) \subseteq m_addrLast .. -1
      BY DEF TargetInv, TargetsLeft, DeliveryInv, AddressesKnown
    <3>3. m_addrLast \in Int
      BY DEF TypeInv, TypeOK, RegistryOK
    <3> QED
      BY <2>1, <3>1, <3>2, <3>3
  <2>3. CASE m_addr[d] # BusAddrInvalid
    <3>1. m_addr'[d] = m_addr[d]
      BY <1>5, <2>3, ObjectsKeep
    <3>2. m_addr[d] \notin Elements(msgs[id].destination)
      BY <1>5, <2>3 DEF ComesOnce
    <3> QED
      BY <2>1, <3>1, <3>2
  <2> QED
    BY <2>2, <2>3
<1>6. ASSUME NEW d \in Clients, NEW id, m_addr'[d] # BusAddrInvalid,
             id \in Elements(got'[d]) \/ Comes(id, d)'
      PROVE  m_addr'[d] \notin Elements(msgs'[id].destination)
  <2>1. CASE id \in Elements(got'[d])
    <3>1. id \in DOMAIN msgs /\ (id \in Elements(got[d]) \/ (m_queue[d] # NoQueue /\ Comes(id, d)))
      BY <1>2, <2>1, TakenOnce
    <3> QED
      BY <1>5, <1>6, <3>1
  <2>2. CASE Comes(id, d)'
    <3>1. m_queue'[d] # NoQueue
      <4>1. CASE m_addr[d] # BusAddrInvalid
        BY <4>1, ObjectsKeep, ConnectedHasQueue
      <4>2. CASE m_addr[d] = BusAddrInvalid
        <5>1. Connect(c) /\ d = c
          <6>1. d = c
            BY <1>6, <4>2, OthersKeep DEF SameTask
          <6>2. ~(Unregister(c)) /\ (CreateQueue(c) \/ DeleteQueue(c) => m_addr' = m_addr)
            BY <1>6, <6>1 DEF Unregister, CreateQueue, DeleteQueue, TypeInv, TypeOK, ObjectOK
          <6> QED
            BY <1>6, <4>2, <6>1, <6>2, OnlySomeRegister DEF Step
        <5> QED
          BY <5>1, BusAssumption DEF Connect, TypeInv, TypeOK, ObjectOK, InCall, At, BusAssumption
      <4> QED
        BY <4>1, <4>2
    <3>2. m_queue[d] # NoQueue /\ id \in DOMAIN msgs /\ (Comes(id, d) \/ Resolves(c, id, d))
      BY <1>3, <2>2, <3>1
    <3>3. CASE Comes(id, d)
      BY <1>5, <1>6, <3>2, <3>3
    <3>4. CASE Resolves(c, id, d)
      BY <3>2, <3>4, ResolvedIsTaken
    <3> QED
      BY <3>2, <3>3, <3>4
  <2> QED
    BY <1>6, <2>1, <2>2
<1> QED
  BY <1>1, <1>4, <1>6 DEF ComesOnce

(* A message comes to a client once, in every state.                        *)
LEMMA OnceAlways == OldestStays /\ "leave" \notin Usage /\ Spec => []OnceInv
<1>1. "leave" \notin Usage /\ Init => OnceInv
  BY DEF Init, OnceInv, ListsDistinct, ComesOnce, Distinct, Elements
<1>2. TypeInv /\ RoutingInv /\ OldestInv /\ TargetInv /\ OwnerInv /\ DeliveryInv /\ OnceInv
      /\ [Next]_vars => OnceInv'
  <2> SUFFICES ASSUME TypeInv, RoutingInv, OldestInv, TargetInv, OwnerInv, DeliveryInv, OnceInv,
                      [Next]_vars
               PROVE  OnceInv'
    OBVIOUS
  <2>1. CASE UNCHANGED vars
    <3>1. UNCHANGED <<m_groups, msgs, pc, got, fifo, m_queue, m_addr, out, dest>>
      BY <2>1 DEF vars, registry, object, heap, local, history
    <3> QED
      BY <3>1 DEF OnceInv, ListsDistinct, ComesOnce, Comes, Entering, Elements, Distinct, At
  <2>2. ASSUME NEW c \in Clients, Step(c) PROVE OnceInv'
    BY <2>2, ListsDistinctNext, OnceNext DEF OnceInv
  <2> QED
    BY <2>1, <2>2 DEF Next, Step
<1> QED
  BY <1>1, <1>2, TypeAlways, RoutingAlways, OldestAlways, TargetAlways, OwnerAlways,
     DeliveryAlways, PTL DEF Spec

(* A client receives a message once, although the message travels from      *)
(* queue to queue and addresses are looked up again at every stop (Bus.cpp  *)
(* 232-275): nobody is listed twice, and an address is not given to         *)
(* another.  leave() is left out because it can list a client twice.        *)
THEOREM ReceiptSafety == OldestStays /\ "leave" \notin Usage /\ Spec => []AtMostOnce
<1>1. OnceInv => AtMostOnce
  BY DEF OnceInv, ComesOnce, AtMostOnce
<1> QED
  BY <1>1, OnceAlways, PTL

---------------------------------------------------------------------------
(* The bus implements Multicast.                                            *)

(* Where a message is follows from the one place its pointer is at.         *)
Placed ==
  \A id \in DOMAIN msgs :
    /\ \A q \in Queues : id \in Elements(fifo[q]) => PlaceOf(id) = "waiting"
    /\ \A c \in Clients :
         /\ hand[c] = id => PlaceOf(id) = "handled"
         /\ out[c] = id /\ pc[c] = "enqueue" => PlaceOf(id) = "addressed"
         /\ out[c] = id /\ pc[c] # "enqueue" => PlaceOf(id) = "moving"
    /\ ~Owned(id) => PlaceOf(id) = "ended"

(* A pointer has one owner, so every message has its place.                *)
LEMMA PlacedAlways == OldestStays /\ Spec => []Placed
<1>1. TypeInv /\ OwnerInv => Placed
  <2> SUFFICES ASSUME TypeInv, OwnerInv, NEW id \in DOMAIN msgs
               PROVE  /\ \A q \in Queues : id \in Elements(fifo[q]) => PlaceOf(id) = "waiting"
                      /\ \A c \in Clients :
                           /\ hand[c] = id => PlaceOf(id) = "handled"
                           /\ out[c] = id /\ pc[c] = "enqueue" => PlaceOf(id) = "addressed"
                           /\ out[c] = id /\ pc[c] # "enqueue" => PlaceOf(id) = "moving"
                      /\ ~Owned(id) => PlaceOf(id) = "ended"
    BY DEF Placed
  <2> DEFINE Waits == \E q \in live : id \in Elements(fifo[q])
  <2>1. live \subseteq Queues /\ id # 0
    BY DEF TypeInv, TypeOK, HeapOK, MessageOK
  <2>2. \A q \in Queues : id \in Elements(fifo[q]) => Waits
    BY DEF OwnerInv, DeadQueuesEmpty, Elements
  <2>3. Waits => \A c \in Clients : hand[c] # id /\ out[c] # id
    <3>1. \A q \in Queues, c \in Clients :
            out[c] \notin Elements(fifo[q]) /\ hand[c] \notin Elements(fifo[q])
      BY DEF OwnerInv, OneSlot
    <3> QED
      BY <2>1, <3>1, Zenon
  <2>4. \A c, d \in Clients : out[c] = id => hand[d] # id /\ (out[d] = id => c = d)
    BY <2>1, Zenon DEF OwnerInv, OneSlot
  <2>5. PlaceOf(id) = CASE Waits -> "waiting"
                        [] \E c \in Clients : hand[c] = id -> "handled"
                        [] \E c \in Clients : out[c] = id /\ pc[c] = "enqueue" -> "addressed"
                        [] \E c \in Clients : out[c] = id /\ pc[c] # "enqueue" -> "moving"
                        [] OTHER -> "ended"
    BY DEF PlaceOf, At
  <2> HIDE DEF Waits
  <2>6. \A q \in Queues : id \in Elements(fifo[q]) => PlaceOf(id) = "waiting"
    BY <2>2, <2>3, <2>5
  <2>7. ASSUME NEW c \in Clients
        PROVE  /\ hand[c] = id => PlaceOf(id) = "handled"
               /\ out[c] = id /\ pc[c] = "enqueue" => PlaceOf(id) = "addressed"
               /\ out[c] = id /\ pc[c] # "enqueue" => PlaceOf(id) = "moving"
    BY <2>3, <2>4, <2>5
  <2>8. ~Owned(id) => PlaceOf(id) = "ended"
    <3>1. ~Owned(id) => ~Waits /\ \A c \in Clients : hand[c] # id /\ out[c] # id
      BY <2>1 DEF Owned, Waits
    <3> QED
      BY <2>5, <3>1
  <2> QED
    BY <2>6, <2>7, <2>8
<1> QED
  BY <1>1, TypeAlways, OwnerAlways, PTL

(* The variables of Multicast.                                              *)
Lists == [id \in DOMAIN msgs |-> msgs[id].targets]
Left  == [id \in DOMAIN msgs |-> msgs[id].destination]
Spots == [id \in DOMAIN msgs |-> PlaceOf(id)]

(* A step moves no other message than the one it is about.                  *)
LEMMA OthersRest ==
  ASSUME TypeInv, Placed, Placed', NEW c \in Clients, Step(c), NEW x,
         {out[c], out'[c]} \subseteq {0, x},
         hand'[c] = hand[c] \/ {hand[c], hand'[c]} \subseteq {0, x},
         \A q \in Queues : Elements(fifo'[q]) \ {x} = Elements(fifo[q]) \ {x}
  PROVE  \A id \in DOMAIN msgs : id # x => PlaceOf(id)' = PlaceOf(id)
<1> SUFFICES ASSUME NEW id \in DOMAIN msgs, id # x PROVE PlaceOf(id)' = PlaceOf(id)
  OBVIOUS
<1>1. id \in DOMAIN msgs' /\ id # 0
  BY MessagesKeep DEF TypeInv, TypeOK, MessageOK
<1>2. \A q \in Queues : id \in Elements(fifo'[q]) <=> id \in Elements(fifo[q])
  OBVIOUS
<1>3. \A d \in Clients : d # c => out'[d] = out[d] /\ hand'[d] = hand[d] /\ pc'[d] = pc[d]
  BY OthersKeep DEF SameTask
<1>4. \A d \in Clients : /\ hand'[d] = id <=> hand[d] = id
                         /\ out'[d] = id <=> out[d] = id
                         /\ out[d] = id => pc'[d] = pc[d]
  BY <1>1, <1>3
<1>5. Owned(id)' <=> Owned(id)
  BY <1>2, <1>4, Zenon DEF Owned
<1>6. CASE ~Owned(id)
  BY <1>1, <1>5, <1>6 DEF Placed
<1>7. ASSUME NEW q \in Queues, id \in Elements(fifo[q]) PROVE PlaceOf(id)' = PlaceOf(id)
  BY <1>1, <1>2, <1>7 DEF Placed
<1>8. ASSUME NEW d \in Clients, hand[d] = id \/ out[d] = id PROVE PlaceOf(id)' = PlaceOf(id)
  BY <1>1, <1>4, <1>8 DEF Placed
<1> QED
  BY <1>6, <1>7, <1>8 DEF Owned

(* A step about one message, that built before, moves that message.         *)
LEMMA OneMoves ==
  ASSUME TypeInv, Placed, Placed', NEW c \in Clients, Step(c), NEW x \in DOMAIN msgs,
         {out[c], out'[c]} \subseteq {0, x},
         hand'[c] = hand[c] \/ {hand[c], hand'[c]} \subseteq {0, x},
         \A q \in Queues : Elements(fifo'[q]) \ {x} = Elements(fifo[q]) \ {x},
         DOMAIN msgs' = DOMAIN msgs
  PROVE  Spots' = [Spots EXCEPT ![x] = PlaceOf(x)'] /\ Spots[x] = PlaceOf(x) /\ x \in DOMAIN Lists
<1>1. \A id \in DOMAIN msgs : id # x => PlaceOf(id)' = PlaceOf(id)
  BY OthersRest
<1> QED
  BY <1>1 DEF Spots, Lists

(* A step that touches no message leaves every message where it is.         *)
LEMMA QuietIsQuiet ==
  ASSUME TypeInv, OwnerInv, Placed, Placed', NEW c \in Clients, Step(c), Quiet(c)
  PROVE  Abstract!Next \/ UNCHANGED Abstract!vars
<1>1. UNCHANGED <<out, hand, msgs, fifo>> /\ out[c] = 0
  BY TrackedQuiet DEF Quiet, OwnerInv, SendersOwn
<1>2. \A id \in DOMAIN msgs : id # 0 => PlaceOf(id)' = PlaceOf(id)
  BY <1>1, OthersRest
<1>3. 0 \notin DOMAIN msgs
  BY DEF TypeInv, TypeOK, MessageOK
<1>4. Lists' = Lists /\ Left' = Left
  BY <1>1 DEF Lists, Left
<1>5. Spots' = Spots
  <2>1. \A id \in DOMAIN msgs : PlaceOf(id)' = PlaceOf(id)
    BY <1>2, <1>3
  <2> QED
    BY <1>1, <2>1 DEF Spots
<1>6. CASE got' = got
  BY <1>4, <1>5, <1>6 DEF Abstract!vars, Lists, Left, Spots
<1>7. CASE got' = [got EXCEPT ![c] = <<>>]
  <2>1. Abstract!Forget(c)
    BY <1>4, <1>5, <1>7 DEF Abstract!Forget, Lists, Left, Spots
  <2> QED
    BY <2>1 DEF Abstract!Next
<1> QED
  BY <1>6, <1>7 DEF Quiet

(* The message with nothing left to do, or nobody left to go to, ends;      *)
(* another one is addressed to the next client.                             *)
LEMMA ForwardMoves ==
  ASSUME TypeInv, OwnerInv, OwnerInv', Placed, Placed', NEW c \in Clients, Step(c),
         ForwardDone(c) \/ ResolveNext(c)
  PROVE  Abstract!Next
<1> DEFINE x == out[c]
<1>1. pc[c] = "forward"
  BY DEF ForwardDone, ResolveNext, At
<1>2. x \in DOMAIN msgs /\ x # 0
  BY <1>1, SenderOwns DEF Sending
<1>3. UNCHANGED <<fifo, hand, got>>
  BY DEF ForwardDone, ResolveNext, heap, history
<1>4. DOMAIN msgs' = DOMAIN msgs /\ Lists' = Lists
  BY Resolving DEF ForwardDone, Lists
<1>5. ASSUME NEW y, y = x, out' = [out EXCEPT ![c] = 0], msgs'[y].destination = <<>>,
             \A j \in DOMAIN msgs : j # y => msgs'[j] = msgs[j]
      PROVE  Abstract!End(y) /\ y \in DOMAIN Lists
  <2>1. out'[c] = 0 /\ \A d \in Clients : out'[d] # y
    <3>1. \A d \in Clients : d # c => out[d] # y
      BY <1>2, <1>5 DEF OwnerInv, OneSlot
    <3> QED
      BY <1>2, <1>5, <3>1 DEF TypeInv, TypeOK, TaskOK
  <2>2. ~Owned(y)'
    <3>1. /\ \A q \in Queues : y \notin Elements(fifo[q])
          /\ \A d \in Clients : hand[d] # y
      BY <1>2, <1>5 DEF OwnerInv, OneSlot
    <3> QED
      BY <1>3, <2>1, <3>1, Zenon DEF Owned
  <2>3. PlaceOf(y) = "moving" /\ PlaceOf(y)' = "ended"
    BY <1>1, <1>2, <1>4, <1>5, <2>2 DEF Placed
  <2>4. Spots' = [Spots EXCEPT ![y] = PlaceOf(y)'] /\ Spots[y] = PlaceOf(y) /\ y \in DOMAIN Lists
    BY <1>2, <1>3, <1>4, <1>5, <2>1, OneMoves
  <2>5. Left' = [Left EXCEPT ![y] = <<>>]
    BY <1>4, <1>5 DEF Left
  <2> QED
    BY <1>3, <1>4, <2>3, <2>4, <2>5 DEF Abstract!End, Abstract!Move, Lists, Left, Spots
<1>6. CASE ForwardDone(c)
  BY <1>5, <1>6 DEF ForwardDone, Abstract!Next, Lists
<1>7. CASE ResolveNext(c)
  <2> DEFINE list == msgs[x].destination
             n == Final(Valid(list))
  <2>1. /\ list \in Seq(Int) /\ \A j \in DOMAIN msgs : j # x => msgs'[j] = msgs[j]
        /\ \/ msgs'[x].destination = <<>> /\ out' = [out EXCEPT ![c] = 0]
           \/ /\ n \in 1 .. Len(list) /\ msgs'[x].destination = SubSeq(list, 1, n - 1)
              /\ pc' = [pc EXCEPT ![c] = "enqueue"] /\ out' = out
    BY <1>7, Resolving
  <2>2. ASSUME NEW y, y = x, msgs'[x].destination = <<>>, out' = [out EXCEPT ![c] = 0]
        PROVE  Abstract!Next
    <3>1. msgs'[y].destination = <<>> /\ \A j \in DOMAIN msgs : j # y => msgs'[j] = msgs[j]
      BY <2>1, <2>2
    <3> HIDE DEF n, list
    <3>2. Abstract!End(y) /\ y \in DOMAIN Lists
      BY <1>5, <2>2, <3>1
    <3> QED
      BY <3>2 DEF Abstract!Next, Lists
  <2>3. ASSUME NEW y, y = x, n \in 1 .. Len(list), msgs'[x].destination = SubSeq(list, 1, n - 1),
               pc' = [pc EXCEPT ![c] = "enqueue"], out' = out
        PROVE  Abstract!Next
    <3>1. PlaceOf(y) = "moving" /\ PlaceOf(y)' = "addressed"
      <4>1. pc'[c] = "enqueue"
        BY <2>3 DEF TypeInv, TypeOK, TaskOK
      <4> QED
        BY <1>1, <1>2, <1>4, <2>3, <4>1 DEF Placed
    <3>2. Spots' = [Spots EXCEPT ![y] = PlaceOf(y)'] /\ Spots[y] = PlaceOf(y) /\ y \in DOMAIN Lists
      BY <1>2, <1>3, <1>4, <2>3, OneMoves
    <3>3. n - 1 \in 0 .. Len(Left[y]) - 1 /\ Left' = [Left EXCEPT ![y] = SubSeq(@, 1, n - 1)]
      <4>1. Left[y] = list
        BY <1>2, <2>3 DEF Left
      <4> HIDE DEF n, list
      <4>2. n - 1 \in 0 .. Len(list) - 1
        BY <2>1, <2>3
      <4>3. Left' = [Left EXCEPT ![y] = SubSeq(list, 1, n - 1)]
        BY <1>2, <1>4, <2>1, <2>3 DEF Left
      <4> QED
        BY <4>1, <4>2, <4>3
    <3> HIDE DEF n, list
    <3>4. Abstract!Address(y)
      BY <1>3, <1>4, <3>1, <3>2, <3>3 DEF Abstract!Address, Abstract!Move, Lists, Left, Spots
    <3> QED
      BY <3>2, <3>4 DEF Abstract!Next, Lists
  <2> QED
    BY <2>1, <2>2, <2>3
<1> QED
  BY <1>6, <1>7

(* The message arrives in the queue, or is lost if the queue is full.       *)
LEMMA EnqueueMoves ==
  ASSUME TypeInv, RoutingInv, TargetInv, OwnerInv, OwnerInv', Placed, Placed',
         NEW c \in Clients, Step(c), Enqueue(c)
  PROVE  Abstract!Next
<1> SUFFICES ASSUME NEW x, x = out[c] PROVE Abstract!Next
  OBVIOUS
<1>1. pc[c] = "enqueue"
  BY DEF Enqueue, At
<1>2. x \in DOMAIN msgs /\ x # 0 /\ x \in Nat
  BY <1>1, SenderOwns DEF Sending
<1>3. UNCHANGED <<hand, got, msgs>> /\ out' = [out EXCEPT ![c] = 0]
  BY DEF Enqueue
<1>4. Lists' = Lists /\ Left' = Left
  BY <1>3 DEF Lists, Left
<1>5. dest[c] \in live /\ dest[c] \in Queues /\ fifo \in [Queues -> Seq(Nat)]
  BY <1>1, EntersLive DEF TargetInv, TypeInv, TypeOK, HeapOK, At
<1>6. out'[c] = 0 /\ \A d \in Clients : out'[d] # x
  <2>1. \A d \in Clients : d # c => out[d] # x
    BY <1>2 DEF OwnerInv, OneSlot
  <2> QED
    BY <1>2, <1>3, <2>1 DEF TypeInv, TypeOK, TaskOK
<1>7. PlaceOf(x) = "addressed"
  BY <1>1, <1>2 DEF Placed
<1>8. CASE Len(fifo[dest[c]]) < QueueLength
  <2>1. fifo' = [fifo EXCEPT ![dest[c]] = Append(fifo[dest[c]], x)]
    BY <1>5, <1>8 DEF Enqueue, Sent
  <2>2. Elements(Append(fifo[dest[c]], x)) = Elements(fifo[dest[c]]) \cup {x}
    BY <1>2, <1>5, AppendElements
  <2>3. \A q \in Queues : Elements(fifo'[q]) \ {x} = Elements(fifo[q]) \ {x}
    BY <1>5, <2>1, <2>2
  <2>4. x \in Elements(fifo'[dest[c]])
    BY <1>5, <2>1, <2>2
  <2>5. PlaceOf(x)' = "waiting"
    BY <1>2, <1>3, <1>5, <2>4 DEF Placed
  <2>6. Spots' = [Spots EXCEPT ![x] = PlaceOf(x)'] /\ Spots[x] = PlaceOf(x) /\ x \in DOMAIN Lists
    BY <1>2, <1>3, <1>6, <2>3, OneMoves
  <2>7. Abstract!Arrive(x)
    BY <1>3, <1>4, <1>7, <2>5, <2>6 DEF Abstract!Arrive, Abstract!Move, Lists, Left, Spots
  <2> QED
    BY <2>6, <2>7 DEF Abstract!Next, Lists
<1>9. CASE ~(Len(fifo[dest[c]]) < QueueLength)
  <2>1. fifo' = fifo
    BY <1>5, <1>9 DEF Enqueue
  <2>2. ~Owned(x)'
    <3>1. /\ \A q \in Queues : x \notin Elements(fifo[q])
          /\ \A d \in Clients : hand[d] # x
      BY <1>2 DEF OwnerInv, OneSlot
    <3> QED
      BY <1>3, <1>6, <2>1, <3>1, Zenon DEF Owned
  <2>3. PlaceOf(x)' = "ended"
    BY <1>2, <1>3, <2>2 DEF Placed
  <2>4. Spots' = [Spots EXCEPT ![x] = PlaceOf(x)'] /\ Spots[x] = PlaceOf(x) /\ x \in DOMAIN Lists
    BY <1>2, <1>3, <1>6, <2>1, OneMoves
  <2>5. Abstract!Lose(x)
    BY <1>3, <1>4, <1>7, <2>3, <2>4 DEF Abstract!Lose, Abstract!Move, Lists, Left, Spots
  <2> QED
    BY <2>4, <2>5 DEF Abstract!Next, Lists
<1> QED
  BY <1>8, <1>9

(* A client receives the message, or passes it on unread in its destructor. *)
LEMMA TakingMoves ==
  ASSUME TypeInv, OwnerInv, Placed, Placed', NEW c \in Clients, Step(c),
         TryReceive(c) \/ Drain(c)
  PROVE  Abstract!Next
<1> DEFINE q == m_queue[c]
<1> SUFFICES ASSUME NEW x, x = Head(fifo[q]) PROVE Abstract!Next
  OBVIOUS
<1> USE DEF At
<1>1. q \in Queues /\ fifo[q] # <<>> /\ fifo \in [Queues -> Seq(Nat)]
  BY DEF TryReceive, Drain, TypeInv, TypeOK, ObjectOK, HeapOK, InCall
<1>2. x \in DOMAIN msgs
  BY <1>1, HeadOfQueue DEF TypeInv, TypeOK, MessageOK
<1>3. UNCHANGED msgs /\ fifo' = [fifo EXCEPT ![q] = Tail(@)]
  BY DEF TryReceive, Drain
<1>4. Lists' = Lists /\ Left' = Left
  BY <1>3 DEF Lists, Left
<1>5. Elements(fifo[q]) = Elements(Tail(fifo[q])) \cup {x}
  BY <1>1, TailElements
<1>6. \A r \in Queues : Elements(fifo'[r]) \ {x} = Elements(fifo[r]) \ {x}
  BY <1>1, <1>3, <1>5
<1>7. PlaceOf(x) = "waiting"
  <2>1. x \in Elements(fifo[q])
    BY <1>5
  <2> QED
    BY <1>1, <1>2, <2>1 DEF Placed
<1>8. out[c] = 0
  BY DEF TryReceive, Drain, OwnerInv, SendersOwn, Sending
<1>9. CASE TryReceive(c)
  <2>1. /\ hand[c] = 0 /\ hand' = [hand EXCEPT ![c] = x] /\ out' = out
        /\ got' = [got EXCEPT ![c] = Append(@, x)]
    BY <1>9 DEF TryReceive
  <2>2. hand'[c] = x
    BY <2>1 DEF TypeInv, TypeOK, TaskOK
  <2>3. PlaceOf(x)' = "handled"
    BY <1>2, <1>3, <2>2 DEF Placed
  <2>4. Spots' = [Spots EXCEPT ![x] = PlaceOf(x)'] /\ Spots[x] = PlaceOf(x) /\ x \in DOMAIN Lists
    BY <1>2, <1>3, <1>6, <1>8, <2>1, <2>2, OneMoves
  <2>5. Abstract!Receive(x, c)
    BY <1>4, <1>7, <2>1, <2>3, <2>4 DEF Abstract!Receive, Abstract!Move, Lists, Left, Spots
  <2> QED
    BY <2>4, <2>5 DEF Abstract!Next, Lists
<1>10. CASE Drain(c)
  <2>1. out' = [out EXCEPT ![c] = x] /\ UNCHANGED <<hand, got>> /\ pc' = [pc EXCEPT ![c] = "forward"]
    BY <1>10 DEF Drain, Goto, history
  <2>2. out'[c] = x /\ pc'[c] = "forward"
    BY <2>1 DEF TypeInv, TypeOK, TaskOK
  <2>3. PlaceOf(x)' = "moving"
    BY <1>2, <1>3, <2>2 DEF Placed
  <2>4. Spots' = [Spots EXCEPT ![x] = PlaceOf(x)'] /\ Spots[x] = PlaceOf(x) /\ x \in DOMAIN Lists
    BY <1>2, <1>3, <1>6, <1>8, <2>1, <2>2, OneMoves
  <2>5. Abstract!PassOn(x)
    BY <1>4, <1>7, <2>1, <2>3, <2>4 DEF Abstract!PassOn, Abstract!Move, Lists, Left, Spots
  <2> QED
    BY <2>4, <2>5 DEF Abstract!Next, Lists
<1> QED
  BY <1>9, <1>10

(* receive() returned.                                                      *)
LEMMA ResumeMoves ==
  ASSUME TypeInv, OwnerInv, Placed, Placed', NEW c \in Clients, Step(c), FinishReceive(c)
  PROVE  Abstract!Next
<1> SUFFICES ASSUME NEW x, x = hand[c] PROVE Abstract!Next
  OBVIOUS
<1>1. /\ x # 0 /\ pc[c] = "idle" /\ out' = [out EXCEPT ![c] = x] /\ hand' = [hand EXCEPT ![c] = 0]
      /\ pc' = [pc EXCEPT ![c] = "forward"] /\ UNCHANGED <<msgs, got, fifo>>
  BY DEF FinishReceive, At, Goto, heap, history
<1>2. x \in DOMAIN msgs
  BY <1>1 DEF TypeInv, TypeOK, TaskOK, MessageOK
<1>3. Lists' = Lists /\ Left' = Left
  BY <1>1 DEF Lists, Left
<1>4. out[c] = 0 /\ out'[c] = x /\ hand'[c] = 0 /\ pc'[c] = "forward"
  BY <1>1 DEF OwnerInv, SendersOwn, Sending, TypeInv, TypeOK, TaskOK
<1>5. PlaceOf(x) = "handled" /\ PlaceOf(x)' = "moving"
  BY <1>1, <1>2, <1>4 DEF Placed
<1>6. Spots' = [Spots EXCEPT ![x] = PlaceOf(x)'] /\ Spots[x] = PlaceOf(x) /\ x \in DOMAIN Lists
  BY <1>1, <1>2, <1>4, OneMoves
<1>7. Abstract!Resume(x)
  BY <1>1, <1>3, <1>5, <1>6 DEF Abstract!Resume, Abstract!Move, Lists, Left, Spots
<1> QED
  BY <1>6, <1>7 DEF Abstract!Next, Lists

(* A sequence that is one longer is the shorter one with an element added.  *)
LEMMA OneMore ==
  ASSUME NEW S, NEW s \in Seq(S), NEW t \in Seq(S), NEW e \in S,
         DOMAIN t = 1 .. Len(s) + 1, \A i \in 1 .. Len(s) : t[i] = s[i], t[Len(s) + 1] = e
  PROVE  t = Append(s, e)
<1> DEFINE new == Append(s, e)
<1>1. new \in Seq(S) /\ Len(new) = Len(s) + 1 /\ new[Len(s) + 1] = e /\ Len(s) \in Nat
      /\ \A i \in 1 .. Len(s) : new[i] = s[i]
  BY AppendProperties
<1> HIDE DEF new
<1>2. Len(t) = Len(s) + 1
  BY <1>1
<1>3. \A i \in 1 .. Len(t) : t[i] = new[i]
  BY <1>1, <1>2
<1> QED
  BY <1>1, <1>2, <1>3, SeqEqual DEF new

(* The three variables of Multicast are sequences, as long as msgs.         *)
Mapped ==
  /\ Lists \in Seq(Seq(Int)) /\ Left \in Seq(Seq(Int)) /\ Spots \in Seq(Abstract!Places)
  /\ Len(msgs) \in Nat /\ DOMAIN msgs = 1 .. Len(msgs)
  /\ Len(Lists) = Len(msgs) /\ Len(Left) = Len(msgs) /\ Len(Spots) = Len(msgs)

(* They are, in every state reached.                                       *)
LEMMA MappedAlways == OldestStays /\ Spec => []Mapped
<1>1. TypeInv /\ Placed => Mapped
  <2> SUFFICES ASSUME TypeInv, Placed PROVE Mapped
    OBVIOUS
  <2>1. Len(msgs) \in Nat /\ DOMAIN msgs = 1 .. Len(msgs)
    BY DEF TypeInv, TypeOK, MessageOK
  <2>2. \A id \in DOMAIN msgs : msgs[id].targets \in Seq(Int) /\ msgs[id].destination \in Seq(Int)
    BY MessageParts
  <2>3. ASSUME NEW id \in DOMAIN msgs PROVE PlaceOf(id) \in Abstract!Places
    <3>1. CASE ~Owned(id)
      BY <3>1 DEF Placed, Abstract!Places
    <3>2. ASSUME NEW q \in Queues, id \in Elements(fifo[q]) PROVE PlaceOf(id) \in Abstract!Places
      BY <3>2 DEF Placed, Abstract!Places
    <3>3. ASSUME NEW c \in Clients, out[c] = id \/ hand[c] = id PROVE PlaceOf(id) \in Abstract!Places
      BY <3>3 DEF Placed, Abstract!Places
    <3> QED
      BY <3>1, <3>2, <3>3 DEF Owned
  <2> QED
    BY <2>1, <2>2, <2>3 DEF Mapped, Lists, Left, Spots
<1> QED
  BY <1>1, TypeAlways, PlacedAlways, PTL

(* send() posts a message.                                                  *)
LEMMA BuildMoves ==
  ASSUME TypeInv, OwnerInv, Placed, Placed', Mapped, Mapped', NEW c \in Clients, Step(c),
         BuildMsg(c), msgs' # msgs
  PROVE  Abstract!Next
<1> DEFINE list == Destination(arg[c])
<1>1. /\ list \in Seq(Int) /\ list # <<>>
      /\ Len(msgs) \in Nat /\ DOMAIN msgs = 1 .. Len(msgs) /\ DOMAIN msgs' = 1 .. Len(msgs) + 1
      /\ \A id \in DOMAIN msgs : msgs'[id] = msgs[id]
      /\ msgs'[Len(msgs) + 1].targets = list /\ msgs'[Len(msgs) + 1].destination = list
      /\ out' = [out EXCEPT ![c] = Len(msgs) + 1] /\ pc' = [pc EXCEPT ![c] = "forward"]
  BY Building
<1> HIDE DEF list
<1> SUFFICES ASSUME NEW x, x = Len(msgs) + 1 PROVE Abstract!Next
  OBVIOUS
<1>2. UNCHANGED <<fifo, hand, got>> /\ out[c] = 0
  BY DEF BuildMsg, heap, history, At, OwnerInv, SendersOwn, Sending
<1>3. out'[c] = x /\ pc'[c] = "forward"
  BY <1>1 DEF TypeInv, TypeOK, TaskOK
<1>4. PlaceOf(x)' = "moving"
  BY <1>1, <1>3 DEF Placed
<1>5. \A id \in DOMAIN msgs : PlaceOf(id)' = PlaceOf(id)
  <2>1. x \notin DOMAIN msgs
    BY <1>1
  <2>2. \A id \in DOMAIN msgs : id # x => PlaceOf(id)' = PlaceOf(id)
    BY <1>2, <1>3, OthersRest
  <2> QED
    BY <2>1, <2>2
<1>6. Lists' = Append(Lists, list)
  <2>1. DOMAIN Lists' = 1 .. Len(Lists) + 1 /\ Lists'[Len(Lists) + 1] = list
        /\ \A id \in 1 .. Len(Lists) : Lists'[id] = Lists[id]
    <3>1. Len(Lists) = Len(msgs)
      BY DEF Mapped
    <3>2. DOMAIN Lists' = 1 .. Len(msgs) + 1 /\ \A id \in 1 .. Len(msgs) + 1 : Lists'[id] = msgs'[id].targets
      BY <1>1 DEF Lists
    <3>3. \A id \in 1 .. Len(msgs) : Lists[id] = msgs[id].targets
      BY <1>1 DEF Lists
    <3>4. Len(msgs) + 1 \in 1 .. Len(msgs) + 1 /\ \A id \in 1 .. Len(msgs) : id \in 1 .. Len(msgs) + 1
      BY <1>1
    <3> QED
      BY <1>1, <3>1, <3>2, <3>3, <3>4
  <2> QED
    BY <1>1, <2>1, OneMore DEF Mapped
<1>7. Left' = Append(Left, list)
  <2>1. DOMAIN Left' = 1 .. Len(Left) + 1 /\ Left'[Len(Left) + 1] = list
        /\ \A id \in 1 .. Len(Left) : Left'[id] = Left[id]
    <3>1. Len(Left) = Len(msgs)
      BY DEF Mapped
    <3>2. DOMAIN Left' = 1 .. Len(msgs) + 1 /\ \A id \in 1 .. Len(msgs) + 1 : Left'[id] = msgs'[id].destination
      BY <1>1 DEF Left
    <3>3. \A id \in 1 .. Len(msgs) : Left[id] = msgs[id].destination
      BY <1>1 DEF Left
    <3>4. Len(msgs) + 1 \in 1 .. Len(msgs) + 1 /\ \A id \in 1 .. Len(msgs) : id \in 1 .. Len(msgs) + 1
      BY <1>1
    <3> QED
      BY <1>1, <3>1, <3>2, <3>3, <3>4
  <2> QED
    BY <1>1, <2>1, OneMore DEF Mapped
<1>8. Spots' = Append(Spots, "moving")
  <2>1. DOMAIN Spots' = 1 .. Len(Spots) + 1 /\ Spots'[Len(Spots) + 1] = "moving"
        /\ \A id \in 1 .. Len(Spots) : Spots'[id] = Spots[id]
    <3>1. Len(Spots) = Len(msgs)
      BY DEF Mapped
    <3> QED
      BY <1>1, <1>4, <1>5, <3>1 DEF Spots
  <2> QED
    <3> DEFINE Places == {"moving", "addressed", "waiting", "handled", "ended"}
    <3>1. Spots \in Seq(Places) /\ Spots' \in Seq(Places) /\ "moving" \in Places
      BY DEF Mapped, Abstract!Places
    <3> HIDE DEF Places
    <3> QED
      BY <2>1, <3>1, OneMore
<1>9. Len(Lists') = Len(Lists) + 1 /\ Lists'[Len(Lists')] = list
  <2>1. Lists \in Seq(Seq(Int))
    BY DEF Mapped
  <2> QED
    BY <1>1, <1>6, <2>1, AppendProperties
<1>10. Abstract!Post
  BY <1>1, <1>2, <1>6, <1>7, <1>8, <1>9 DEF Abstract!Post, Lists, Left, Spots
<1> QED
  BY <1>10 DEF Abstract!Next

(* The bus implements Multicast: a message is at one place at a time,       *)
(* visits the addresses of its list from the back, leaves out only those    *)
(* without a client, and ends with nothing left to visit or at a full queue *)
(* (Bus.cpp 196-208, 232-275), for any number of clients, queues and        *)
(* messages.                                                                *)
THEOREM Refinement == OldestStays /\ Spec => ImplementsMulticast
<1>1. Init => Abstract!Init
  <2> SUFFICES ASSUME Init PROVE Abstract!Init
    OBVIOUS
  <2>1. msgs = <<>> /\ got = [c \in Clients |-> <<>>]
    BY DEF Init
  <2>2. DOMAIN msgs = {}
    BY <2>1
  <2> QED
    BY <2>1, <2>2 DEF Abstract!Init
<1>2. TypeInv /\ RoutingInv /\ TargetInv /\ OwnerInv /\ OwnerInv' /\ Placed /\ Placed'
      /\ Mapped /\ Mapped' /\ [Next]_vars => [Abstract!Next]_Abstract!vars
  <2> SUFFICES ASSUME TypeInv, RoutingInv, TargetInv, OwnerInv, OwnerInv', Placed, Placed',
                      Mapped, Mapped', [Next]_vars
               PROVE  Abstract!Next \/ UNCHANGED Abstract!vars
    BY Zenon
  <2>1. CASE UNCHANGED vars
    <3>1. UNCHANGED <<msgs, got, live, fifo, hand, out, pc>>
      BY <2>1 DEF vars, heap, local, history
    <3>2. \A id \in DOMAIN msgs : PlaceOf(id)' = PlaceOf(id)
      BY <3>1 DEF PlaceOf, At, Elements
    <3> QED
      BY <3>1, <3>2 DEF Abstract!vars
  <2>2. ASSUME NEW c \in Clients, Step(c) PROVE Abstract!Next \/ UNCHANGED Abstract!vars
    BY <2>2, StepKinds, QuietIsQuiet, BuildMoves, ForwardMoves, EnqueueMoves, TakingMoves,
       ResumeMoves
  <2> QED
    BY <2>1, <2>2 DEF Next, Step
<1> QED
  BY <1>1, <1>2, TypeAlways, RoutingAlways, TargetAlways, OwnerAlways, PlacedAlways,
     MappedAlways, PTL DEF Spec, ImplementsMulticast, Abstract!Spec

==============================================================================
