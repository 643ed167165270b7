----------------------------- MODULE BusRouting -----------------------------
(* Addresses and queues agree, whatever remove_if leaves behind in          *)
(* m_clients: what a connected client is known by leads to its own queue,   *)
(* and nobody else can take it out of a group.  While the oldest client     *)
(* stays, every entry is a connected client's.                              *)
EXTENDS BusProofs

(* A connected client's own entry is in the list; a client whose destructor *)
(* has begun is not connected.                                              *)
Listed ==
  \A c \in Clients : m_addr[c] # BusAddrInvalid =>
    \E i \in DOMAIN m_clients :
      m_clients[i].addr = m_addr[c] /\ m_clients[i].queue = m_queue[c]

Leaving(c) ==
  \/ pc[c] \in {"drain", "delete", "dead"}
  \/ pc[c] \in {"forward", "enqueue"} /\ ret[c] = "drain"

LeavingIsOff == \A c \in Clients : Leaving(c) => m_addr[c] = BusAddrInvalid

RoutingInv == AddressesConsistent /\ Listed /\ LeavingIsOff

(* The registry is empty when the program starts.                           *)
LEMMA RoutingInit == Init => RoutingInv
  BY DEF Init, RoutingInv, AddressesConsistent, Listed, LeavingIsOff, Leaving, BusAddrInvalid

(* The entries are clients.                                                 *)
LEMMA EntryType ==
  ASSUME TypeInv, NEW i \in DOMAIN m_clients
  PROVE  m_clients[i].addr \in Int /\ m_clients[i].queue \in Queues
<1>1. m_clients \in Seq(Client) /\ i \in 1 .. Len(m_clients)
  BY DEF TypeInv, TypeOK, RegistryOK
<1>2. m_clients[i] \in Client
  BY <1>1, ElementOfSeq
<1> QED
  BY <1>2 DEF Client

(* A connected client has a queue, and two connected clients differ in      *)
(* their addresses.                                                         *)
LEMMA ConnectedHasQueue ==
  ASSUME TypeInv, RoutingInv, NEW c \in Clients, m_addr[c] # BusAddrInvalid
  PROVE  /\ m_queue[c] # NoQueue
         /\ \A d \in Clients : m_addr[d] = m_addr[c] => d = c
<1>1. PICK i \in DOMAIN m_clients : m_clients[i].addr = m_addr[c] /\ m_clients[i].queue = m_queue[c]
  BY DEF RoutingInv, Listed
<1>2. m_queue[c] \in Queues
  BY <1>1, EntryType
<1>3. ASSUME NEW d \in Clients, m_addr[d] = m_addr[c] PROVE d = c
  <2>1. PICK j \in DOMAIN m_clients : m_clients[j].addr = m_addr[d] /\ m_clients[j].queue = m_queue[d]
    BY <1>3 DEF RoutingInv, Listed
  <2>2. m_queue[d] = m_queue[c]
    BY <1>1, <1>3, <2>1 DEF RoutingInv, AddressesConsistent
  <2> QED
    BY <1>2, <2>2, BusAssumption DEF BusAssumption, TypeInv, OneQueueEach
<1> QED
  BY <1>2, <1>3, BusAssumption DEF BusAssumption

(* Taking a client's queue off the list, with whatever that leaves behind,  *)
(* keeps the entries of the others.                                         *)
LEMMA RoutingUnregister ==
  ASSUME TypeInv, RoutingInv, NEW c \in Clients, m_queue[c] # NoQueue, Unregister(c),
         UNCHANGED <<m_addrLast, m_queue>>
  PROVE  AddressesConsistent' /\ Listed'
<1> DEFINE new == RemoveIf(m_clients, ClientsAt(m_queue[c]))
<1> USE DEF TypeInv, TypeOK
<1>1. m_clients \in Seq(Client) /\ m_addr \in [Clients -> Int]
  BY DEF RegistryOK, ObjectOK
<1>2. /\ new \in Seq(Client) /\ Len(new) = Len(m_clients)
      /\ \A p \in DOMAIN m_clients : \E i \in DOMAIN m_clients : new[p] = m_clients[i]
  BY <1>1, RemoveIfType
<1>3. \A i \in DOMAIN m_clients : i \notin ClientsAt(m_queue[c]) =>
        \E p \in DOMAIN m_clients : new[p] = m_clients[i]
  BY <1>1, RemoveIfKeeps
<1>4. DOMAIN new = DOMAIN m_clients
  BY <1>1, <1>2
<1>5. m_clients' = new /\ m_addr' = [m_addr EXCEPT ![c] = BusAddrInvalid]
  BY DEF Unregister
<1> HIDE DEF new
<1>6. AddressesConsistent'
  <2>1. ASSUME NEW p \in DOMAIN new, NEW r \in DOMAIN new
        PROVE  /\ new[p].addr = new[r].addr <=> new[p].queue = new[r].queue
               /\ new[p].addr \in m_addrLast .. -1
    <3>1. PICK i \in DOMAIN m_clients : new[p] = m_clients[i]
      BY <1>2, <1>4
    <3>2. PICK j \in DOMAIN m_clients : new[r] = m_clients[j]
      BY <1>2, <1>4
    <3> QED
      BY <3>1, <3>2 DEF RoutingInv, AddressesConsistent
  <2> QED
    BY <1>5, <2>1 DEF AddressesConsistent
<1>7. Listed'
  <2> SUFFICES ASSUME NEW d \in Clients, m_addr'[d] # BusAddrInvalid
               PROVE  \E p \in DOMAIN new : new[p].addr = m_addr'[d] /\ new[p].queue = m_queue[d]
    BY <1>5 DEF Listed
  <2>1. d # c /\ m_addr'[d] = m_addr[d]
    BY <1>1, <1>5
  <2>2. PICK i \in DOMAIN m_clients : m_clients[i].addr = m_addr[d] /\ m_clients[i].queue = m_queue[d]
    BY <2>1 DEF RoutingInv, Listed
  <2>3. m_queue[d] # m_queue[c]
    BY <2>1 DEF OneQueueEach
  <2>4. i \notin ClientsAt(m_queue[c])
    BY <2>2, <2>3 DEF ClientsAt
  <2> QED
    BY <1>3, <1>4, <2>1, <2>2, <2>4
<1> QED
  BY <1>6, <1>7

(* connect adds an entry with a new address for a queue that is not         *)
(* listed.                                                                  *)
LEMMA RoutingConnect ==
  ASSUME TypeInv, RoutingInv, NEW c \in Clients, Connect(c)
  PROVE  AddressesConsistent' /\ Listed'
<1> USE DEF TypeInv, TypeOK
<1>1. m_clients \in Seq(Client) /\ m_addr \in [Clients -> Int] /\ m_addrLast \in Int
  BY DEF RegistryOK, ObjectOK
<1>2. m_queue' = m_queue /\ m_queue[c] \in Queues
  BY DEF Connect, ObjectOK, InCall, At
<1>3. CASE ClientsAt(m_queue[c]) # {}
  <2> DEFINE i == First(ClientsAt(m_queue[c]))
  <2>1. i \in DOMAIN m_clients /\ m_clients[i].queue = m_queue[c]
    BY <1>3, ClientFound DEF ClientsAt
  <2>2. /\ UNCHANGED <<m_clients, m_addrLast>>
        /\ m_addr' = [m_addr EXCEPT ![c] = m_clients[i].addr]
    BY <1>3 DEF Connect
  <2> HIDE DEF i
  <2> QED
    BY <1>1, <1>2, <2>1, <2>2, SMTT(20) DEF RoutingInv, AddressesConsistent, Listed
<1>4. CASE ClientsAt(m_queue[c]) = {}
  <2> DEFINE new == EmplaceFront(NewClient(c), m_clients)
  <2>1. NewClient(c) \in Client
    BY <1>1, <1>2 DEF NewClient, Client
  <2>2. new \in Seq(Client)
    BY <1>1, <2>1, EmplaceFrontType
  <2>3. Len(new) = Len(m_clients) + 1 /\ new[1] = NewClient(c)
    BY <1>1, <2>1, EmplaceFrontType
  <2>4. \A j \in 1 .. Len(m_clients) : new[j + 1] = m_clients[j]
    BY <1>1, <2>1, EmplaceFrontType
  <2>5. \A j \in 2 .. Len(m_clients) + 1 : new[j] = m_clients[j - 1]
    BY <1>1, <2>1, EmplaceFrontType
  <2>6. /\ m_clients' = new /\ m_addrLast' = m_addrLast - 1
        /\ m_addr' = [m_addr EXCEPT ![c] = m_addrLast - 1]
    BY <1>4 DEF Connect
  <2>7. \A j \in DOMAIN m_clients :
          /\ m_clients[j].queue # m_queue[c]
          /\ m_clients[j].addr \in m_addrLast .. -1
          /\ m_clients[j].addr # m_addrLast - 1
    BY <1>1, <1>4 DEF ClientsAt, RoutingInv, AddressesConsistent
  <2> HIDE DEF new
  <2>8. \A j \in 2 .. Len(new) : j - 1 \in DOMAIN m_clients /\ new[j] = m_clients[j - 1]
    BY <1>1, <2>3, <2>5
  <2>9. new[1].addr = m_addrLast - 1 /\ new[1].queue = m_queue[c]
    BY <2>3 DEF NewClient
  <2>10. DOMAIN new = 1 .. Len(new)
    BY <2>2
  <2>11. AddressesConsistent'
    <3>1. \A j, k \in DOMAIN new : new[j].addr = new[k].addr <=> new[j].queue = new[k].queue
      <4> TAKE j, k \in DOMAIN new
      <4>1. CASE j = 1 /\ k = 1
        BY <4>1
      <4>2. CASE j = 1 /\ k # 1
        BY <4>2, <2>7, <2>8, <2>9, <2>10
      <4>3. CASE j # 1 /\ k = 1
        BY <4>3, <2>7, <2>8, <2>9, <2>10
      <4>4. CASE j # 1 /\ k # 1
        BY <4>4, <2>8, <2>10 DEF RoutingInv, AddressesConsistent
      <4> QED
        BY <4>1, <4>2, <4>3, <4>4
    <3>2. \A j \in DOMAIN new : new[j].addr \in m_addrLast - 1 .. -1
      <4> TAKE j \in DOMAIN new
      <4>1. m_addrLast <= 0
        BY DEF RegistryOK
      <4>2. CASE j = 1
        BY <1>1, <4>1, <4>2, <2>9
      <4>3. CASE j # 1
        BY <1>1, <4>3, <2>7, <2>8, <2>10
      <4> QED
        BY <4>2, <4>3
    <3> QED
      BY <2>6, <3>1, <3>2 DEF AddressesConsistent
  <2>12. Listed'
    <3> SUFFICES ASSUME NEW d \in Clients, m_addr'[d] # BusAddrInvalid
                 PROVE  \E j \in DOMAIN new : new[j].addr = m_addr'[d] /\ new[j].queue = m_queue[d]
      BY <1>2, <2>6 DEF Listed
    <3>1. CASE d = c
      <4>1. 1 \in DOMAIN new
        BY <1>1, <2>3, <2>10
      <4> QED
        BY <1>1, <2>6, <2>9, <3>1, <4>1
    <3>2. CASE d # c
      <4>1. m_addr'[d] = m_addr[d]
        BY <1>1, <2>6, <3>2
      <4>2. PICK j \in DOMAIN m_clients :
               m_clients[j].addr = m_addr[d] /\ m_clients[j].queue = m_queue[d]
        BY <4>1 DEF RoutingInv, Listed
      <4>3. j + 1 \in DOMAIN new /\ new[j + 1] = m_clients[j]
        BY <1>1, <2>3, <2>4, <2>10
      <4> QED
        BY <4>1, <4>2, <4>3
    <3> QED
      BY <3>1, <3>2
  <2> QED
    BY <2>11, <2>12
<1> QED
  BY <1>3, <1>4

(* Creating and deleting a queue concern a client that is not connected.    *)
LEMMA RoutingQueues ==
  ASSUME TypeInv, RoutingInv, NEW c \in Clients, CreateQueue(c) \/ DeleteQueue(c)
  PROVE  AddressesConsistent' /\ Listed'
<1>1. m_addr[c] = BusAddrInvalid
  <2>1. CASE CreateQueue(c)
    BY <2>1, ConnectedHasQueue DEF CreateQueue
  <2>2. CASE DeleteQueue(c)
    BY <2>2 DEF DeleteQueue, RoutingInv, LeavingIsOff, Leaving, At
  <2> QED
    BY <2>1, <2>2
<1>2. UNCHANGED <<m_clients, m_addrLast, m_addr>>
      /\ \A d \in Clients : d # c => m_queue'[d] = m_queue[d]
  BY DEF CreateQueue, DeleteQueue, registry, TypeInv, TypeOK, ObjectOK
<1> QED
  BY <1>1, <1>2 DEF RoutingInv, AddressesConsistent, Listed

(* A step that leaves registry and objects alone.                           *)
LEMMA RoutingElsewhere ==
  ASSUME RoutingInv, UNCHANGED <<m_clients, m_addrLast, m_addr, m_queue>>
  PROVE  AddressesConsistent' /\ Listed'
  BY DEF RoutingInv, AddressesConsistent, Listed

(* A client in its destructor never gets an address.                        *)
LEMMA LeavingNext ==
  ASSUME TypeInv, RoutingInv, NEW c \in Clients, Begin(c) \/ Proceed(c) \/ TryReceive(c) \/ FinishReceive(c)
  PROVE  LeavingIsOff'
<1> USE DEF TypeInv, TypeOK, TaskOK, ObjectOK, RoutingInv, LeavingIsOff, Leaving, At, Goto
<1>1. CASE CreateQueue(c) \/ Reconnect(c) \/ Construct(c)
  BY <1>1 DEF CreateQueue, Reconnect, Construct, object, local
<1>2. CASE Disconnect(c) \/ Destroy(c)
  BY <1>2 DEF Disconnect, Destroy, Unregister, local
<1>3. CASE \E n \in Names : JoinName(c, n) \/ LeaveName(c, n) \/ SendName(c, n)
  BY <1>3 DEF JoinName, LeaveName, SendName, object
<1>4. CASE \E to \in m_addrLast .. -1 : SendAddr(c, to)
  BY <1>4 DEF SendAddr, object
<1>5. CASE Connect(c)
  BY <1>5 DEF Connect, local
<1>6. CASE JoinAddr(c) \/ LeaveAddr(c)
  BY <1>6 DEF JoinAddr, LeaveAddr, object
<1>7. CASE Drained(c) \/ DeleteQueue(c) \/ Drain(c)
  BY <1>7 DEF Drained, DeleteQueue, Drain, object, local
<1>8. CASE BuildMsg(c) \/ ForwardDone(c) \/ Enqueue(c)
  BY <1>8 DEF BuildMsg, ForwardDone, Enqueue, object
<1>9. CASE ResolveNext(c)
  <2>1. UNCHANGED <<object, ret>> /\ pc[c] = "forward"
        /\ (pc' = [pc EXCEPT ![c] = ret[c]] \/ pc' = [pc EXCEPT ![c] = "enqueue"])
    BY <1>9 DEF ResolveNext
  <2> QED
    BY <2>1 DEF object
<1>10. CASE TryReceive(c) \/ FinishReceive(c)
  BY <1>10 DEF TryReceive, FinishReceive, object
<1> QED
  BY <1>1, <1>2, <1>3, <1>4, <1>5, <1>6, <1>7, <1>8, <1>9, <1>10 DEF Begin, Proceed

(* Every step of every task preserves the routing invariant.                *)
LEMMA RoutingNext ==
  ASSUME TypeInv, RoutingInv, [Next]_vars
  PROVE  RoutingInv'
<1> DEFINE Kept == AddressesConsistent' /\ Listed'
<1>1. CASE UNCHANGED vars
  <2>1. UNCHANGED <<m_clients, m_addrLast, m_addr, m_queue, pc, ret>>
    BY <1>1 DEF vars, registry, object, local
  <2> QED
    BY <2>1, RoutingElsewhere DEF RoutingInv, LeavingIsOff, Leaving
<1>2. ASSUME NEW c \in Clients, Begin(c) \/ Proceed(c) \/ TryReceive(c) \/ FinishReceive(c)
      PROVE  Kept
  <2>1. CASE CreateQueue(c) \/ DeleteQueue(c)
    BY <2>1, RoutingQueues
  <2>2. CASE Connect(c)
    BY <2>2, RoutingConnect
  <2>3. CASE Disconnect(c) \/ Destroy(c)
    <3>1. m_queue[c] # NoQueue /\ Unregister(c) /\ UNCHANGED <<m_addrLast, m_queue>>
      BY <2>3 DEF Disconnect, Destroy
    <3> QED
      BY <3>1, RoutingUnregister
  <2>4. CASE Reconnect(c) \/ Construct(c) \/ TryReceive(c) \/ FinishReceive(c)
    <3>1. UNCHANGED <<m_clients, m_addrLast, m_addr, m_queue>>
      BY <2>4 DEF Reconnect, Construct, TryReceive, FinishReceive, registry, object
    <3> QED
      BY <3>1, RoutingElsewhere
  <2>5. CASE \/ \E n \in Names : JoinName(c, n) \/ LeaveName(c, n) \/ SendName(c, n)
             \/ \E to \in m_addrLast .. -1 : SendAddr(c, to)
    <3>1. UNCHANGED <<m_clients, m_addrLast, m_addr, m_queue>>
      BY <2>5 DEF JoinName, LeaveName, SendName, SendAddr, registry, object
    <3> QED
      BY <3>1, RoutingElsewhere
  <2>6. CASE JoinAddr(c) \/ LeaveAddr(c) \/ Drain(c) \/ Drained(c)
    <3>1. UNCHANGED <<m_clients, m_addrLast, m_addr, m_queue>>
      BY <2>6 DEF JoinAddr, LeaveAddr, Drain, Drained, registry, object
    <3> QED
      BY <3>1, RoutingElsewhere
  <2>7. CASE BuildMsg(c) \/ ForwardDone(c) \/ ResolveNext(c) \/ Enqueue(c)
    <3>1. UNCHANGED <<m_clients, m_addrLast, m_addr, m_queue>>
      BY <2>7 DEF BuildMsg, ForwardDone, ResolveNext, Enqueue, registry, object
    <3> QED
      BY <3>1, RoutingElsewhere
  <2> HIDE DEF Kept
  <2> QED
    BY <1>2, <2>1, <2>2, <2>3, <2>4, <2>5, <2>6, <2>7 DEF Begin, Proceed
<1>3. CASE Next
  <2>1. PICK c \in Clients : Begin(c) \/ Proceed(c) \/ TryReceive(c) \/ FinishReceive(c)
    BY <1>3 DEF Next
  <2> QED
    BY <1>2, <2>1, LeavingNext DEF RoutingInv
<1> QED
  BY <1>1, <1>3

(* The routing invariant holds in every state the program reaches.          *)
LEMMA RoutingAlways == Spec => []RoutingInv
<1>1. TypeInv /\ RoutingInv /\ [Next]_vars => RoutingInv'
  BY RoutingNext
<1> QED
  BY <1>1, RoutingInit, TypeAlways, PTL DEF Spec

(* Two entries of m_clients agree on the address exactly when they agree on *)
(* the queue, also among those remove_if leaves behind (Bus.cpp 26-58).     *)
THEOREM AddressSafety == Spec => []AddressesConsistent
<1>1. RoutingInv => AddressesConsistent
  BY DEF RoutingInv
<1> QED
  BY <1>1, RoutingAlways, PTL

(* The address of a connected client resolves to its own queue.             *)
LEMMA ConnectedResolves ==
  ASSUME TypeInv, RoutingInv, NEW c \in Clients, m_addr[c] # BusAddrInvalid
  PROVE  Resolvable(m_addr[c]) # {} /\ Resolve(m_addr[c]) = m_queue[c]
<1>1. PICK i \in DOMAIN m_clients : m_clients[i].addr = m_addr[c] /\ m_clients[i].queue = m_queue[c]
  BY DEF RoutingInv, Listed
<1>2. Resolvable(m_addr[c]) # {} /\ Resolvable(m_addr[c]) \subseteq DOMAIN m_clients
  BY <1>1 DEF Resolvable
<1>3. First(Resolvable(m_addr[c])) \in Resolvable(m_addr[c])
  BY <1>2, ClientFound DEF TypeInv, TypeOK
<1>4. First(Resolvable(m_addr[c])) \in DOMAIN m_clients
      /\ m_clients[First(Resolvable(m_addr[c]))].addr = m_addr[c]
  BY <1>3 DEF Resolvable
<1> QED
  BY <1>1, <1>2, <1>4 DEF Resolve, RoutingInv, AddressesConsistent

(* A connected client can be reached: its address resolves to its own queue *)
(* (Bus.cpp 26-45, 166-177), however many clients came and went before.     *)
THEOREM RoutingSafety == Spec => []ConnectedIsRoutable
<1>1. TypeInv /\ RoutingInv => ConnectedIsRoutable
  BY ConnectedResolves DEF ConnectedIsRoutable
<1> QED
  BY <1>1, TypeAlways, RoutingAlways, PTL

---------------------------------------------------------------------------
(* Group lists.  join puts an address in front, leave takes out the         *)
(* caller's own and keeps the others.                                       *)
LEMMA GroupType ==
  ASSUME TypeInv, NEW i \in DOMAIN m_groups
  PROVE  m_groups[i] \in Group /\ m_groups[i].destination \in Seq(Int)
<1>1. m_groups \in Seq(Group) /\ i \in 1 .. Len(m_groups)
  BY DEF TypeInv, TypeOK, RegistryOK
<1>2. m_groups[i] \in Group
  BY <1>1, ElementOfSeq
<1> QED
  BY <1>2 DEF Group

(* A step that leaves the groups alone takes nobody off a list.             *)
LEMMA SameListsDropNobody ==
  ASSUME m_groups' = m_groups
  PROVE  \A c \in Clients, i \in DOMAIN m_groups : ~Drops(c, i)
  BY DEF Drops

(* A new group in front of the others takes nobody off a list.              *)
LEMMA NewGroupDropsNobody ==
  ASSUME TypeInv, NEW d \in Clients, NEW n \in Names, JoinName(d, n)
  PROVE  \A c \in Clients, i \in DOMAIN m_groups : ~Drops(c, i)
<1>1. CASE GroupsNamed(n) # {}
  BY <1>1, SameListsDropNobody DEF JoinName
<1>2. CASE GroupsNamed(n) = {}
  <2> DEFINE new == EmplaceFront(NewGroup(n), m_groups)
  <2>1. m_groups \in Seq(Group) /\ NewGroup(n) \in Group
    BY DEF TypeInv, TypeOK, RegistryOK, NewGroup, Group
  <2>2. \A i \in 1 .. Len(m_groups) : new[i + 1] = m_groups[i]
    BY <2>1, EmplaceFrontType
  <2>3. new \in Seq(Group)
    BY <2>1, EmplaceFrontType
  <2>4. Len(new) = Len(m_groups) + 1
    BY <2>1, EmplaceFrontType
  <2>5. m_groups' = new
    BY <1>2 DEF JoinName
  <2> HIDE DEF new
  <2>6. \A i \in DOMAIN m_groups : i + 1 \in DOMAIN new /\ new[i + 1] = m_groups[i]
    BY <2>1, <2>2, <2>3, <2>4
  <2> QED
    BY <2>5, <2>6 DEF Drops
<1> QED
  BY <1>1, <1>2

(* Changing one group's list in a way that keeps the members asked about.   *)
LEMMA ListChange ==
  ASSUME TypeInv, NEW g \in DOMAIN m_groups, NEW list,
         m_groups' = [m_groups EXCEPT ![g].destination = list],
         NEW c \in Clients, NEW i \in DOMAIN m_groups,
         m_addr[c] \in Elements(m_groups[g].destination) => m_addr[c] \in Elements(list)
  PROVE  ~Drops(c, i)
<1>1. DOMAIN m_groups' = DOMAIN m_groups
  OBVIOUS
<1>2. m_groups'[i].addr = m_groups[i].addr
  BY GroupType DEF Group
<1>3. CASE i = g
  <2>1. m_groups'[i].destination = list
    BY <1>3, GroupType DEF Group
  <2> QED
    BY <1>1, <1>2, <1>3, <2>1 DEF Drops
<1>4. CASE i # g
  <2>1. m_groups'[i] = m_groups[i]
    BY <1>4
  <2> QED
    BY <1>1, <1>2, <2>1 DEF Drops
<1> QED
  BY <1>3, <1>4

(* join(addr) puts a member in front and takes nobody off a list.           *)
LEMMA JoinDropsNobody ==
  ASSUME TypeInv, NEW d \in Clients, JoinAddr(d), NEW c \in Clients, NEW i \in DOMAIN m_groups
  PROVE  ~Drops(c, i)
<1>1. CASE m_groups' = m_groups
  BY <1>1, SameListsDropNobody
<1>2. CASE m_groups' # m_groups
  <2> DEFINE g == First(GroupsAt(arg[d]))
             members == m_groups[g].destination
             list == EmplaceFront(m_addr[d], members)
  <2>1. g \in DOMAIN m_groups
    <3>1. GroupsAt(arg[d]) \subseteq DOMAIN m_groups
      BY DEF GroupsAt
    <3>2. GroupsAt(arg[d]) # {}
      BY <1>2 DEF JoinAddr
    <3> QED
      BY <3>1, <3>2, GroupFound DEF TypeInv, TypeOK
  <2>2. m_groups' = [m_groups EXCEPT ![g].destination = list]
    BY <1>2 DEF JoinAddr
  <2>3. members \in Seq(Int) /\ m_addr[d] \in Int
    BY <2>1, GroupType DEF TypeInv, TypeOK, ObjectOK
  <2> HIDE DEF members
  <2>4. \A k \in 1 .. Len(members) : list[k + 1] = members[k]
    BY <2>3 DEF EmplaceFront
  <2>5. list \in Seq(Int)
    BY <2>3, EmplaceFrontType
  <2>6. Len(list) = Len(members) + 1
    BY <2>3, EmplaceFrontType
  <2> HIDE DEF list
  <2>7. \A k \in DOMAIN members : k + 1 \in DOMAIN list /\ list[k + 1] = members[k]
    <3>1. DOMAIN members = 1 .. Len(members) /\ DOMAIN list = 1 .. Len(members) + 1
          /\ Len(members) \in Nat
      BY <2>3, <2>5, <2>6
    <3> QED
      BY <2>4, <3>1
  <2>8. m_addr[c] \in Elements(members) => m_addr[c] \in Elements(list)
    BY <2>7 DEF Elements
  <2> QED
    BY <2>1, <2>2, <2>8, ListChange DEF members
<1> QED
  BY <1>1, <1>2

(* leave(addr) takes at most its own client off a list, whatever            *)
(* remove_if leaves behind it.                                              *)
LEMMA LeaveDropsOwner ==
  ASSUME TypeInv, RoutingInv, NEW d \in Clients, LeaveAddr(d),
         NEW c \in Clients, NEW i \in DOMAIN m_groups, Drops(c, i)
  PROVE  At(c, "leaveAddr")
<1>1. CASE d = c
  BY <1>1 DEF LeaveAddr
<1>2. CASE d # c
  <2> DEFINE g == First(GroupsAt(arg[d]))
             members == m_groups[g].destination
             gone == {k \in DOMAIN members : members[k] = m_addr[d]}
             list == RemoveIf(members, gone)
  <2>1. m_groups' # m_groups
    BY SameListsDropNobody
  <2>2. g \in DOMAIN m_groups
    <3>1. GroupsAt(arg[d]) \subseteq DOMAIN m_groups
      BY DEF GroupsAt
    <3>2. GroupsAt(arg[d]) # {}
      BY <2>1 DEF LeaveAddr
    <3> QED
      BY <3>1, <3>2, GroupFound DEF TypeInv, TypeOK
  <2>3. m_groups' = [m_groups EXCEPT ![g].destination = list]
    BY <2>1 DEF LeaveAddr
  <2>4. members \in Seq(Int)
    BY <2>2, GroupType
  <2> HIDE DEF members
  <2>5. m_addr[c] # m_addr[d]
    BY <1>2, ConnectedHasQueue DEF Drops
  <2>6. list \in Seq(Int) /\ Len(list) = Len(members)
    BY <2>4, RemoveIfType
  <2>7. \A k \in DOMAIN members : k \notin gone => \E p \in DOMAIN members : list[p] = members[k]
    <3> HIDE DEF gone
    <3> QED
      BY <2>4, RemoveIfKeeps
  <2>8. \A k \in DOMAIN members : members[k] = m_addr[c] => k \notin gone
    BY <2>5
  <2> HIDE DEF list, gone
  <2>9. DOMAIN list = DOMAIN members
    BY <2>4, <2>6
  <2>10. m_addr[c] \in Elements(members) => m_addr[c] \in Elements(list)
    BY <2>7, <2>8, <2>9 DEF Elements
  <2> QED
    BY <2>2, <2>3, <2>10, ListChange DEF members
<1> QED
  BY <1>1, <1>2

(* Of all steps only leave(addr) takes a client off a list, and only its    *)
(* own.                                                                     *)
LEMMA DropsNext ==
  ASSUME TypeInv, RoutingInv, Next
  PROVE  \A c \in Clients, i \in DOMAIN m_groups : Drops(c, i) => At(c, "leaveAddr")
<1> DEFINE Fine == \A c \in Clients, i \in DOMAIN m_groups : Drops(c, i) => At(c, "leaveAddr")
<1>1. PICK d \in Clients : Begin(d) \/ Proceed(d) \/ TryReceive(d) \/ FinishReceive(d)
  BY DEF Next
<1>2. ASSUME NEW n \in Names, JoinName(d, n) PROVE Fine
  BY <1>2, NewGroupDropsNobody
<1>3. ASSUME JoinAddr(d) PROVE Fine
  BY <1>3, JoinDropsNobody
<1>4. ASSUME LeaveAddr(d) PROVE Fine
  BY <1>4, LeaveDropsOwner
<1>5. ASSUME m_groups' = m_groups PROVE Fine
  BY <1>5, SameListsDropNobody
<1>6. \/ CreateQueue(d) \/ Reconnect(d) \/ Construct(d) \/ Disconnect(d) \/ Destroy(d)
      \/ Connect(d) \/ Drain(d) \/ Drained(d) \/ DeleteQueue(d)
      => m_groups' = m_groups
  BY DEF CreateQueue, Reconnect, Construct, Disconnect, Destroy, Connect, Drain, Drained,
     DeleteQueue, registry
<1>7. \/ \E n \in Names : LeaveName(d, n) \/ SendName(d, n)
      \/ \E to \in m_addrLast .. -1 : SendAddr(d, to)
      => m_groups' = m_groups
  BY DEF LeaveName, SendName, SendAddr, registry
<1>8. \/ BuildMsg(d) \/ ForwardDone(d) \/ ResolveNext(d) \/ Enqueue(d)
      \/ TryReceive(d) \/ FinishReceive(d)
      => m_groups' = m_groups
  BY DEF BuildMsg, ForwardDone, ResolveNext, Enqueue, TryReceive, FinishReceive, registry
<1> HIDE DEF Fine
<1>9. ASSUME Begin(d) PROVE Fine
  BY <1>2, <1>5, <1>6, <1>7, <1>9 DEF Begin
<1>10. ASSUME Proceed(d) PROVE Fine
  BY <1>3, <1>4, <1>5, <1>6, <1>8, <1>10 DEF Proceed
<1>11. Fine
  BY <1>1, <1>5, <1>8, <1>9, <1>10
<1> QED
  BY <1>11 DEF Fine

(* A connected client leaves a group's list by its own leave and by nothing *)
(* else, although leave itself does not shorten the list (Bus.cpp 60-147).  *)
THEOREM SubscriptionSafety == Spec => OnlyOwnerUnsubscribes
<1>1. TypeInv /\ RoutingInv /\ [Next]_vars =>
        [\A c \in Clients, i \in DOMAIN m_groups : Drops(c, i) => At(c, "leaveAddr")]_vars
  BY DropsNext
<1> QED
  BY <1>1, TypeAlways, RoutingAlways, PTL DEF Spec, OnlyOwnerUnsubscribes

---------------------------------------------------------------------------
(* The registry while its oldest client stays.                              *)

(* The hypothesis about the application.  Without it the statements below   *)
(* are false: the entry of the client that connected first is never removed *)
(* (Bus.cpp 54, the runs deadqueue and reusedqueue).                        *)
OldestStays == Anchors # {} \/ Usage \cap {"disconnect", "destroy"} = {}

(* Anchors are connected first, and neither disconnected nor destroyed.     *)
AnchorsStay ==
  /\ \A a \in Anchors : ~Leaving(a) /\ ret[a] = "idle"
  /\ \A a \in Anchors, c \in Clients \ Anchors :
       m_queue[c] # NoQueue => m_addr[a] # BusAddrInvalid

(* The last entry, which remove_if may leave behind twice, is an anchor's.  *)
LastIsAnchors ==
  Anchors # {} /\ m_clients # <<>> =>
    \E a \in Anchors :
      m_addr[a] # BusAddrInvalid /\ m_clients[Len(m_clients)].queue = m_queue[a]

DuplicatesAreLast ==
  \A i, j \in DOMAIN m_clients :
    m_clients[i].queue = m_clients[j].queue =>
      i = j \/ m_clients[i].queue = m_clients[Len(m_clients)].queue

(* Every entry is that of a client that is connected.                       *)
EntriesConnected ==
  \A i \in DOMAIN m_clients : \E d \in Clients :
    /\ m_queue[d] = m_clients[i].queue
    /\ m_addr[d] = m_clients[i].addr

OldestInv ==
  OldestStays /\ AnchorsStay /\ LastIsAnchors /\ DuplicatesAreLast /\ EntriesConnected

(* remove_if with nothing to remove changes nothing.                        *)
LEMMA RemoveNone ==
  ASSUME NEW S, NEW s \in Seq(S)
  PROVE  RemoveIf(s, {}) = s
<1> DEFINE kept == DOMAIN s \ {}
           rank(i) == Cardinality({j \in kept : j <= i})
           at(p) == CHOOSE i \in kept : rank(i) = p
           value(p) == IF \E i \in kept : rank(i) = p THEN s[at(p)] ELSE s[p]
<1>1. RemoveIf(s, {}) = [p \in DOMAIN s |-> value(p)]
  BY Zenon DEF RemoveIf
<1>2. kept = 1 .. Len(s)
  OBVIOUS
<1>3. \A i \in kept : rank(i) = i
  <2> TAKE i \in kept
  <2>1. {j \in kept : j <= i} = 1 .. i
    BY <1>2
  <2>2. i \in Nat /\ i >= 1
    BY <1>2
  <2>3. Cardinality(1 .. i) = i
    BY <2>2, FS_Interval
  <2> QED
    BY <2>1, <2>3
<1> HIDE DEF rank, kept
<1>4. \A p \in kept : at(p) = p
  BY <1>3
<1>5. \A p \in kept : value(p) = s[p]
  BY <1>4
<1> HIDE DEF value
<1> QED
  BY <1>1, <1>2, <1>5

(* remove_if with one element to remove moves those behind it up and leaves *)
(* the last one at its place too.                                           *)
LEMMA RemoveOne ==
  ASSUME NEW S, NEW s \in Seq(S), NEW k \in DOMAIN s
  PROVE  RemoveIf(s, {k}) =
           [p \in 1 .. Len(s) |-> IF p < k \/ p = Len(s) THEN s[p] ELSE s[p + 1]]
<1> DEFINE kept == DOMAIN s \ {k}
           rank(i) == Cardinality({j \in kept : j <= i})
           at(p) == CHOOSE i \in kept : rank(i) = p
           value(p) == IF \E i \in kept : rank(i) = p THEN s[at(p)] ELSE s[p]
<1>1. RemoveIf(s, {k}) = [p \in DOMAIN s |-> value(p)]
  BY Zenon DEF RemoveIf
<1>2. kept = 1 .. Len(s) \ {k} /\ k \in 1 .. Len(s) /\ Len(s) \in Nat
  OBVIOUS
<1>3. \A i \in kept : rank(i) = IF i < k THEN i ELSE i - 1
  <2> TAKE i \in kept
  <2>0. i \in Nat /\ IsFiniteSet(1 .. i) /\ Cardinality(1 .. i) = i
    <3>1. i \in Nat /\ i >= 1
      BY <1>2
    <3> QED
      BY <3>1, FS_Interval
  <2>1. CASE i < k
    <3>1. {j \in kept : j <= i} = 1 .. i
      BY <1>2, <2>1
    <3> QED
      BY <2>0, <2>1, <3>1
  <2>2. CASE ~(i < k)
    <3>1. {j \in kept : j <= i} = 1 .. i \ {k}
      BY <1>2, <2>2
    <3>2. k \in 1 .. i
      BY <1>2, <2>2
    <3>3. Cardinality(1 .. i \ {k}) = Cardinality(1 .. i) - 1
      BY <2>0, <3>2, FS_RemoveElement
    <3> QED
      BY <2>0, <2>2, <3>1, <3>3
  <2> QED
    BY <2>1, <2>2
<1> HIDE DEF rank, kept
<1>4. \A p \in 1 .. Len(s) : value(p) = IF p < k \/ p = Len(s) THEN s[p] ELSE s[p + 1]
  <2> TAKE p \in 1 .. Len(s)
  <2>1. CASE p < k
    <3>1. p \in kept /\ rank(p) = p /\ \A i \in kept : rank(i) = p => i = p
      BY <1>2, <1>3, <2>1
    <3> QED
      BY <2>1, <3>1
  <2>2. CASE ~(p < k) /\ p # Len(s)
    <3>1. p + 1 \in kept /\ rank(p + 1) = p /\ \A i \in kept : rank(i) = p => i = p + 1
      BY <1>2, <1>3, <2>2
    <3> QED
      BY <2>2, <3>1
  <2>3. CASE ~(p < k) /\ p = Len(s)
    <3>1. \A i \in kept : rank(i) # p
      BY <1>2, <1>3, <2>3
    <3> QED
      BY <2>3, <3>1
  <2> QED
    BY <2>1, <2>2, <2>3
<1> HIDE DEF value
<1>5. DOMAIN s = 1 .. Len(s)
  OBVIOUS
<1> QED
  BY <1>1, <1>4, <1>5

(* Nothing is registered when the program starts.                           *)
LEMMA OldestInit ==
  ASSUME OldestStays, Init
  PROVE  OldestInv
<1> USE BusAssumption DEF Init, BusAssumption
<1>1. AnchorsStay
  BY DEF AnchorsStay, Leaving
<1>2. LastIsAnchors /\ DuplicatesAreLast /\ EntriesConnected
  BY DEF LastIsAnchors, DuplicatesAreLast, EntriesConnected
<1> QED
  BY <1>1, <1>2 DEF OldestInv

(* An anchor is neither disconnected nor destroyed, and nobody else has a   *)
(* queue before the anchors are connected.                                  *)
LEMMA AnchorsNext ==
  ASSUME TypeInv, RoutingInv, OldestInv, NEW c \in Clients,
         Begin(c) \/ Proceed(c) \/ TryReceive(c) \/ FinishReceive(c)
  PROVE  AnchorsStay'
<1> USE BusAssumption DEF TypeInv, TypeOK, TaskOK, ObjectOK, OldestInv, AnchorsStay, Leaving, At,
        Goto, BusAssumption
<1>1. CASE CreateQueue(c) \/ Reconnect(c) \/ Construct(c)
  BY <1>1, SMTT(20) DEF CreateQueue, Reconnect, Construct, object, local
<1>2. CASE Disconnect(c) \/ Destroy(c)
  BY <1>2 DEF Disconnect, Destroy, Unregister, local
<1>3. CASE \E n \in Names : JoinName(c, n) \/ LeaveName(c, n) \/ SendName(c, n)
  BY <1>3, SMTT(20) DEF JoinName, LeaveName, SendName, object
<1>4. CASE \E to \in m_addrLast .. -1 : SendAddr(c, to)
  BY <1>4 DEF SendAddr, object
<1>5. CASE Connect(c)
  <2>1. m_addr'[c] # BusAddrInvalid
    <3>1. CASE ClientsAt(m_queue[c]) = {}
      BY <1>5, <3>1 DEF Connect, RegistryOK, BusAddrInvalid
    <3>2. CASE ClientsAt(m_queue[c]) # {}
      <4>1. First(ClientsAt(m_queue[c])) \in DOMAIN m_clients
        BY <3>2, ClientFound DEF ClientsAt
      <4> QED
        BY <1>5, <3>2, <4>1 DEF Connect, RoutingInv, AddressesConsistent, BusAddrInvalid, RegistryOK
    <3> QED
      BY <3>1, <3>2
  <2>2. \A d \in Clients : d # c => m_addr'[d] = m_addr[d]
    BY <1>5 DEF Connect
  <2>3. m_queue' = m_queue /\ ret' = ret /\ pc' = [pc EXCEPT ![c] = "idle"]
    BY <1>5 DEF Connect, local
  <2> QED
    BY <2>1, <2>2, <2>3
<1>6. CASE JoinAddr(c) \/ LeaveAddr(c)
  BY <1>6 DEF JoinAddr, LeaveAddr, object
<1>7. CASE Drained(c) \/ DeleteQueue(c) \/ Drain(c)
  BY <1>7 DEF Drained, DeleteQueue, Drain, object, local
<1>8. CASE BuildMsg(c) \/ ForwardDone(c) \/ Enqueue(c)
  BY <1>8, SMTT(20) DEF BuildMsg, ForwardDone, Enqueue, object
<1>9. CASE ResolveNext(c)
  <2>1. UNCHANGED <<object, ret>> /\ pc[c] = "forward"
        /\ (pc' = [pc EXCEPT ![c] = ret[c]] \/ pc' = [pc EXCEPT ![c] = "enqueue"])
    BY <1>9 DEF ResolveNext
  <2> QED
    BY <2>1 DEF object
<1>10. CASE TryReceive(c) \/ FinishReceive(c)
  BY <1>10 DEF TryReceive, FinishReceive, object
<1> QED
  BY <1>1, <1>2, <1>3, <1>4, <1>5, <1>6, <1>7, <1>8, <1>9, <1>10 DEF Begin, Proceed

(* The three statements about entries.                                      *)
Entries == LastIsAnchors /\ DuplicatesAreLast /\ EntriesConnected

(* An entry is that of the client whose queue it has.                       *)
LEMMA EntryOwner ==
  ASSUME TypeInv, OldestInv, NEW i \in DOMAIN m_clients, NEW c \in Clients,
         m_clients[i].queue = m_queue[c]
  PROVE  m_addr[c] = m_clients[i].addr
<1>1. PICK d \in Clients : m_queue[d] = m_clients[i].queue /\ m_addr[d] = m_clients[i].addr
  BY DEF OldestInv, EntriesConnected
<1>2. m_clients[i].queue # NoQueue
  BY EntryType, BusAssumption DEF BusAssumption
<1>3. d = c
  BY <1>1, <1>2 DEF TypeInv, OneQueueEach
<1> QED
  BY <1>1, <1>3

(* connect puts a new entry in front of the others.                         *)
LEMMA EntriesConnect ==
  ASSUME TypeInv, RoutingInv, OldestInv, NEW c \in Clients, Connect(c)
  PROVE  Entries'
<1> USE DEF TypeInv, TypeOK
<1>1. m_clients \in Seq(Client) /\ m_addr \in [Clients -> Int] /\ m_addrLast \in Int
      /\ m_addrLast <= 0 /\ DOMAIN m_clients = 1 .. Len(m_clients) /\ Len(m_clients) \in Nat
  BY DEF RegistryOK, ObjectOK
<1>2. m_queue' = m_queue /\ m_queue[c] \in Queues /\ m_queue[c] # NoQueue
  BY DEF Connect, ObjectOK, InCall, At
<1>3. CASE ClientsAt(m_queue[c]) # {}
  <2> DEFINE i == First(ClientsAt(m_queue[c]))
  <2>1. i \in DOMAIN m_clients /\ m_clients[i].queue = m_queue[c]
    BY <1>3, ClientFound DEF ClientsAt
  <2>2. m_clients' = m_clients /\ m_addr' = [m_addr EXCEPT ![c] = m_clients[i].addr]
    BY <1>3 DEF Connect
  <2> HIDE DEF i
  <2>3. m_addr[c] = m_clients[i].addr
    BY <2>1, EntryOwner
  <2>4. m_addr' = m_addr
    BY <1>1, <2>2, <2>3
  <2> QED
    BY <1>2, <2>2, <2>4 DEF OldestInv, Entries, LastIsAnchors, DuplicatesAreLast, EntriesConnected
<1>4. CASE ClientsAt(m_queue[c]) = {}
  <2> DEFINE new == EmplaceFront(NewClient(c), m_clients)
  <2>1. NewClient(c) \in Client
    BY <1>1, <1>2 DEF NewClient, Client
  <2>2. new \in Seq(Client)
    BY <1>1, <2>1, EmplaceFrontType
  <2>3. Len(new) = Len(m_clients) + 1 /\ new[1] = NewClient(c)
    BY <1>1, <2>1, EmplaceFrontType
  <2>4. \A j \in 2 .. Len(m_clients) + 1 : new[j] = m_clients[j - 1]
    BY <1>1, <2>1, EmplaceFrontType
  <2>5. /\ m_clients' = new
        /\ m_addr' = [m_addr EXCEPT ![c] = m_addrLast - 1]
    BY <1>4 DEF Connect
  <2>6. \A j \in DOMAIN m_clients : m_clients[j].queue # m_queue[c]
    BY <1>4 DEF ClientsAt
  <2> HIDE DEF new
  <2>7. \A j \in 2 .. Len(new) : j - 1 \in DOMAIN m_clients /\ new[j] = m_clients[j - 1]
    BY <1>1, <2>3, <2>4
  <2>8. new[1].addr = m_addrLast - 1 /\ new[1].queue = m_queue[c]
    BY <2>3 DEF NewClient
  <2>9. DOMAIN new = 1 .. Len(new)
    BY <2>2
  <2>10. m_addr'[c] = m_addrLast - 1 /\ m_addr'[c] # BusAddrInvalid
         /\ \A d \in Clients : d # c => m_addr'[d] = m_addr[d]
    BY <1>1, <2>5 DEF BusAddrInvalid
  <2>11. m_clients # <<>> => Len(m_clients) \in DOMAIN m_clients /\ Len(new) # 1
                             /\ new[Len(new)] = m_clients[Len(m_clients)]
    BY <1>1, <2>3, <2>7
  <2>12. LastIsAnchors'
    <3> SUFFICES ASSUME Anchors # {}
                 PROVE  \E a \in Anchors :
                          m_addr'[a] # BusAddrInvalid /\ new[Len(new)].queue = m_queue[a]
      BY <1>2, <2>5 DEF LastIsAnchors
    <3>1. CASE m_clients # <<>>
      <4>1. PICK a \in Anchors :
               m_addr[a] # BusAddrInvalid /\ m_clients[Len(m_clients)].queue = m_queue[a]
        BY <3>1 DEF OldestInv, LastIsAnchors
      <4>2. m_addr'[a] # BusAddrInvalid
        BY <2>10, <4>1, BusAssumption DEF BusAssumption
      <4> QED
        BY <2>11, <3>1, <4>1, <4>2
    <3>2. CASE m_clients = <<>>
      <4>1. Len(new) = 1
        BY <2>3, <3>2
      <4>2. c \in Anchors
        <5> SUFFICES ASSUME c \notin Anchors PROVE FALSE
          OBVIOUS
        <5>1. PICK a \in Anchors : TRUE
          OBVIOUS
        <5>2. m_addr[a] # BusAddrInvalid /\ a \in Clients
          BY <1>2, BusAssumption DEF OldestInv, AnchorsStay, BusAssumption
        <5>3. \E i \in DOMAIN m_clients : TRUE
          BY <5>2 DEF RoutingInv, Listed
        <5> QED
          BY <1>1, <3>2, <5>3
      <4> QED
        BY <2>8, <2>10, <4>1, <4>2
    <3> QED
      BY <3>1, <3>2
  <2>13. DuplicatesAreLast'
    <3> SUFFICES ASSUME NEW i \in DOMAIN new, NEW j \in DOMAIN new, i # j,
                        new[i].queue = new[j].queue
                 PROVE  new[i].queue = new[Len(new)].queue
      BY <2>5 DEF DuplicatesAreLast
    <3>1. i # 1 /\ j # 1
      BY <2>6, <2>7, <2>8, <2>9
    <3>2. i - 1 \in DOMAIN m_clients /\ new[i] = m_clients[i - 1]
          /\ j - 1 \in DOMAIN m_clients /\ new[j] = m_clients[j - 1] /\ i - 1 # j - 1
      BY <2>7, <2>9, <3>1
    <3>3. m_clients[i - 1].queue = m_clients[Len(m_clients)].queue
      BY <3>2 DEF OldestInv, DuplicatesAreLast
    <3> QED
      BY <1>1, <2>11, <3>2, <3>3
  <2>14. EntriesConnected'
    <3> SUFFICES ASSUME NEW i \in DOMAIN new
                 PROVE  \E d \in Clients : m_queue[d] = new[i].queue /\ m_addr'[d] = new[i].addr
      BY <1>2, <2>5 DEF EntriesConnected
    <3>1. CASE i = 1
      BY <2>8, <2>10, <3>1
    <3>2. CASE i # 1
      <4>1. i - 1 \in DOMAIN m_clients /\ new[i] = m_clients[i - 1]
        BY <2>7, <2>9, <3>2
      <4>2. PICK d \in Clients :
               m_queue[d] = m_clients[i - 1].queue /\ m_addr[d] = m_clients[i - 1].addr
        BY <4>1 DEF OldestInv, EntriesConnected
      <4>3. d # c
        BY <2>6, <4>1, <4>2
      <4> QED
        BY <2>10, <4>1, <4>2, <4>3
    <3> QED
      BY <3>1, <3>2
  <2> QED
    BY <2>12, <2>13, <2>14 DEF Entries
<1> QED
  BY <1>3, <1>4

(* disconnect takes out at most one entry, which is not the last one, so    *)
(* that what remove_if leaves behind is a copy of the last.                 *)
LEMMA EntriesUnregister ==
  ASSUME TypeInv, RoutingInv, OldestInv, NEW c \in Clients \ Anchors, Anchors # {},
         m_queue[c] # NoQueue, Unregister(c), m_queue' = m_queue
  PROVE  Entries'
<1> DEFINE gone == ClientsAt(m_queue[c])
           last == Len(m_clients)
           new == RemoveIf(m_clients, gone)
<1> USE DEF TypeInv, TypeOK
<1>1. m_clients \in Seq(Client) /\ DOMAIN m_clients = 1 .. last /\ last \in Nat
      /\ m_addr \in [Clients -> Int]
  BY DEF RegistryOK, ObjectOK
<1>2. m_clients' = new /\ m_addr' = [m_addr EXCEPT ![c] = BusAddrInvalid]
  BY DEF Unregister
<1>3. \A d \in Clients : d # c => m_addr'[d] = m_addr[d]
  BY <1>1, <1>2
<1>4. \A k \in gone : k \in DOMAIN m_clients /\ m_clients[k].queue = m_queue[c]
  BY DEF ClientsAt
<1>5. m_clients # <<>> =>
        \E a \in Anchors : m_addr[a] # BusAddrInvalid /\ m_clients[last].queue = m_queue[a]
  BY DEF OldestInv, LastIsAnchors
<1>6. m_clients # <<>> => m_clients[last].queue # m_queue[c]
  BY <1>5, BusAssumption DEF BusAssumption, OneQueueEach
<1>7. last \notin gone
  BY <1>1, <1>4, <1>6
<1>8. gone = {} \/ \E k \in gone : gone = {k}
  <2>1. \A k, l \in gone : k = l
    <3> TAKE k, l \in gone
    <3>1. m_clients # <<>>
      BY <1>1, <1>4
    <3> HIDE DEF gone
    <3> QED
      BY <1>4, <1>6, <3>1 DEF OldestInv, DuplicatesAreLast
  <2> HIDE DEF gone
  <2> QED
    BY <2>1
<1> HIDE DEF gone, new
(* What the new list says of every place.                                   *)
<1>9. /\ DOMAIN new = DOMAIN m_clients /\ Len(new) = last
      /\ m_clients # <<>> => new[last] = m_clients[last]
      /\ \A p \in DOMAIN new : \E i \in DOMAIN m_clients \ gone :
           new[p] = m_clients[i] /\ (p = last => i = last)
      /\ \A p, r \in DOMAIN new : p # r /\ p # last /\ r # last /\ new[p].queue = new[r].queue =>
           new[p].queue = m_clients[last].queue
  <2>1. CASE gone = {}
    <3>1. new = m_clients
      BY <1>1, <2>1, RemoveNone DEF new
    <3> QED
      BY <1>1, <2>1, <3>1 DEF OldestInv, DuplicatesAreLast
  <2>2. ASSUME NEW k \in gone, gone = {k} PROVE <1>9
    <3>1. k \in DOMAIN m_clients /\ k # last /\ k \in 1 .. last /\ last \in Nat
      BY <1>1, <1>4, <1>7, <2>2
    <3>2. new = [p \in 1 .. last |-> IF p < k \/ p = last THEN m_clients[p] ELSE m_clients[p + 1]]
      BY <1>1, <2>2, <3>1, RemoveOne DEF new
    <3>3. DOMAIN new = 1 .. last /\ Len(new) = last
      BY <1>1, <3>2, RemoveIfType DEF new
    <3> DEFINE from(p) == IF p < k \/ p = last THEN p ELSE p + 1
    <3> HIDE DEF last
    <3>4. \A p \in 1 .. last : from(p) \in 1 .. last /\ from(p) # k /\ (p = last => from(p) = last)
      BY <3>1
    <3>5. \A p, r \in 1 .. last : p # last /\ r # last /\ from(p) = from(r) => p = r
      BY <3>1
    <3>6. \A p \in 1 .. last : new[p] = m_clients[from(p)]
      BY <3>2
    <3>7. \A p \in 1 .. last : from(p) \in DOMAIN m_clients \ gone
      BY <1>1, <2>2, <3>4
    <3>8. m_clients # <<>> => last \in 1 .. last
      BY <1>1
    <3> HIDE DEF from
    <3>9. \A p, r \in 1 .. last : p # r /\ p # last /\ r # last /\ new[p].queue = new[r].queue =>
             new[p].queue = m_clients[last].queue
      BY <3>5, <3>6, <3>7 DEF OldestInv, DuplicatesAreLast, last
    <3> QED
      BY <1>1, <3>3, <3>4, <3>6, <3>7, <3>8, <3>9
  <2> QED
    BY <1>8, <2>1, <2>2
<1>10. LastIsAnchors'
  <2>1. m_clients' # <<>> => m_clients # <<>>
    BY <1>1, <1>2, <1>9
  <2> QED
    BY <1>2, <1>3, <1>5, <1>9, <2>1 DEF LastIsAnchors
<1>11. DuplicatesAreLast'
  <2> SUFFICES ASSUME NEW p \in DOMAIN new, NEW r \in DOMAIN new, p # r,
                      new[p].queue = new[r].queue
               PROVE  new[p].queue = new[Len(new)].queue
    BY <1>2 DEF DuplicatesAreLast
  <2>1. Len(new) = last /\ new[last] = m_clients[last]
    BY <1>1, <1>9
  <2> HIDE DEF last
  <2> QED
    BY <1>9, <2>1
<1>12. EntriesConnected'
  <2> SUFFICES ASSUME NEW p \in DOMAIN new
               PROVE  \E d \in Clients : m_queue[d] = new[p].queue /\ m_addr'[d] = new[p].addr
    BY <1>2 DEF EntriesConnected
  <2>1. PICK i \in DOMAIN m_clients \ gone : new[p] = m_clients[i]
    BY <1>9
  <2>2. PICK d \in Clients : m_queue[d] = m_clients[i].queue /\ m_addr[d] = m_clients[i].addr
    BY DEF OldestInv, EntriesConnected
  <2>3. d # c
    BY <2>2 DEF gone, ClientsAt
  <2> QED
    BY <1>3, <2>1, <2>2, <2>3
<1> QED
  BY <1>10, <1>11, <1>12 DEF Entries

(* Creating and deleting a queue concern a client without an entry.         *)
LEMMA EntriesQueues ==
  ASSUME TypeInv, RoutingInv, OldestInv, NEW c \in Clients, CreateQueue(c) \/ DeleteQueue(c)
  PROVE  Entries'
<1>1. m_addr[c] = BusAddrInvalid
  <2>1. CASE CreateQueue(c)
    BY <2>1, ConnectedHasQueue DEF CreateQueue
  <2>2. CASE DeleteQueue(c)
    BY <2>2 DEF DeleteQueue, RoutingInv, LeavingIsOff, Leaving, At
  <2> QED
    BY <2>1, <2>2
<1>2. m_clients' = m_clients /\ m_addr' = m_addr
      /\ \A d \in Clients : d # c => m_queue'[d] = m_queue[d]
  BY DEF CreateQueue, DeleteQueue, registry, TypeInv, TypeOK, ObjectOK
<1>3. \A i \in DOMAIN m_clients : m_clients[i].addr # BusAddrInvalid
  BY DEF RoutingInv, AddressesConsistent, TypeInv, TypeOK, RegistryOK, BusAddrInvalid
<1>4. LastIsAnchors'
  BY <1>1, <1>2, BusAssumption DEF OldestInv, LastIsAnchors, BusAssumption
<1>5. DuplicatesAreLast'
  BY <1>2 DEF OldestInv, DuplicatesAreLast
<1>6. EntriesConnected'
  <2> SUFFICES ASSUME NEW i \in DOMAIN m_clients
               PROVE  \E d \in Clients :
                        m_queue'[d] = m_clients[i].queue /\ m_addr[d] = m_clients[i].addr
    BY <1>2 DEF EntriesConnected
  <2>1. PICK d \in Clients : m_queue[d] = m_clients[i].queue /\ m_addr[d] = m_clients[i].addr
    BY DEF OldestInv, EntriesConnected
  <2> QED
    BY <1>1, <1>2, <1>3, <2>1
<1> QED
  BY <1>4, <1>5, <1>6 DEF Entries

(* A step that leaves registry and objects alone.                           *)
LEMMA EntriesElsewhere ==
  ASSUME OldestInv, UNCHANGED <<m_clients, m_addr, m_queue>>
  PROVE  Entries'
  BY DEF OldestInv, Entries, LastIsAnchors, DuplicatesAreLast, EntriesConnected

(* The steps that leave registry and objects alone, but for the groups.     *)
LEMMA OnlySomeRegister ==
  ASSUME NEW c \in Clients, Begin(c) \/ Proceed(c) \/ TryReceive(c) \/ FinishReceive(c)
  PROVE  \/ UNCHANGED <<m_clients, m_addrLast, m_addr, m_queue>>
         \/ CreateQueue(c) \/ DeleteQueue(c) \/ Connect(c)
         \/ /\ m_queue[c] # NoQueue /\ Unregister(c) /\ c \notin Anchors
            /\ UNCHANGED <<m_addrLast, m_queue>>
            /\ Usage \cap {"disconnect", "destroy"} # {}
<1> DEFINE Same == UNCHANGED <<m_clients, m_addrLast, m_addr, m_queue>>
<1>1. Reconnect(c) \/ Construct(c) \/ TryReceive(c) \/ FinishReceive(c) => Same
  BY DEF Reconnect, Construct, TryReceive, FinishReceive, registry, object
<1>2. (\E n \in Names : JoinName(c, n) \/ LeaveName(c, n) \/ SendName(c, n)) => Same
  BY DEF JoinName, LeaveName, SendName, registry, object
<1>3. (\E to \in m_addrLast .. -1 : SendAddr(c, to)) => Same
  BY DEF SendAddr, registry, object
<1>4. JoinAddr(c) \/ LeaveAddr(c) \/ Drain(c) \/ Drained(c) => Same
  BY DEF JoinAddr, LeaveAddr, Drain, Drained, registry, object
<1>5. BuildMsg(c) \/ ForwardDone(c) \/ ResolveNext(c) \/ Enqueue(c) => Same
  BY DEF BuildMsg, ForwardDone, ResolveNext, Enqueue, registry, object
<1>6. Disconnect(c) \/ Destroy(c) =>
        /\ m_queue[c] # NoQueue /\ Unregister(c) /\ c \notin Anchors
        /\ UNCHANGED <<m_addrLast, m_queue>>
        /\ Usage \cap {"disconnect", "destroy"} # {}
  BY DEF Disconnect, Destroy
<1> HIDE DEF Same
<1>7. \/ Same \/ CreateQueue(c) \/ DeleteQueue(c) \/ Connect(c)
      \/ Disconnect(c) \/ Destroy(c)
  BY <1>1, <1>2, <1>3, <1>4, <1>5 DEF Begin, Proceed
<1> QED
  BY <1>6, <1>7 DEF Same

(* Every step of every task preserves what is said of the registry.         *)
LEMMA OldestNext ==
  ASSUME TypeInv, RoutingInv, OldestInv, [Next]_vars
  PROVE  OldestInv'
<1>1. CASE UNCHANGED vars
  <2>1. UNCHANGED <<m_clients, m_addr, m_queue, pc, ret>>
    BY <1>1 DEF vars, registry, object, local
  <2> QED
    BY <2>1, EntriesElsewhere DEF OldestInv, OldestStays, AnchorsStay, Leaving, Entries
<1>2. ASSUME NEW c \in Clients, Begin(c) \/ Proceed(c) \/ TryReceive(c) \/ FinishReceive(c)
      PROVE  OldestInv'
  <2>1. Entries'
    <3>1. ASSUME m_queue[c] # NoQueue, Unregister(c), c \notin Anchors, m_queue' = m_queue,
                 Usage \cap {"disconnect", "destroy"} # {}
          PROVE  Entries'
      BY <3>1, EntriesUnregister DEF OldestInv, OldestStays
    <3> QED
      BY <1>2, <3>1, OnlySomeRegister, EntriesConnect, EntriesQueues, EntriesElsewhere
  <2>2. AnchorsStay'
    BY <1>2, AnchorsNext
  <2> QED
    BY <2>1, <2>2 DEF OldestInv, OldestStays, Entries
<1> QED
  BY <1>1, <1>2 DEF Next

(* They hold in every state a program reaches whose oldest client stays.    *)
LEMMA OldestAlways == OldestStays /\ Spec => []OldestInv
<1>1. OldestStays /\ Init => OldestInv
  BY OldestInit
<1>2. TypeInv /\ RoutingInv /\ OldestInv /\ [Next]_vars => OldestInv'
  BY OldestNext
<1> QED
  BY <1>1, <1>2, TypeAlways, RoutingAlways, PTL DEF Spec

(* A client that becomes connected takes the next address.                  *)
LEMMA FreshNext ==
  ASSUME TypeInv, RoutingInv, OldestInv, Next
  PROVE  \A c \in Clients :
           m_addr[c] = BusAddrInvalid /\ m_addr'[c] # BusAddrInvalid => m_addr'[c] < m_addrLast
<1> DEFINE Fresh == \A c \in Clients :
      m_addr[c] = BusAddrInvalid /\ m_addr'[c] # BusAddrInvalid => m_addr'[c] < m_addrLast
<1> SUFFICES ASSUME NEW d \in Clients,
                    Begin(d) \/ Proceed(d) \/ TryReceive(d) \/ FinishReceive(d)
             PROVE  Fresh
  BY DEF Next
<1>1. CASE m_addr' = m_addr
  BY <1>1
<1>2. CASE Connect(d)
  <2>1. CASE ClientsAt(m_queue[d]) = {}
    BY <1>2, <2>1 DEF Connect, TypeInv, TypeOK, RegistryOK, ObjectOK
  <2>2. CASE ClientsAt(m_queue[d]) # {}
    <3> DEFINE i == First(ClientsAt(m_queue[d]))
    <3>1. i \in DOMAIN m_clients /\ m_clients[i].queue = m_queue[d]
      BY <2>2, ClientFound DEF ClientsAt, TypeInv, TypeOK
    <3>2. m_addr[d] = m_clients[i].addr
      BY <3>1, EntryOwner
    <3>3. m_addr' = [m_addr EXCEPT ![d] = m_clients[i].addr]
      BY <1>2, <2>2 DEF Connect
    <3> QED
      BY <3>2, <3>3 DEF TypeInv, TypeOK, ObjectOK
  <2> QED
    BY <2>1, <2>2
<1>3. CASE Unregister(d)
  BY <1>3 DEF Unregister, TypeInv, TypeOK, ObjectOK
<1>4. CreateQueue(d) \/ DeleteQueue(d) => m_addr' = m_addr
  BY DEF CreateQueue, DeleteQueue
<1> HIDE DEF Fresh
<1> QED
  BY <1>1, <1>2, <1>3, <1>4, OnlySomeRegister

(* A client that connects gets an address nobody had before, not that of an *)
(* entry somebody else left behind (Bus.cpp 26-45), as long as the oldest   *)
(* client stays; the run reusedqueue shows what happens when it does not.   *)
THEOREM AddressesFresh == OldestStays /\ Spec => FreshAddress
<1>1. TypeInv /\ RoutingInv /\ OldestInv /\ [Next]_vars =>
        [\A c \in Clients :
           m_addr[c] = BusAddrInvalid /\ m_addr'[c] # BusAddrInvalid => m_addr'[c] < m_addrLast]_vars
  BY FreshNext
<1> QED
  BY <1>1, TypeAlways, RoutingAlways, OldestAlways, PTL DEF Spec, FreshAddress

==============================================================================
