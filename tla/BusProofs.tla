----------------------------- MODULE BusProofs -----------------------------
(* What holds of the bus for any number of clients, queues, names and       *)
(* messages, and with every optional part of its interface in use.          *)
EXTENDS Bus, TLAPS, FiniteSetTheorems, SequenceTheorems, WellFoundedInduction

(* The list operators the bus is built from: find_if, popping from the      *)
(* back, emplace_front, and remove_if without erase.                        *)

(* A non-empty set of natural numbers has a least element.                  *)
LEMMA LeastNumber ==
  ASSUME NEW S, S \subseteq Nat, S # {}
  PROVE  \E i \in S : \A j \in S : i <= j
<1>1. IsWellFoundedOn(OpToRel(<, Nat), Nat)
  BY NatLessThanWellFounded
<1>2. PICK x \in S : \A y \in S : ~(<<y, x>> \in OpToRel(<, Nat))
  <2> DEFINE R == OpToRel(<, Nat)
  <2>1. IsWellFoundedOn(R, Nat)
    BY <1>1
  <2> HIDE DEF R
  <2>2. \E x \in S : \A y \in S : ~(<<y, x>> \in R)
    BY <2>1, WFMin
  <2> QED
    BY <2>2 DEF R
<1>3. \A y \in S : ~(y < x)
  BY <1>2 DEF OpToRel
<1> QED
  BY <1>3

(* find_if: the first of a non-empty set of positions is one of them, and   *)
(* none comes before it.                                                    *)
LEMMA FirstIsLeast ==
  ASSUME NEW S, S \subseteq Nat, S # {}
  PROVE  First(S) \in S /\ \A j \in S : First(S) <= j
  BY LeastNumber DEF First

(* The last of a non-empty set of positions of a list is one of them.       *)
LEMMA FinalIsGreatest ==
  ASSUME NEW n \in Nat, NEW S, S \subseteq 1 .. n, S # {}
  PROVE  Final(S) \in S /\ \A j \in S : j <= Final(S)
<1> DEFINE T == {n - i : i \in S}
<1>1. T \subseteq Nat /\ T # {}
  <2>1. \A i \in S : n - i \in Nat
    OBVIOUS
  <2>2. T # {}
    <3>1. PICK i \in S : TRUE
      OBVIOUS
    <3>2. n - i \in T
      BY <3>1
    <3> QED
      BY <3>2
  <2> QED
    BY <2>1, <2>2
<1>2. PICK t \in T : \A u \in T : t <= u
  BY <1>1, LeastNumber
<1>3. PICK i \in S : t = n - i
  OBVIOUS
<1>4. \A j \in S : j <= i
  BY <1>2, <1>3
<1> QED
  BY <1>4 DEF Final

(* emplace_front keeps the old elements, one position further on.           *)
LEMMA EmplaceFrontType ==
  ASSUME NEW S, NEW s \in Seq(S), NEW e \in S
  PROVE  /\ EmplaceFront(e, s) \in Seq(S)
         /\ Len(EmplaceFront(e, s)) = Len(s) + 1
         /\ EmplaceFront(e, s)[1] = e
         /\ \A i \in 1 .. Len(s) : EmplaceFront(e, s)[i + 1] = s[i]
         /\ \A i \in 2 .. Len(s) + 1 : EmplaceFront(e, s)[i] = s[i - 1]
  BY DEF EmplaceFront

(* remove_if without erase keeps the length of the list and invents no      *)
(* element.                                                                 *)
LEMMA RemoveIfType ==
  ASSUME NEW S, NEW s \in Seq(S), NEW gone
  PROVE  /\ RemoveIf(s, gone) \in Seq(S)
         /\ Len(RemoveIf(s, gone)) = Len(s)
         /\ \A p \in DOMAIN s : \E i \in DOMAIN s : RemoveIf(s, gone)[p] = s[i]
<1> DEFINE kept == DOMAIN s \ gone
           rank(i) == Cardinality({j \in kept : j <= i})
           at(p) == CHOOSE i \in kept : rank(i) = p
           from(p) == IF \E i \in kept : rank(i) = p THEN at(p) ELSE p
<1>1. \A p \in DOMAIN s : from(p) \in DOMAIN s
  OBVIOUS
<1>2. RemoveIf(s, gone) = [p \in DOMAIN s |-> s[from(p)]]
  BY Zenon DEF RemoveIf
<1> HIDE DEF from
<1>3. RemoveIf(s, gone) = [p \in 1 .. Len(s) |-> s[from(p)]]
  BY <1>2
<1> QED
  BY <1>1, <1>3

(* remove_if loses no element that it was not asked to remove.              *)
LEMMA RemoveIfKeeps ==
  ASSUME NEW S, NEW s \in Seq(S), NEW gone, NEW i \in DOMAIN s, i \notin gone
  PROVE  \E p \in DOMAIN s : RemoveIf(s, gone)[p] = s[i]
<1> DEFINE kept == DOMAIN s \ gone
           below(j) == {k \in kept : k <= j}
           rank(j) == Cardinality(below(j))
<1>1. \A j \in kept : below(j) \in SUBSET (1 .. j) /\ j \in below(j)
  OBVIOUS
<1>2. \A j \in kept : IsFiniteSet(below(j)) /\ rank(j) \in Nat /\ rank(j) <= j /\ rank(j) # 0
  <2> TAKE j \in kept
  <2>1. j \in Nat /\ j >= 1
    OBVIOUS
  <2>2. IsFiniteSet(1 .. j) /\ Cardinality(1 .. j) = j
    BY <2>1, FS_Interval
  <2>3. IsFiniteSet(below(j)) /\ Cardinality(below(j)) <= Cardinality(1 .. j)
    BY <1>1, <2>2, FS_Subset
  <2> HIDE DEF below
  <2>4. Cardinality(below(j)) \in Nat
    BY <2>3, FS_CardinalityType
  <2>5. below(j) # {}
    BY <1>1
  <2>6. Cardinality(below(j)) # 0
    BY <2>3, <2>5, FS_EmptySet
  <2> QED
    BY <2>2, <2>3, <2>4, <2>6
<1>3. \A j, k \in kept : rank(j) = rank(k) => j = k
  <2>1. \A j, k \in kept : j <= k /\ rank(j) = rank(k) => k <= j
    <3> SUFFICES ASSUME NEW j \in kept, NEW k \in kept, j <= k, rank(j) = rank(k)
                 PROVE  k <= j
      OBVIOUS
    <3>1. below(j) \in SUBSET below(k)
      OBVIOUS
    <3>2. IsFiniteSet(below(k))
      BY <1>2
    <3>3. k \in below(k)
      BY <1>1
    <3>4. below(j) = below(k)
      <4> HIDE DEF below
      <4> QED
        BY <3>1, <3>2, FS_Subset
    <3>5. k \in below(j)
      BY <3>3, <3>4
    <3> QED
      BY <3>5
  <2> QED
    BY <2>1
<1> DEFINE p == rank(i)
<1>4. i \in kept /\ p \in DOMAIN s
  <2>1. i \in kept
    OBVIOUS
  <2>2. p \in Nat /\ p <= i /\ p # 0
    BY <1>2, <2>1
  <2> HIDE DEF p
  <2> QED
    BY <2>1, <2>2
<1> DEFINE at == CHOOSE j \in kept : rank(j) = p
<1>5. at = i
  <2>1. at \in kept /\ rank(at) = rank(i)
    BY <1>4
  <2> HIDE DEF at, rank, kept
  <2> QED
    BY <1>3, <1>4, <2>1
<1>6. RemoveIf(s, gone)[p] = s[at]
  BY <1>4, Zenon DEF RemoveIf
<1> QED
  BY <1>4, <1>5, <1>6

---------------------------------------------------------------------------
(* What the type invariant needs to be inductive: a client in the middle of *)
(* a call has the queue and the message the call works on, the mutex is     *)
(* held by the one task between resolving a queue and sending to it, and no *)
(* two clients hold the same queue.                                         *)
InCall ==
  \A c \in Clients :
    /\ pc[c] \in {"connect", "drain", "delete"} => m_queue[c] # NoQueue
    /\ pc[c] \in {"forward", "enqueue"} =>
         out[c] # 0 /\ (ret[c] = "drain" => m_queue[c] # NoQueue)

OneQueueEach ==
  \A c, d \in Clients : m_queue[c] # NoQueue /\ m_queue[c] = m_queue[d] => c = d

TypeInv == TypeOK /\ InCall /\ OneQueueEach /\ MutexHeld

(* A position found in m_clients or m_groups is one of the list.            *)
LEMMA ClientFound ==
  ASSUME RegistryOK, NEW S, S \subseteq DOMAIN m_clients, S # {}
  PROVE  /\ First(S) \in DOMAIN m_clients /\ First(S) \in S
         /\ m_clients[First(S)] \in Client
<1>1. S \subseteq Nat
  BY DEF RegistryOK
<1>2. First(S) \in S
  BY <1>1, FirstIsLeast
<1>3. First(S) \in 1 .. Len(m_clients)
  BY <1>2 DEF RegistryOK
<1> QED
  BY <1>2, <1>3, ElementOfSeq DEF RegistryOK

(* A place that find_if returns is a place of m_groups.                     *)
LEMMA GroupFound ==
  ASSUME RegistryOK, NEW S, S \subseteq DOMAIN m_groups, S # {}
  PROVE  /\ First(S) \in DOMAIN m_groups /\ First(S) \in S
         /\ m_groups[First(S)] \in Group
<1>1. S \subseteq Nat
  BY DEF RegistryOK
<1>2. First(S) \in S
  BY <1>1, FirstIsLeast
<1>3. First(S) \in 1 .. Len(m_groups)
  BY <1>2 DEF RegistryOK
<1> QED
  BY <1>2, <1>3, ElementOfSeq DEF RegistryOK

(* The list of destinations of an address is a list of addresses.           *)
LEMMA DestinationType ==
  ASSUME RegistryOK, NEW addr \in Int
  PROVE  Destination(addr) \in Seq(Int)
<1>1. CASE addr < 0
  BY <1>1 DEF Destination
<1>2. CASE ~(addr < 0) /\ GroupsAt(addr) # {}
  <2>1. GroupsAt(addr) \subseteq DOMAIN m_groups
    BY DEF GroupsAt
  <2> QED
    BY <1>2, <2>1, GroupFound DEF Destination, Group
<1>3. CASE ~(addr < 0) /\ GroupsAt(addr) = {}
  BY <1>3 DEF Destination
<1> QED
  BY <1>1, <1>2, <1>3

(* Changing the list of one group, or of one message, leaves a list of      *)
(* groups, or of messages.                                                  *)
LEMMA GroupChange ==
  ASSUME RegistryOK, NEW g \in DOMAIN m_groups, NEW list \in Seq(Int)
  PROVE  [m_groups EXCEPT ![g].destination = list] \in Seq(Group)
<1> DEFINE new == [m_groups[g] EXCEPT !.destination = list]
<1>1. g \in 1 .. Len(m_groups) /\ m_groups \in Seq(Group)
  BY DEF RegistryOK
<1>2. m_groups[g] \in Group
  BY <1>1, ElementOfSeq
<1>3. new \in Group
  BY <1>2 DEF Group
<1>4. [m_groups EXCEPT ![g] = new] \in Seq(Group)
  BY <1>1, <1>3, ExceptSeq
<1> QED
  BY <1>4

(* A message whose destination list is shortened is still a message.        *)
LEMMA MessageChange ==
  ASSUME MessageOK, NEW id \in DOMAIN msgs, NEW list \in Seq(Int)
  PROVE  /\ [msgs EXCEPT ![id].destination = list] \in Seq(Message)
         /\ Len([msgs EXCEPT ![id].destination = list]) = Len(msgs)
<1> DEFINE new == [msgs[id] EXCEPT !.destination = list]
<1>1. id \in 1 .. Len(msgs) /\ msgs \in Seq(Message)
  BY DEF MessageOK
<1>2. msgs[id] \in Message
  BY <1>1, ElementOfSeq
<1>3. new \in Message
  BY <1>2 DEF Message
<1>4. /\ [msgs EXCEPT ![id] = new] \in Seq(Message)
      /\ Len([msgs EXCEPT ![id] = new]) = Len(msgs)
  BY <1>1, <1>3, ExceptSeq
<1> QED
  BY <1>4

(* A queue may come to hold any valid pointers, up to its length.           *)
LEMMA QueueChange ==
  ASSUME HeapOK, NEW q, NEW new \in Seq(Nat), Len(new) <= QueueLength,
         \A i \in DOMAIN new : new[i] \in DOMAIN msgs,
         fifo' = [fifo EXCEPT ![q] = new], live' \subseteq Queues, msgs' = msgs
  PROVE  HeapOK'
  BY DEF HeapOK

(* What sendToNextClient finds on a list of addresses: a place of the list, *)
(* a queue, and the rest of the list.                                       *)
LEMMA NextStop ==
  ASSUME RegistryOK, NEW list \in Seq(Int), Valid(list) # {}
  PROVE  /\ Final(Valid(list)) \in DOMAIN list
         /\ Popped(list, Final(Valid(list))) \in Seq(Int)
         /\ Resolvable(list[Final(Valid(list))]) # {}
         /\ Resolve(list[Final(Valid(list))]) \in Queues
<1>1. Valid(list) \subseteq 1 .. Len(list)
  BY DEF Valid
<1>2. Final(Valid(list)) \in Valid(list)
  BY <1>1, FinalIsGreatest
<1>3. Final(Valid(list)) \in 1 .. Len(list)
  BY <1>1, <1>2
<1>4. Popped(list, Final(Valid(list))) \in Seq(Int)
  BY <1>3 DEF Popped
<1>5. Resolvable(list[Final(Valid(list))]) # {}
  BY <1>2 DEF Valid
<1>6. Resolve(list[Final(Valid(list))]) \in Queues
  BY <1>5, ClientFound DEF Resolvable, Resolve, Client
<1> QED
  BY <1>3, <1>4, <1>5, <1>6

(* The list a task in sendToNextClient works on.                            *)
LEMMA OutMessage ==
  ASSUME TypeInv, NEW c \in Clients, pc[c] \in {"forward", "enqueue"}
  PROVE  /\ out[c] \in DOMAIN msgs /\ out[c] \in 1 .. Len(msgs)
         /\ msgs[out[c]].destination \in Seq(Int)
<1>1. out[c] \in 1 .. Len(msgs) /\ DOMAIN msgs = 1 .. Len(msgs)
  BY DEF TypeInv, TypeOK, TaskOK, MessageOK, InCall
<1>2. msgs[out[c]] \in Message
  BY <1>1, ElementOfSeq DEF TypeInv, TypeOK, MessageOK
<1> QED
  BY <1>1, <1>2 DEF Message

(* The pointer at the head of a queue is to a message that was built.       *)
LEMMA HeadOfQueue ==
  ASSUME HeapOK, MessageOK, NEW q \in Queues, fifo[q] # <<>>
  PROVE  /\ Head(fifo[q]) \in 1 .. Len(msgs)
         /\ Tail(fifo[q]) \in Seq(Nat)
         /\ Len(Tail(fifo[q])) = Len(fifo[q]) - 1
         /\ \A i \in 1 .. Len(Tail(fifo[q])) : Tail(fifo[q])[i] = fifo[q][i + 1]
<1>1. fifo[q] \in Seq(Nat)
  BY DEF HeapOK
<1>2. 1 \in DOMAIN fifo[q] /\ Head(fifo[q]) = fifo[q][1]
  BY <1>1
<1>3. fifo[q][1] \in DOMAIN msgs
  BY <1>2 DEF HeapOK
<1>4. DOMAIN msgs = 1 .. Len(msgs)
  BY DEF MessageOK
<1> QED
  BY <1>1, <1>2, <1>3, <1>4, HeadTailProperties

(* Nothing is connected, queued or called when the program starts.          *)
LEMMA TypeInit == Init => TypeInv
<1> SUFFICES ASSUME Init PROVE TypeInv
  OBVIOUS
<1> USE DEF Init
<1>1. RegistryOK
  BY EmptySeq DEF RegistryOK, BusAddrInvalid
<1>2. ObjectOK
  BY DEF ObjectOK, BusAddrInvalid
<1>3. HeapOK
  BY BusAssumption DEF HeapOK, BusAssumption
<1>4. TaskOK
  BY DEF TaskOK, PCs, BusAddrInvalid
<1>5. MessageOK
  BY EmptySeq DEF MessageOK
<1>6. InCall /\ OneQueueEach /\ MutexHeld
  BY BusAssumption DEF InCall, OneQueueEach, MutexHeld, At, BusAssumption
<1> QED
  BY <1>1, <1>2, <1>3, <1>4, <1>5, <1>6 DEF TypeInv, TypeOK

(* A call that begins keeps the type invariant: objects and their queues.   *)
LEMMA TypeBegin ==
  ASSUME BusAssumption, TypeInv, NEW c \in Clients,
         \/ CreateQueue(c) \/ Reconnect(c) \/ Disconnect(c) \/ Destroy(c) \/ Construct(c)
  PROVE  TypeInv'
<1> USE DEF TypeInv, TypeOK, At, Goto, Unlocked, Release, BusAddrInvalid
<1>1. CASE CreateQueue(c)
  <2> USE <1>1 DEF CreateQueue, registry, local, history
  <2>1. RegistryOK' /\ MessageOK'
    BY DEF RegistryOK, MessageOK
  <2>2. ObjectOK'
    BY DEF ObjectOK
  <2>3. HeapOK'
    BY DEF HeapOK, BusAssumption
  <2>4. TaskOK'
    BY DEF TaskOK, PCs
  <2>5. InCall'
    BY DEF InCall, TaskOK, ObjectOK, HeapOK, BusAssumption
  <2>6. OneQueueEach'
    BY DEF OneQueueEach, ObjectOK
  <2>7. MutexHeld'
    BY DEF MutexHeld, TaskOK
  <2> QED
    BY <2>1, <2>2, <2>3, <2>4, <2>5, <2>6, <2>7
<1>2. CASE Reconnect(c)
  <2> USE <1>2 DEF Reconnect, registry, object, heap, local, history
  <2>1. RegistryOK' /\ ObjectOK' /\ HeapOK' /\ MessageOK' /\ OneQueueEach'
    BY DEF RegistryOK, ObjectOK, HeapOK, MessageOK, OneQueueEach
  <2>2. TaskOK'
    BY DEF TaskOK, PCs
  <2>3. InCall'
    BY DEF InCall, TaskOK
  <2>4. MutexHeld'
    BY DEF MutexHeld, TaskOK
  <2> QED
    BY <2>1, <2>2, <2>3, <2>4
<1>3. CASE Disconnect(c)
  <2> USE <1>3 DEF Disconnect, Unregister, heap, local, history
  <2>1. HeapOK' /\ TaskOK' /\ MessageOK' /\ InCall' /\ OneQueueEach' /\ MutexHeld'
    BY DEF HeapOK, TaskOK, MessageOK, InCall, OneQueueEach, MutexHeld
  <2>2. RegistryOK'
    BY RemoveIfType DEF RegistryOK
  <2>3. ObjectOK'
    BY DEF ObjectOK
  <2> QED
    BY <2>1, <2>2, <2>3
<1>4. CASE Destroy(c)
  <2> USE <1>4 DEF Destroy, Unregister, heap, local, history
  <2>1. HeapOK' /\ MessageOK' /\ OneQueueEach'
    BY DEF HeapOK, MessageOK, OneQueueEach
  <2>2. RegistryOK'
    BY RemoveIfType DEF RegistryOK
  <2>3. ObjectOK'
    BY DEF ObjectOK
  <2>4. TaskOK'
    BY DEF TaskOK, PCs
  <2>5. InCall'
    BY DEF InCall, TaskOK
  <2>6. MutexHeld'
    BY DEF MutexHeld, TaskOK
  <2> QED
    BY <2>1, <2>2, <2>3, <2>4, <2>5, <2>6
<1>5. CASE Construct(c)
  <2> USE <1>5 DEF Construct, registry, object, heap, local
  <2>1. RegistryOK' /\ ObjectOK' /\ HeapOK' /\ OneQueueEach'
    BY DEF RegistryOK, ObjectOK, HeapOK, OneQueueEach
  <2>2. TaskOK'
    BY DEF TaskOK, PCs
  <2>3. MessageOK'
    BY DEF MessageOK
  <2>4. InCall'
    BY DEF InCall, TaskOK
  <2>5. MutexHeld'
    BY DEF MutexHeld, TaskOK
  <2> QED
    BY <2>1, <2>2, <2>3, <2>4, <2>5
<1> QED
  BY <1>1, <1>2, <1>3, <1>4, <1>5 DEF TypeInv

(* Looking a name up, or being given an address, keeps it.                  *)
LEMMA TypeBeginNamed ==
  ASSUME BusAssumption, TypeInv, NEW c \in Clients,
         \/ \E n \in Names : JoinName(c, n) \/ LeaveName(c, n) \/ SendName(c, n)
         \/ \E to \in m_addrLast .. -1 : SendAddr(c, to)
  PROVE  TypeInv'
<1> USE DEF TypeInv, TypeOK, At, Goto, Unlocked, Release, BusAddrInvalid
<1>1. ASSUME NEW n \in Names, JoinName(c, n) PROVE TypeInv'
  <2> USE <1>1 DEF JoinName, object, heap, history
  <2>1. ObjectOK' /\ HeapOK' /\ MessageOK' /\ OneQueueEach'
    BY DEF ObjectOK, HeapOK, MessageOK, OneQueueEach
  <2>2. RegistryOK'
    <3>1. NewGroup(n) \in Group
      BY DEF NewGroup, RegistryOK, Group
    <3>2. EmplaceFront(NewGroup(n), m_groups) \in Seq(Group)
      BY <3>1, EmplaceFrontType DEF RegistryOK
    <3> QED
      BY <3>2 DEF RegistryOK
  <2>3. TaskOK'
    <3>1. GroupsNamed(n) # {} =>
             m_groups[First(GroupsNamed(n))].addr \in Int
      BY GroupFound DEF GroupsNamed, Group
    <3>2. arg'[c] \in Int /\ arg' = [arg EXCEPT ![c] = arg'[c]]
      BY <3>1 DEF RegistryOK, TaskOK
    <3> QED
      BY <3>2 DEF TaskOK, PCs
  <2>4. InCall'
    BY DEF InCall, TaskOK
  <2>5. MutexHeld'
    BY DEF MutexHeld, TaskOK
  <2> QED
    BY <2>1, <2>2, <2>3, <2>4, <2>5
<1>2. ASSUME NEW n \in Names, LeaveName(c, n) PROVE TypeInv'
  <2> USE <1>2 DEF LeaveName, registry, object, heap, history
  <2>1. RegistryOK' /\ ObjectOK' /\ HeapOK' /\ MessageOK' /\ OneQueueEach'
    BY DEF RegistryOK, ObjectOK, HeapOK, MessageOK, OneQueueEach
  <2>2. TaskOK'
    <3>1. GroupsNamed(n) # {} =>
             m_groups[First(GroupsNamed(n))].addr \in Int
      BY GroupFound DEF GroupsNamed, Group
    <3> QED
      BY <3>1 DEF TaskOK, PCs, RegistryOK
  <2>3. InCall'
    BY DEF InCall, TaskOK
  <2>4. MutexHeld'
    BY DEF MutexHeld, TaskOK
  <2> QED
    BY <2>1, <2>2, <2>3, <2>4
<1>3. ASSUME NEW n \in Names, SendName(c, n) PROVE TypeInv'
  <2> USE <1>3 DEF SendName, registry, object, heap, history
  <2>1. RegistryOK' /\ ObjectOK' /\ HeapOK' /\ MessageOK' /\ OneQueueEach'
    BY DEF RegistryOK, ObjectOK, HeapOK, MessageOK, OneQueueEach
  <2>2. TaskOK'
    <3>1. GroupsNamed(n) # {} =>
             m_groups[First(GroupsNamed(n))].addr \in Int
      BY GroupFound DEF GroupsNamed, Group
    <3> QED
      BY <3>1 DEF TaskOK, PCs, RegistryOK
  <2>3. InCall'
    BY DEF InCall, TaskOK
  <2>4. MutexHeld'
    BY DEF MutexHeld, TaskOK
  <2> QED
    BY <2>1, <2>2, <2>3, <2>4
<1>4. ASSUME NEW to \in m_addrLast .. -1, SendAddr(c, to) PROVE TypeInv'
  <2> USE <1>4 DEF SendAddr, registry, object, heap, history
  <2>1. RegistryOK' /\ ObjectOK' /\ HeapOK' /\ MessageOK' /\ OneQueueEach'
    BY DEF RegistryOK, ObjectOK, HeapOK, MessageOK, OneQueueEach
  <2>2. TaskOK'
    BY DEF TaskOK, PCs, RegistryOK
  <2>3. InCall'
    BY DEF InCall, TaskOK
  <2>4. MutexHeld'
    BY DEF MutexHeld, TaskOK
  <2> QED
    BY <2>1, <2>2, <2>3, <2>4
<1> QED
  BY <1>1, <1>2, <1>3, <1>4 DEF TypeInv

(* Connecting, joining, leaving and deleting a queue keep it.               *)
LEMMA TypeRegistry ==
  ASSUME BusAssumption, TypeInv, NEW c \in Clients,
         \/ Connect(c) \/ JoinAddr(c) \/ LeaveAddr(c) \/ Drained(c) \/ DeleteQueue(c)
  PROVE  TypeInv'
<1> USE DEF TypeInv, TypeOK, At, Goto, Unlocked, Release, BusAddrInvalid
<1>1. CASE Connect(c)
  <2> USE <1>1 DEF Connect, heap, local, history
  <2>1. HeapOK' /\ MessageOK' /\ OneQueueEach'
    BY DEF HeapOK, MessageOK, OneQueueEach
  <2>2. RegistryOK'
    <3>1. NewClient(c) \in Client
      BY DEF NewClient, RegistryOK, ObjectOK, InCall, Client
    <3>2. EmplaceFront(NewClient(c), m_clients) \in Seq(Client)
      BY <3>1, EmplaceFrontType DEF RegistryOK
    <3> QED
      BY <3>2 DEF RegistryOK
  <2>3. ObjectOK'
    <3>1. ClientsAt(m_queue[c]) # {} => m_clients[First(ClientsAt(m_queue[c]))].addr \in Int
      BY ClientFound DEF ClientsAt, Client
    <3> QED
      BY <3>1 DEF ObjectOK, RegistryOK
  <2>4. TaskOK'
    BY DEF TaskOK, PCs
  <2>5. InCall'
    BY DEF InCall, TaskOK
  <2>6. MutexHeld'
    BY DEF MutexHeld, TaskOK
  <2> QED
    BY <2>1, <2>2, <2>3, <2>4, <2>5, <2>6
<1>2. CASE JoinAddr(c)
  <2> USE <1>2 DEF JoinAddr, object, heap, history
  <2>1. ObjectOK' /\ HeapOK' /\ OneQueueEach'
    BY DEF ObjectOK, HeapOK, OneQueueEach
  <2>2. RegistryOK'
    <3> DEFINE g == First(GroupsAt(arg[c]))
               members == m_groups[g].destination
    <3>1. CASE m_groups' = m_groups
      BY <3>1 DEF RegistryOK
    <3>2. CASE m_groups' # m_groups
      <4>1. GroupsAt(arg[c]) # {}
        BY <3>2
      <4>2. g \in DOMAIN m_groups /\ m_groups[g] \in Group
        <5>1. GroupsAt(arg[c]) \subseteq DOMAIN m_groups
          BY DEF GroupsAt
        <5> QED
          BY <4>1, <5>1, GroupFound
      <4>3. EmplaceFront(m_addr[c], members) \in Seq(Int)
        BY <4>2, EmplaceFrontType DEF ObjectOK, Group
      <4>4. m_groups' = [m_groups EXCEPT ![g].destination = EmplaceFront(m_addr[c], members)]
        BY <3>2
      <4> HIDE DEF g
      <4>5. m_groups' \in Seq(Group)
        BY <4>2, <4>3, <4>4, GroupChange
      <4> QED
        BY <4>5 DEF RegistryOK
    <3> QED
      BY <3>1, <3>2
  <2>3. TaskOK'
    BY DEF TaskOK, PCs
  <2>4. MessageOK'
    BY DEF MessageOK
  <2>5. InCall'
    BY DEF InCall, TaskOK
  <2>6. MutexHeld'
    BY DEF MutexHeld, TaskOK
  <2> QED
    BY <2>1, <2>2, <2>3, <2>4, <2>5, <2>6
<1>3. CASE LeaveAddr(c)
  <2> USE <1>3 DEF LeaveAddr, object, heap, history
  <2>1. ObjectOK' /\ HeapOK' /\ MessageOK' /\ OneQueueEach'
    BY DEF ObjectOK, HeapOK, MessageOK, OneQueueEach
  <2>2. RegistryOK'
    <3> DEFINE g == First(GroupsAt(arg[c]))
               members == m_groups[g].destination
    <3>1. CASE m_groups' = m_groups
      BY <3>1 DEF RegistryOK
    <3>2. CASE m_groups' # m_groups
      <4>1. GroupsAt(arg[c]) # {}
        BY <3>2
      <4>2. g \in DOMAIN m_groups /\ m_groups[g] \in Group
        <5>1. GroupsAt(arg[c]) \subseteq DOMAIN m_groups
          BY DEF GroupsAt
        <5> QED
          BY <4>1, <5>1, GroupFound
      <4>3. RemoveIf(members, {i \in DOMAIN members : members[i] = m_addr[c]}) \in Seq(Int)
        BY <4>2, RemoveIfType DEF Group
      <4>4. m_groups' = [m_groups EXCEPT ![g].destination = RemoveIf(members, {i \in DOMAIN members : members[i] = m_addr[c]})]
        BY <3>2
      <4> HIDE DEF g
      <4>5. m_groups' \in Seq(Group)
        BY <4>2, <4>3, <4>4, GroupChange
      <4> QED
        BY <4>5 DEF RegistryOK
    <3> QED
      BY <3>1, <3>2
  <2>3. TaskOK'
    BY DEF TaskOK, PCs
  <2>4. InCall'
    BY DEF InCall, TaskOK
  <2>5. MutexHeld'
    BY DEF MutexHeld, TaskOK
  <2> QED
    BY <2>1, <2>2, <2>3, <2>4, <2>5
<1>4. CASE Drained(c)
  <2> USE <1>4 DEF Drained, registry, object, heap, local, history
  <2>1. RegistryOK' /\ ObjectOK' /\ HeapOK' /\ MessageOK' /\ OneQueueEach'
    BY DEF RegistryOK, ObjectOK, HeapOK, MessageOK, OneQueueEach
  <2>2. TaskOK'
    BY DEF TaskOK, PCs
  <2>3. InCall'
    BY DEF InCall, TaskOK
  <2>4. MutexHeld'
    BY DEF MutexHeld, TaskOK
  <2> QED
    BY <2>1, <2>2, <2>3, <2>4
<1>5. CASE DeleteQueue(c)
  <2> USE <1>5 DEF DeleteQueue, registry, local, history
  <2>1. RegistryOK' /\ MessageOK'
    BY DEF RegistryOK, MessageOK
  <2>2. ObjectOK'
    BY DEF ObjectOK, OneQueueEach, InCall
  <2>3. HeapOK'
    <3>1. <<>> \in Seq(Nat) /\ Len(<<>>) = 0 /\ DOMAIN <<>> = {}
      BY EmptySeq
    <3>2. 0 <= QueueLength
      BY BusAssumption DEF BusAssumption
    <3>3. fifo' = [fifo EXCEPT ![m_queue[c]] = <<>>] /\ live' \subseteq Queues /\ msgs' = msgs
      BY DEF HeapOK
    <3> HIDE DEF DeleteQueue
    <3> QED
      BY <3>1, <3>2, <3>3, QueueChange
  <2>4. TaskOK'
    BY DEF TaskOK, PCs
  <2>5. InCall'
    BY DEF InCall, TaskOK, ObjectOK
  <2>6. OneQueueEach'
    BY DEF OneQueueEach, ObjectOK
  <2>7. MutexHeld'
    BY DEF MutexHeld, TaskOK
  <2> QED
    BY <2>1, <2>2, <2>3, <2>4, <2>5, <2>6, <2>7
<1> QED
  BY <1>1, <1>2, <1>3, <1>4, <1>5 DEF TypeInv

(* Building, forwarding and receiving a message keep it.                    *)
LEMMA TypeMessages ==
  ASSUME BusAssumption, TypeInv, NEW c \in Clients,
         \/ BuildMsg(c) \/ ForwardDone(c) \/ ResolveNext(c) \/ Enqueue(c)
         \/ Drain(c) \/ TryReceive(c) \/ FinishReceive(c)
  PROVE  TypeInv'
<1> USE DEF TypeInv, TypeOK, At, Goto, Unlocked, Release, BusAddrInvalid
<1>1. CASE BuildMsg(c)
  <2> USE <1>1 DEF BuildMsg, registry, object, heap, history
  <2>1. /\ msgs' \in Seq(Message)
        /\ \/ msgs' = msgs /\ out' = out
           \/ Len(msgs') = Len(msgs) + 1 /\ out' = [out EXCEPT ![c] = Len(msgs) + 1]
    <3> DEFINE new == [from |-> m_addr[c], to |-> arg[c],
                       destination |-> Destination(arg[c]), targets |-> Destination(arg[c])]
    <3>1. new \in Message
      BY DestinationType DEF TaskOK, ObjectOK, Message
    <3>2. Append(msgs, new) \in Seq(Message) /\ Len(Append(msgs, new)) = Len(msgs) + 1
      BY <3>1, AppendProperties DEF MessageOK
    <3>3. msgs' = msgs \/ msgs' = Append(msgs, new)
      OBVIOUS
    <3> QED
      BY <3>2, <3>3 DEF MessageOK
  <2>2. RegistryOK' /\ ObjectOK' /\ OneQueueEach'
    BY DEF RegistryOK, ObjectOK, OneQueueEach
  <2>3. HeapOK'
    BY <2>1 DEF HeapOK, MessageOK
  <2>4. TaskOK'
    <3>1. Len(msgs) \in Nat
      BY DEF MessageOK
    <3>2. pc' \in [Clients -> PCs]
      BY ZenonT(40) DEF TaskOK, PCs
    <3>3. ret' \in [Clients -> {"idle", "drain"}] /\ arg' \in [Clients -> Int]
      BY DEF TaskOK
    <3>4. UNCHANGED <<m_mutex, dest, hand>>
      OBVIOUS
    <3> HIDE DEF BuildMsg
    <3>5. out' \in [Clients -> 0 .. Len(msgs')]
      BY <2>1, <3>1 DEF TaskOK
    <3>6. hand' \in [Clients -> 0 .. Len(msgs')]
      BY <2>1, <3>1, <3>4 DEF TaskOK
    <3> QED
      BY <3>2, <3>3, <3>4, <3>5, <3>6 DEF TaskOK
  <2>5. MessageOK'
    BY <2>1 DEF MessageOK
  <2>6. InCall'
    BY <2>1 DEF InCall, TaskOK, MessageOK
  <2>7. MutexHeld'
    BY DEF MutexHeld, TaskOK
  <2> QED
    BY <2>2, <2>3, <2>4, <2>5, <2>6, <2>7
<1>2. CASE ForwardDone(c)
  <2> USE <1>2 DEF ForwardDone, registry, object, heap, history
  <2>1. RegistryOK' /\ ObjectOK' /\ HeapOK' /\ MessageOK' /\ OneQueueEach'
    BY DEF RegistryOK, ObjectOK, HeapOK, MessageOK, OneQueueEach
  <2>2. TaskOK'
    BY DEF TaskOK, PCs, MessageOK
  <2>3. InCall'
    BY DEF InCall, TaskOK
  <2>4. MutexHeld'
    BY DEF MutexHeld, TaskOK
  <2> QED
    BY <2>1, <2>2, <2>3, <2>4
<1>3. CASE ResolveNext(c)
  <2> USE <1>3 DEF ResolveNext, registry, object, heap, history
  <2> DEFINE list == msgs[out[c]].destination
  <2>1. msgs' \in Seq(Message) /\ Len(msgs') = Len(msgs)
    <3>1. out[c] \in DOMAIN msgs /\ list \in Seq(Int)
      BY OutMessage
    <3>2. PICK rest \in Seq(Int) : msgs' = [msgs EXCEPT ![out[c]].destination = rest]
      <4>1. CASE Valid(list) = {}
        BY <4>1, EmptySeq
      <4>2. CASE Valid(list) # {}
        BY <3>1, <4>2, NextStop
      <4> QED
        BY <4>1, <4>2
    <3> HIDE DEF ResolveNext
    <3> QED
      BY <3>1, <3>2, MessageChange
  <2>2. \/ dest' = dest
        \/ \E q \in Queues : dest' = [dest EXCEPT ![c] = q]
    BY OutMessage, NextStop
  <2>4. RegistryOK' /\ ObjectOK' /\ OneQueueEach'
    BY DEF RegistryOK, ObjectOK, OneQueueEach
  <2>5. HeapOK'
    BY <2>1 DEF HeapOK, MessageOK
  <2>6. TaskOK'
    <3>1. out' \in [Clients -> 0 .. Len(msgs')] /\ hand' \in [Clients -> 0 .. Len(msgs')]
      BY <2>1 DEF TaskOK
    <3>2. pc' \in [Clients -> PCs] /\ m_mutex' \in Clients \cup {Nobody}
      BY DEF TaskOK, PCs
    <3>3. dest' \in [Clients -> Queues \cup {NoQueue}]
      BY <2>2, ZenonT(40) DEF TaskOK
    <3>4. ret' = ret /\ arg' = arg
      OBVIOUS
    <3> HIDE DEF ResolveNext
    <3> QED
      BY <3>1, <3>2, <3>3, <3>4 DEF TaskOK
  <2>7. MessageOK'
    BY <2>1 DEF MessageOK
  <2>8. InCall'
    BY <2>1 DEF InCall, TaskOK
  <2>9. MutexHeld'
    <3>1. \/ m_mutex' = m_mutex /\ ret[c] # "enqueue" /\ pc' = [pc EXCEPT ![c] = ret[c]]
          \/ m_mutex' = c /\ pc' = [pc EXCEPT ![c] = "enqueue"]
      BY DEF TaskOK
    <3> QED
      BY <3>1, BusAssumption DEF MutexHeld, TaskOK, BusAssumption
  <2> QED
    BY <2>4, <2>5, <2>6, <2>7, <2>8, <2>9
<1>4. CASE Enqueue(c)
  <2> USE <1>4 DEF Enqueue, registry, object
  <2>1. RegistryOK' /\ ObjectOK' /\ OneQueueEach'
    BY DEF RegistryOK, ObjectOK, OneQueueEach
  <2>2. HeapOK'
    <3> DEFINE q == dest[c]
    <3>1. CASE fifo' = fifo
      BY <3>1 DEF HeapOK
    <3>2. CASE q \in live /\ Len(fifo[q]) < QueueLength
      <4>1. q \in Queues /\ fifo[q] \in Seq(Nat) /\ out[c] \in 1 .. Len(msgs)
        BY <3>2 DEF HeapOK, InCall, TaskOK
      <4>2. fifo' = [fifo EXCEPT ![q] = Append(fifo[q], out[c])]
        BY <3>2 DEF Sent
      <4> QED
        <5> DEFINE new == Append(fifo[q], out[c])
        <5>1. new \in Seq(Nat) /\ Len(new) = Len(fifo[q]) + 1
          BY <4>1
        <5>2. \A i \in DOMAIN new : new[i] \in DOMAIN msgs
          BY <4>1 DEF HeapOK, MessageOK
        <5>3. Len(new) <= QueueLength
          BY <3>2, <4>1, <5>1, BusAssumption DEF BusAssumption
        <5> HIDE DEF new
        <5>4. fifo' = [fifo EXCEPT ![q] = new] /\ live' \subseteq Queues /\ msgs' = msgs
          BY <4>2 DEF new, HeapOK
        <5> QED
          BY <5>1, <5>2, <5>3, <5>4, QueueChange
    <3> QED
      BY <3>1, <3>2
  <2>3. TaskOK'
    BY DEF TaskOK, PCs, MessageOK
  <2>4. MessageOK'
    <3>1. out[c] \in Nat
      BY DEF TaskOK, MessageOK
    <3>2. lost' \subseteq lost \cup {out[c]} /\ undef' \in BOOLEAN
      BY DEF MessageOK
    <3> QED
      BY <3>1, <3>2 DEF MessageOK
  <2>5. InCall'
    BY DEF InCall, TaskOK
  <2>6. MutexHeld'
    BY DEF MutexHeld, TaskOK
  <2> QED
    BY <2>1, <2>2, <2>3, <2>4, <2>5, <2>6
<1>5. CASE Drain(c)
  <2> USE <1>5 DEF Drain, registry, object, history
  <2>1. RegistryOK' /\ ObjectOK' /\ MessageOK' /\ OneQueueEach'
    BY DEF RegistryOK, ObjectOK, MessageOK, OneQueueEach
  <2>2. HeapOK'
    <3>1. m_queue[c] \in Queues
      BY DEF ObjectOK, InCall
    <3> QED
      BY <3>1, HeadOfQueue DEF HeapOK
  <2>3. TaskOK'
    <3>1. m_queue[c] \in Queues
      BY DEF ObjectOK, InCall
    <3>2. Head(fifo[m_queue[c]]) \in 0 .. Len(msgs)
      BY <3>1, HeadOfQueue
    <3> QED
      BY <3>2 DEF TaskOK, PCs
  <2>4. InCall'
    <3>1. m_queue[c] \in Queues
      BY DEF ObjectOK, InCall
    <3> QED
      BY <3>1, HeadOfQueue DEF HeapOK, InCall, TaskOK, MessageOK
  <2>5. MutexHeld'
    BY DEF MutexHeld, TaskOK
  <2> QED
    BY <2>1, <2>2, <2>3, <2>4, <2>5
<1>6. CASE TryReceive(c)
  <2> USE <1>6 DEF TryReceive, registry, object
  <2>1. RegistryOK' /\ ObjectOK' /\ InCall' /\ OneQueueEach' /\ MutexHeld'
    BY DEF RegistryOK, ObjectOK, InCall, OneQueueEach, MutexHeld
  <2>2. HeapOK'
    <3>1. m_queue[c] \in Queues
      BY DEF ObjectOK
    <3> QED
      BY <3>1, HeadOfQueue, SMTT(20) DEF HeapOK
  <2>3. TaskOK'
    <3>1. m_queue[c] \in Queues
      BY DEF ObjectOK
    <3> QED
      BY <3>1, HeadOfQueue, SMTT(20) DEF HeapOK, TaskOK, MessageOK
  <2>4. MessageOK'
    <3>1. m_queue[c] \in Queues
      BY DEF ObjectOK
    <3> QED
      BY <3>1, HeadOfQueue, SMTT(20) DEF MessageOK, HeapOK
  <2> QED
    BY <2>1, <2>2, <2>3, <2>4
<1>7. CASE FinishReceive(c)
  <2> USE <1>7 DEF FinishReceive, registry, object, heap, history
  <2>1. RegistryOK' /\ ObjectOK' /\ HeapOK' /\ MessageOK' /\ OneQueueEach'
    BY DEF RegistryOK, ObjectOK, HeapOK, MessageOK, OneQueueEach
  <2>2. TaskOK'
    BY DEF TaskOK, PCs, MessageOK
  <2>3. InCall'
    BY DEF InCall, TaskOK
  <2>4. MutexHeld'
    BY DEF MutexHeld, TaskOK
  <2> QED
    BY <2>1, <2>2, <2>3, <2>4
<1> QED
  BY <1>1, <1>2, <1>3, <1>4, <1>5, <1>6, <1>7 DEF TypeInv

(* Every step of every task preserves the type invariant.                   *)
LEMMA TypeNext ==
  ASSUME BusAssumption, TypeInv, [Next]_vars
  PROVE  TypeInv'
<1>1. CASE UNCHANGED vars
  BY <1>1 DEF vars, registry, object, heap, local, history, TypeInv, TypeOK, RegistryOK,
     ObjectOK, HeapOK, TaskOK, MessageOK, InCall, OneQueueEach, MutexHeld, At
<1>2. ASSUME NEW c \in Clients, Begin(c) PROVE TypeInv'
  BY <1>2, TypeBegin, TypeBeginNamed DEF Begin
<1>3. ASSUME NEW c \in Clients, Proceed(c) \/ TryReceive(c) \/ FinishReceive(c)
      PROVE  TypeInv'
  BY <1>3, TypeRegistry, TypeMessages DEF Proceed
<1> QED
  BY <1>1, <1>2, <1>3 DEF Next

(* TypeInv holds in every reachable state.                                  *)
LEMMA TypeAlways == Spec => []TypeInv
<1>1. TypeInv /\ [Next]_vars => TypeInv'
  BY BusAssumption, TypeNext
<1> QED
  BY <1>1, TypeInit, PTL DEF Spec

(* The type invariant, of any bus: among the rest, the queue a client holds *)
(* exists, and no queue exceeds its length (Bus.cpp 196-218, 255-275).      *)
THEOREM TypeSafety == Spec => []TypeOK
<1>1. TypeInv => TypeOK
  BY DEF TypeInv
<1> QED
  BY <1>1, TypeAlways, PTL

(* Exactly the task between resolving a queue and sending to it holds the   *)
(* mutex, so no call takes it twice (Bus.cpp 255-275).                      *)
THEOREM MutexSafety == Spec => []MutexHeld
<1>1. TypeInv => MutexHeld
  BY DEF TypeInv
<1> QED
  BY <1>1, TypeAlways, PTL

---------------------------------------------------------------------------
(* Groups.  A step changes the groups by putting a new one in front, or by  *)
(* changing the list of one; either way addresses and names stay apart.     *)
GroupInv == GroupsConsistent /\ JoinFindsGroup

SameGroups ==
  /\ DOMAIN m_groups' = DOMAIN m_groups
  /\ \A i \in DOMAIN m_groups :
       /\ m_groups'[i].addr = m_groups[i].addr
       /\ m_groups'[i].addrName = m_groups[i].addrName

(* There is no group when the program starts.                               *)
LEMMA GroupInit == Init => GroupInv
  BY DEF Init, GroupInv, GroupsConsistent, JoinFindsGroup, At, BusAddrInvalid

(* A step that only changes who is in a group, and ends no call of join,    *)
(* keeps names and addresses.                                               *)
LEMMA GroupsKept ==
  ASSUME GroupInv, SameGroups, m_groupLast' = m_groupLast,
         \A c \in Clients : pc'[c] = "joinAddr" => pc[c] = "joinAddr" /\ arg'[c] = arg[c]
  PROVE  GroupInv'
  BY DEF GroupInv, GroupsConsistent, JoinFindsGroup, SameGroups, GroupsAt, At

(* join(name) adds a group only for a name that has none, with the next     *)
(* address.                                                                 *)
LEMMA GroupJoinName ==
  ASSUME TypeInv, GroupInv, NEW c \in Clients, NEW n \in Names, JoinName(c, n)
  PROVE  GroupInv'
<1> USE DEF TypeInv, TypeOK, RegistryOK, GroupInv
<1>1. CASE GroupsNamed(n) = {}
  <2> DEFINE new == EmplaceFront(NewGroup(n), m_groups)
  <2>1. NewGroup(n) \in Group /\ m_groups \in Seq(Group)
    BY DEF NewGroup, Group
  <2>2. /\ Len(new) = Len(m_groups) + 1 /\ new \in Seq(Group)
        /\ new[1] = NewGroup(n)
        /\ \A i \in 1 .. Len(m_groups) : new[i + 1] = m_groups[i]
        /\ \A i \in 2 .. Len(m_groups) + 1 : new[i] = m_groups[i - 1]
    <3>1. new \in Seq(Group)
      BY <2>1, EmplaceFrontType
    <3>2. Len(new) = Len(m_groups) + 1 /\ new[1] = NewGroup(n)
      BY <2>1, EmplaceFrontType
    <3>3. \A i \in 1 .. Len(m_groups) : new[i + 1] = m_groups[i]
      BY <2>1, EmplaceFrontType
    <3>4. \A i \in 2 .. Len(m_groups) + 1 : new[i] = m_groups[i - 1]
      BY <2>1, EmplaceFrontType
    <3> QED
      BY <3>1, <3>2, <3>3, <3>4
  <2>3. m_groups' = new /\ m_groupLast' = m_groupLast + 1
    BY <1>1 DEF JoinName
  <2>4. \A i \in DOMAIN m_groups : m_groups[i].addrName # n /\ m_groups[i].addr \in 1 .. m_groupLast
    BY <1>1 DEF GroupsNamed, GroupsConsistent
  <2> HIDE DEF new
  <2>5. \A i, j \in DOMAIN new :
          new[i].addr = new[j].addr \/ new[i].addrName = new[j].addrName => i = j
    <3> SUFFICES ASSUME NEW i \in 1 .. Len(m_groups) + 1, NEW j \in 1 .. Len(m_groups) + 1,
                        i < j
                 PROVE  new[i].addr # new[j].addr /\ new[i].addrName # new[j].addrName
      BY <2>2
    <3>1. j - 1 \in DOMAIN m_groups /\ new[j] = m_groups[j - 1]
      BY <2>2
    <3>2. CASE i = 1
      BY <2>2, <2>4, <3>1, <3>2 DEF NewGroup
    <3>3. CASE i # 1
      <4>1. i - 1 \in DOMAIN m_groups /\ new[i] = m_groups[i - 1] /\ i - 1 # j - 1
        BY <2>2, <3>3
      <4> QED
        BY <3>1, <4>1 DEF GroupsConsistent
    <3> QED
      BY <3>2, <3>3
  <2>6. {new[i].addr : i \in DOMAIN new} = 1 .. m_groupLast + 1
    <3>1. \A i \in DOMAIN new : new[i].addr \in 1 .. m_groupLast + 1
      BY <2>2, <2>4 DEF NewGroup
    <3>2. \A a \in 1 .. m_groupLast : \E i \in DOMAIN m_groups : m_groups[i].addr = a
      BY DEF GroupsConsistent
    <3>3. \A a \in 1 .. m_groupLast + 1 : \E i \in DOMAIN new : new[i].addr = a
      <4> TAKE a \in 1 .. m_groupLast + 1
      <4>1. CASE a = m_groupLast + 1
        BY <2>2, <4>1 DEF NewGroup
      <4>2. CASE a # m_groupLast + 1
        <5>1. PICK i \in DOMAIN m_groups : m_groups[i].addr = a
          BY <3>2, <4>2
        <5>2. i + 1 \in DOMAIN new /\ new[i + 1].addr = a
          BY <2>2, <5>1
        <5> QED
          BY <5>2
      <4> QED
        BY <4>1, <4>2
    <3> QED
      BY <3>1, <3>3
  <2>7. JoinFindsGroup'
    <3> SUFFICES ASSUME NEW d \in Clients, pc'[d] = "joinAddr"
                 PROVE  \E i \in DOMAIN new : new[i].addr = arg'[d]
      BY <2>3 DEF JoinFindsGroup, GroupsAt, At
    <3>1. CASE d = c
      <4>1. arg'[d] = m_groupLast + 1
        BY <1>1, <3>1 DEF JoinName, TaskOK
      <4> QED
        BY <2>2, <4>1 DEF NewGroup
    <3>2. CASE d # c
      <4>1. pc[d] = "joinAddr" /\ arg'[d] = arg[d]
        BY <1>1, <3>2 DEF JoinName, TaskOK, Goto
      <4>2. PICK i \in DOMAIN m_groups : m_groups[i].addr = arg[d]
        BY <4>1 DEF JoinFindsGroup, GroupsAt, At
      <4>3. i + 1 \in DOMAIN new /\ new[i + 1].addr = arg'[d]
        BY <2>2, <4>1, <4>2
      <4> QED
        BY <4>3
    <3> QED
      BY <3>1, <3>2
  <2> QED
    BY <2>3, <2>5, <2>6, <2>7 DEF GroupsConsistent
<1>2. CASE GroupsNamed(n) # {}
  <2>1. UNCHANGED <<m_groups, m_groupLast>>
    BY <1>2 DEF JoinName
  <2>2. GroupsNamed(n) \subseteq DOMAIN m_groups
    BY DEF GroupsNamed
  <2>3. First(GroupsNamed(n)) \in DOMAIN m_groups
    BY <1>2, <2>2, GroupFound
  <2>4. \A d \in Clients : pc'[d] = "joinAddr" /\ d # c => pc[d] = "joinAddr" /\ arg'[d] = arg[d]
    BY <1>2 DEF JoinName, TaskOK, Goto
  <2>5. arg'[c] = m_groups[First(GroupsNamed(n))].addr
    BY <1>2 DEF JoinName, TaskOK
  <2> QED
    BY <2>1, <2>3, <2>4, <2>5 DEF GroupsConsistent, JoinFindsGroup, GroupsAt, At
<1> QED
  BY <1>1, <1>2

(* join(addr) and leave(addr) change a group's list, not the groups.        *)
LEMMA GroupMembers ==
  ASSUME TypeInv, GroupInv, NEW c \in Clients, JoinAddr(c) \/ LeaveAddr(c)
  PROVE  GroupInv'
<1> USE DEF TypeInv, TypeOK, RegistryOK
<1>1. m_groups' = m_groups
      \/ \E g \in DOMAIN m_groups : \E list :
           m_groups' = [m_groups EXCEPT ![g].destination = list]
  <2>1. GroupsAt(arg[c]) # {} => First(GroupsAt(arg[c])) \in DOMAIN m_groups
    <3>1. GroupsAt(arg[c]) \subseteq DOMAIN m_groups
      BY DEF GroupsAt
    <3> QED
      BY <3>1, GroupFound
  <2> QED
    BY <2>1 DEF JoinAddr, LeaveAddr
<1>2. SameGroups
  <2>1. \A i \in DOMAIN m_groups : m_groups[i] \in Group
    BY ElementOfSeq
  <2>2. ASSUME NEW g \in DOMAIN m_groups, NEW list,
               m_groups' = [m_groups EXCEPT ![g].destination = list]
        PROVE  SameGroups
    BY <2>1, <2>2 DEF SameGroups, Group
  <2>3. CASE m_groups' = m_groups
    BY <2>3 DEF SameGroups
  <2> QED
    BY <1>1, <2>2, <2>3
<1>3. m_groupLast' = m_groupLast
  BY DEF JoinAddr, LeaveAddr
<1>4. \A d \in Clients : pc'[d] = "joinAddr" => pc[d] = "joinAddr" /\ arg'[d] = arg[d]
  BY DEF JoinAddr, LeaveAddr, Goto, TaskOK
<1> QED
  BY <1>2, <1>3, <1>4, GroupsKept

(* Every step of every task preserves the group invariant.                  *)
LEMMA GroupNext ==
  ASSUME TypeInv, GroupInv, [Next]_vars
  PROVE  GroupInv'
<1> USE DEF TypeInv, TypeOK, TaskOK
<1> DEFINE Elsewhere ==
      /\ UNCHANGED <<m_groups, m_groupLast>>
      /\ \A d \in Clients : pc'[d] = "joinAddr" => pc[d] = "joinAddr" /\ arg'[d] = arg[d]
<1>1. CASE Elsewhere
  BY <1>1, GroupsKept DEF SameGroups
<1>2. CASE UNCHANGED vars
  BY <1>1, <1>2 DEF vars, registry, local
<1>3. ASSUME NEW c \in Clients, NEW n \in Names, JoinName(c, n) PROVE GroupInv'
  BY <1>3, GroupJoinName
<1>4. ASSUME NEW c \in Clients, JoinAddr(c) \/ LeaveAddr(c) PROVE GroupInv'
  BY <1>4, GroupMembers
<1>5. ASSUME NEW c \in Clients, NEW n \in Names, LeaveName(c, n) \/ SendName(c, n)
      PROVE  Elsewhere
  BY <1>5 DEF LeaveName, SendName, Goto, registry
<1>6. ASSUME NEW c \in Clients, NEW to, SendAddr(c, to) PROVE Elsewhere
  BY <1>6 DEF SendAddr, Goto, registry
<1>7. ASSUME NEW c \in Clients,
             \/ CreateQueue(c) \/ Reconnect(c) \/ Connect(c) \/ Disconnect(c) \/ Destroy(c)
             \/ Construct(c) \/ Drain(c) \/ Drained(c) \/ DeleteQueue(c)
      PROVE  Elsewhere
  BY <1>7 DEF CreateQueue, Reconnect, Connect, Disconnect, Destroy, Construct, Drain, Drained,
     DeleteQueue, Goto, registry, local
<1>8. ASSUME NEW c \in Clients,
             \/ BuildMsg(c) \/ ForwardDone(c) \/ ResolveNext(c) \/ Enqueue(c)
             \/ TryReceive(c) \/ FinishReceive(c)
      PROVE  Elsewhere
  BY <1>8 DEF BuildMsg, ForwardDone, ResolveNext, Enqueue, TryReceive, FinishReceive, Goto, registry
<1> HIDE DEF Elsewhere
<1> QED
  BY <1>1, <1>2, <1>3, <1>4, <1>5, <1>6, <1>7, <1>8 DEF Next, Begin, Proceed

(* The group invariant holds in every state the program reaches.            *)
LEMMA GroupAlways == Spec => []GroupInv
<1>1. TypeInv /\ GroupInv /\ [Next]_vars => GroupInv'
  BY GroupNext
<1> QED
  BY <1>1, GroupInit, TypeAlways, PTL DEF Spec

(* Whatever the tasks and however their joins interleave, a name has one    *)
(* group and the group addresses are 1 .. m_groupLast (Bus.cpp 86-107).     *)
THEOREM GroupSafety == Spec => []GroupsConsistent
<1>1. GroupInv => GroupsConsistent
  BY DEF GroupInv
<1> QED
  BY <1>1, GroupAlways, PTL

(* join(addr) always finds the group that join(name) looked up or added     *)
(* before it gave the mutex up, so it never builds a std::string from a     *)
(* null pointer (Bus.cpp 67-72, 86-107).                                    *)
THEOREM JoinSafety == Spec => []JoinFindsGroup
<1>1. GroupInv => JoinFindsGroup
  BY DEF GroupInv
<1> QED
  BY <1>1, GroupAlways, PTL

============================================================================
