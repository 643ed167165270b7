-------------------------------- MODULE Bus --------------------------------
(***************************************************************************)
(* The in-process message bus of components/bus: class Bus (registry of    *)
(* clients and groups behind one FreeRTOS mutex) and class IBusClient (one *)
(* message queue per client, chain delivery of a message along the         *)
(* destination list it carries).                                           *)
(*                                                                         *)
(* One task drives each client object.  A critical section that makes no   *)
(* call outside the registry is one step taken while the mutex is free;    *)
(* sendToNextClient, which resolves a queue and then sends to it, holds    *)
(* m_mutex over two steps.  Everything done without the mutex (creating,   *)
(* draining and deleting a queue, the name-to-address hand-over of join,   *)
(* leave and send) is a step of its own.                                   *)
(*                                                                         *)
(* A BusMsg* is an index into msgs, the sequence of all messages built so  *)
(* far; 0 is the null pointer.  Queues is the pool of heap blocks that     *)
(* xQueueCreate hands out, so that a deleted queue's handle can come back. *)
(***************************************************************************)
EXTENDS Integers, Sequences, FiniteSets

CONSTANTS
  Clients,      (* the IBusClient objects, each with the task driving it     *)
  Anchors,      (* clients connected before all others and never removed     *)
  Queues,       (* the queue handles xQueueCreate can return                 *)
  Names,        (* group names the application uses                          *)
  Usage,        (* which optional parts of the interface the application uses*)
  QueueLength,  (* MESSAGE_QUEUE_LENGTH                                      *)
  MaxConnects,  (* bound: addresses handed out                               *)
  MaxMsgs,      (* bound: messages built                                     *)
  MaxMembers,   (* bound: entries of a group's list                          *)
  NoQueue,      (* nullptr QueueHandle_t                                     *)
  Nobody        (* the mutex is free                                         *)

ASSUME BusAssumption ==
  /\ Anchors \subseteq Clients
  /\ NoQueue \notin Queues
  /\ Nobody \notin Clients
  /\ Usage \subseteq {"direct", "leave", "disconnect", "destroy"}
  /\ QueueLength \in Nat \ {0}
  /\ MaxConnects \in Nat
  /\ MaxMsgs \in Nat
  /\ MaxMembers \in Nat

VARIABLES
  m_mutex,      (* the task holding Bus::m_mutex, or Nobody                  *)
  m_clients,    (* Bus::m_clients, front first                               *)
  m_addrLast,   (* Bus::m_addrLast                                           *)
  m_groups,     (* Bus::m_groups, front first                                *)
  m_groupLast,  (* Bus::m_groupLast                                          *)
  m_queue,      (* IBusClient::m_queue                                       *)
  m_addr,       (* IBusClient::m_addr                                        *)
  live,         (* the queue handles that exist in FreeRTOS                  *)
  fifo,         (* the BusMsg pointers waiting in each queue                 *)
  pc,           (* where each task stands in a bus call                      *)
  ret,          (* where sendToNextClient returns to                         *)
  arg,          (* the BusAddr argument of the call in progress              *)
  out,          (* the BusMsg a task owns inside sendToNextClient            *)
  dest,         (* the queue sendToNextClient resolved                       *)
  hand,         (* the BusMsg a task owns inside receive()                   *)
  msgs,         (* the messages built so far                                 *)
  got,          (* history: pointers received by each client object          *)
  lost,         (* history: messages destroyed because a queue was full      *)
  undef         (* the program did something C++ leaves undefined            *)

registry == <<m_clients, m_addrLast, m_groups, m_groupLast>>
object   == <<m_queue, m_addr>>
heap     == <<live, fifo>>
local    == <<ret, arg, out, dest, hand>>
history  == <<got, lost>>
vars     == <<m_mutex, registry, object, heap, pc, local, msgs, history, undef>>

BusAddrInvalid == 0

PCs == {"idle", "connect", "joinAddr", "leaveAddr", "send", "forward",
        "enqueue", "drain", "delete", "dead"}

---------------------------------------------------------------------------
(* Lists.                                                                  *)

(* std::find_if: the first of a set of positions.                          *)
First(S) == CHOOSE i \in S : \A j \in S : i <= j

(* The last of a set of positions: lists are consumed from the back.       *)
Final(S) == CHOOSE i \in S : \A j \in S : j <= i

(* std::list::emplace_front.                                               *)
EmplaceFront(e, s) == <<e>> \o s

(* A slip: one element is taken off the back whether or not one matched.   *)
RemoveIfPopBack(s, gone) ==
  IF s = <<>> THEN s
  ELSE [p \in 1 .. Len(s) - 1 |->
          IF \E i \in gone : i <= p THEN s[p + 1] ELSE s[p]]

(* std::remove_if, its result discarded: the elements kept move up to the  *)
(* front in their order, the list keeps its length and the places behind   *)
(* them keep what they held.  gone is the set of positions to remove.      *)
RemoveIf(s, gone) ==
  LET kept    == DOMAIN s \ gone
      rank(i) == Cardinality({j \in kept : j <= i})
  IN  [p \in DOMAIN s |->
         IF \E i \in kept : rank(i) = p
         THEN s[CHOOSE i \in kept : rank(i) = p]
         ELSE s[p]]

ClientsAt(queue) == {i \in DOMAIN m_clients : m_clients[i].queue = queue}
GroupsAt(addr)   == {i \in DOMAIN m_groups : m_groups[i].addr = addr}
GroupsNamed(n)   == {i \in DOMAIN m_groups : m_groups[i].addrName = n}

(* Bus::resolve(addr), the places of a list that resolve, and              *)
(* Bus::destination(addr).                                                 *)
Resolvable(addr) == {i \in DOMAIN m_clients : m_clients[i].addr = addr}
Resolve(addr)    == m_clients[First(Resolvable(addr))].queue
Valid(list)      == {i \in DOMAIN list : Resolvable(list[i]) # {}}
Destination(addr) ==
  IF addr < 0 THEN <<addr>>
  ELSE IF GroupsAt(addr) # {} THEN m_groups[First(GroupsAt(addr))].destination
       ELSE <<>>

---------------------------------------------------------------------------
Init ==
  /\ m_mutex = Nobody
  /\ m_clients = <<>>
  /\ m_addrLast = BusAddrInvalid
  /\ m_groups = <<>>
  /\ m_groupLast = BusAddrInvalid
  /\ m_queue = [c \in Clients |-> NoQueue]
  /\ m_addr = [c \in Clients |-> BusAddrInvalid]
  /\ live = {}
  /\ fifo = [q \in Queues |-> <<>>]
  /\ pc = [c \in Clients |-> "idle"]
  /\ ret = [c \in Clients |-> "idle"]
  /\ arg = [c \in Clients |-> BusAddrInvalid]
  /\ out = [c \in Clients |-> 0]
  /\ dest = [c \in Clients |-> NoQueue]
  /\ hand = [c \in Clients |-> 0]
  /\ msgs = <<>>
  /\ got = [c \in Clients |-> <<>>]
  /\ lost = {}
  /\ undef = FALSE

At(c, label) == pc[c] = label
Goto(c, label) == pc' = [pc EXCEPT ![c] = label]

(* A lock guard over a whole critical section, and the end of one that     *)
(* spans two steps.  Slips: no guard; a guard that does not release.       *)
NoGuard  == TRUE
Unlocked == m_mutex = Nobody
KeepLocked == UNCHANGED m_mutex
Release    == m_mutex' = Nobody

(* The entry and the group that emplace_front constructs.  Slips: the      *)
(* counter is stepped after its value is taken.                            *)
NewClientPostStep(c) == [addr |-> m_addrLast, queue |-> m_queue[c]]
NewClient(c)         == [addr |-> m_addrLast - 1, queue |-> m_queue[c]]
NewGroupPostStep(n)  == [addr |-> m_groupLast, addrName |-> n, destination |-> <<>>]
NewGroup(n)          == [addr |-> m_groupLast + 1, addrName |-> n, destination |-> <<>>]

(* The bounds: calls under way count, so that no call is cut short.        *)
UnderWay(label) == Cardinality({c \in Clients : pc[c] = label})
MayConnect == UnderWay("connect") - m_addrLast < MaxConnects
MaySend == UnderWay("send") + Len(msgs) < MaxMsgs
MayJoin(c) ==
  \/ m_addr[c] = BusAddrInvalid
  \/ \A g \in DOMAIN m_groups :
       \/ \E i \in DOMAIN m_groups[g].destination : m_groups[g].destination[i] = m_addr[c]
       \/ Len(m_groups[g].destination) + UnderWay("joinAddr") < MaxMembers

---------------------------------------------------------------------------
(* IBusClient::initialize, first half.  The application connects its       *)
(* anchors first.  A failing xQueueCreate leaves the object as it was.     *)
CreateQueue(c) ==
  /\ At(c, "idle") /\ m_queue[c] = NoQueue
  /\ MayConnect
  /\ c \in Anchors \/ \A a \in Anchors : m_addr[a] # BusAddrInvalid
  /\ \E q \in Queues \ live :
       /\ live' = live \cup {q}
       /\ fifo' = [fifo EXCEPT ![q] = <<>>]
       /\ m_queue' = [m_queue EXCEPT ![c] = q]
  /\ Goto(c, "connect")
  /\ UNCHANGED <<m_mutex, registry, m_addr, local, msgs, history, undef>>

(* Bus::connect called by the application on a client that has its queue.  *)
Reconnect(c) ==
  /\ "disconnect" \in Usage
  /\ At(c, "idle") /\ m_queue[c] # NoQueue
  /\ MayConnect
  /\ Goto(c, "connect")
  /\ UNCHANGED <<m_mutex, registry, object, heap, local, msgs, history, undef>>

(* Bus::connect: a client whose queue is listed gets the listed address,   *)
(* any other one a new address and a new entry.                            *)
Connect(c) ==
  /\ At(c, "connect") /\ Unlocked
  /\ LET hits == ClientsAt(m_queue[c])
     IN  IF hits # {}
         THEN /\ m_addr' = [m_addr EXCEPT ![c] = m_clients[First(hits)].addr]
              /\ UNCHANGED <<m_clients, m_addrLast>>
         ELSE /\ m_addrLast' = m_addrLast - 1
              /\ m_addr' = [m_addr EXCEPT ![c] = m_addrLast']
              /\ m_clients' = EmplaceFront(NewClient(c), m_clients)
  /\ Goto(c, "idle")
  /\ UNCHANGED <<m_mutex, m_groups, m_groupLast, m_queue, heap, local, msgs, history, undef>>

(* Bus::disconnect, the part both callers share.  A slip: the entry stays. *)
UnregisterKeepEntry(c) ==
  /\ Unlocked
  /\ m_addr' = [m_addr EXCEPT ![c] = BusAddrInvalid]
  /\ UNCHANGED m_clients

Unregister(c) ==
  /\ Unlocked
  /\ m_clients' = RemoveIf(m_clients, ClientsAt(m_queue[c]))
  /\ m_addr' = [m_addr EXCEPT ![c] = BusAddrInvalid]

Disconnect(c) ==
  /\ "disconnect" \in Usage /\ c \notin Anchors
  /\ At(c, "idle") /\ m_queue[c] # NoQueue
  /\ Unregister(c)
  /\ UNCHANGED <<m_mutex, m_addrLast, m_groups, m_groupLast, m_queue, heap, pc, local,
                 msgs, history, undef>>

(* IBusClient::~IBusClient: disconnect, then drain the queue, handing each *)
(* message on to its next destination, then delete the queue.              *)
Destroy(c) ==
  /\ "destroy" \in Usage /\ c \notin Anchors
  /\ At(c, "idle") /\ hand[c] = 0 /\ m_queue[c] # NoQueue
  /\ Unregister(c)
  /\ Goto(c, "drain")
  /\ UNCHANGED <<m_mutex, m_addrLast, m_groups, m_groupLast, m_queue, heap, local, msgs,
                 history, undef>>

(* A slip: the drained message is dropped.                                 *)
DrainAndDrop(c) ==
  /\ At(c, "drain") /\ fifo[m_queue[c]] # <<>>
  /\ fifo' = [fifo EXCEPT ![m_queue[c]] = Tail(@)]
  /\ UNCHANGED <<m_mutex, registry, object, live, pc, local, msgs, history, undef>>

Drain(c) ==
  /\ At(c, "drain") /\ fifo[m_queue[c]] # <<>>
  /\ out' = [out EXCEPT ![c] = Head(fifo[m_queue[c]])]
  /\ fifo' = [fifo EXCEPT ![m_queue[c]] = Tail(@)]
  /\ ret' = [ret EXCEPT ![c] = "drain"]
  /\ Goto(c, "forward")
  /\ UNCHANGED <<m_mutex, registry, object, live, arg, dest, hand, msgs, history, undef>>

Drained(c) ==
  /\ At(c, "drain") /\ fifo[m_queue[c]] = <<>>
  /\ Goto(c, "delete")
  /\ UNCHANGED <<m_mutex, registry, object, heap, local, msgs, history, undef>>

(* vQueueDelete frees the queue's storage; pointers left in it are lost.   *)
(* A slip: the handle is kept.                                             *)
DeleteQueueKeepHandle(c) ==
  /\ At(c, "delete")
  /\ live' = live \ {m_queue[c]}
  /\ fifo' = [fifo EXCEPT ![m_queue[c]] = <<>>]
  /\ Goto(c, "dead")
  /\ UNCHANGED <<m_mutex, registry, object, local, msgs, history, undef>>

DeleteQueue(c) ==
  /\ At(c, "delete")
  /\ live' = live \ {m_queue[c]}
  /\ fifo' = [fifo EXCEPT ![m_queue[c]] = <<>>]
  /\ m_queue' = [m_queue EXCEPT ![c] = NoQueue]
  /\ Goto(c, "dead")
  /\ UNCHANGED <<m_mutex, registry, m_addr, local, msgs, history, undef>>

(* The application constructs a new object in place of a destroyed one.    *)
Construct(c) ==
  /\ At(c, "dead")
  /\ got' = [got EXCEPT ![c] = <<>>]
  /\ Goto(c, "idle")
  /\ UNCHANGED <<m_mutex, registry, object, heap, local, msgs, lost, undef>>

---------------------------------------------------------------------------
(* Bus::join(name): look the name up or add a group for it, unlock, then   *)
(* join by address.                                                        *)
JoinName(c, n) ==
  /\ At(c, "idle") /\ Unlocked
  /\ MayJoin(c)
  /\ IF GroupsNamed(n) = {}
     THEN /\ m_groupLast' = m_groupLast + 1
          /\ m_groups' = EmplaceFront(NewGroup(n), m_groups)
          /\ arg' = [arg EXCEPT ![c] = m_groupLast']
     ELSE /\ arg' = [arg EXCEPT ![c] = m_groups[First(GroupsNamed(n))].addr]
          /\ UNCHANGED <<m_groups, m_groupLast>>
  /\ Goto(c, "joinAddr")
  /\ UNCHANGED <<m_mutex, m_clients, m_addrLast, object, heap, ret, out, dest, hand,
                 msgs, history, undef>>

(* Bus::join(addr).  A group that is missing would be built from a null    *)
(* addrName, which std::string leaves undefined.                           *)
JoinAddr(c) ==
  /\ At(c, "joinAddr")
  /\ IF m_addr[c] >= BusAddrInvalid \/ arg[c] <= BusAddrInvalid
     THEN UNCHANGED <<m_groups, undef>>
     ELSE /\ Unlocked
          /\ IF GroupsAt(arg[c]) = {}
             THEN undef' = TRUE /\ UNCHANGED m_groups
             ELSE LET g       == First(GroupsAt(arg[c]))
                      members == m_groups[g].destination
                  IN  /\ m_groups' = IF \E i \in DOMAIN members : members[i] = m_addr[c]
                                     THEN m_groups
                                     ELSE [m_groups EXCEPT ![g].destination =
                                                EmplaceFront(m_addr[c], members)]
                      /\ UNCHANGED undef
  /\ arg' = [arg EXCEPT ![c] = BusAddrInvalid]
  /\ Goto(c, "idle")
  /\ UNCHANGED <<m_mutex, m_clients, m_addrLast, m_groupLast, object, heap, ret, out, dest,
                 hand, msgs, history>>

(* Bus::leave(name) and Bus::leave(addr), with the same hand-over.         *)
LeaveName(c, n) ==
  /\ "leave" \in Usage
  /\ At(c, "idle") /\ Unlocked
  /\ GroupsNamed(n) # {}
  /\ arg' = [arg EXCEPT ![c] = m_groups[First(GroupsNamed(n))].addr]
  /\ Goto(c, "leaveAddr")
  /\ UNCHANGED <<m_mutex, registry, object, heap, ret, out, dest, hand, msgs, history, undef>>

LeaveAddr(c) ==
  /\ At(c, "leaveAddr")
  /\ IF m_addr[c] >= BusAddrInvalid \/ arg[c] <= BusAddrInvalid
     THEN UNCHANGED m_groups
     ELSE /\ Unlocked
          /\ IF GroupsAt(arg[c]) = {}
             THEN UNCHANGED m_groups
             ELSE LET g       == First(GroupsAt(arg[c]))
                      members == m_groups[g].destination
                  IN  m_groups' = [m_groups EXCEPT ![g].destination =
                         RemoveIf(members, {i \in DOMAIN members : members[i] = m_addr[c]})]
  /\ arg' = [arg EXCEPT ![c] = BusAddrInvalid]
  /\ Goto(c, "idle")
  /\ UNCHANGED <<m_mutex, m_clients, m_addrLast, m_groupLast, object, heap, ret, out, dest,
                 hand, msgs, history, undef>>

---------------------------------------------------------------------------
(* IBusClient::send(name): the name is resolved under the mutex; the rest  *)
(* is send(addr).                                                          *)
SendName(c, n) ==
  /\ At(c, "idle") /\ Unlocked
  /\ MaySend
  /\ GroupsNamed(n) # {}
  /\ arg' = [arg EXCEPT ![c] = m_groups[First(GroupsNamed(n))].addr]
  /\ Goto(c, "send")
  /\ UNCHANGED <<m_mutex, registry, object, heap, ret, out, dest, hand, msgs, history, undef>>

(* IBusClient::send(addr) to a client address handed out at some time.     *)
SendAddr(c, to) ==
  /\ "direct" \in Usage
  /\ At(c, "idle")
  /\ MaySend
  /\ to \in m_addrLast .. -1
  /\ arg' = [arg EXCEPT ![c] = to]
  /\ Goto(c, "send")
  /\ UNCHANGED <<m_mutex, registry, object, heap, ret, out, dest, hand, msgs, history, undef>>

(* send(addr) goes on: the destination list is copied into a new BusMsg.   *)
(* Only a group's list needs the mutex.  targets is a history field.       *)
BuildMsg(c) ==
  /\ At(c, "send")
  /\ arg[c] < 0 \/ Unlocked
  /\ LET list == Destination(arg[c])
     IN  IF list = <<>>
         THEN /\ Goto(c, "idle")
              /\ UNCHANGED <<msgs, out>>
         ELSE /\ msgs' = Append(msgs, [from |-> m_addr[c], to |-> arg[c],
                                       destination |-> list, targets |-> list])
              /\ out' = [out EXCEPT ![c] = Len(msgs) + 1]
              /\ Goto(c, "forward")
  /\ arg' = [arg EXCEPT ![c] = BusAddrInvalid]
  /\ ret' = [ret EXCEPT ![c] = "idle"]
  /\ UNCHANGED <<m_mutex, registry, object, heap, dest, hand, history, undef>>

(* sendToNextClient: nothing left to do for the message.                   *)
ForwardDone(c) ==
  /\ At(c, "forward") /\ msgs[out[c]].destination = <<>>
  /\ out' = [out EXCEPT ![c] = 0]
  /\ Goto(c, ret[c])
  /\ UNCHANGED <<m_mutex, registry, object, heap, ret, arg, dest, hand, msgs, history, undef>>

(* What is left of a list once position i is popped, and what a queue      *)
(* holds once it took a pointer.  Slips: no pop; xQueueSendToFront.        *)
NotPopped(list, i) == SubSeq(list, 1, i)
Popped(list, i)    == SubSeq(list, 1, i - 1)
SentToFront(q, id) == <<id>> \o fifo[q]
Sent(q, id)        == Append(fifo[q], id)

(* sendToNextClient: take the mutex and pop destinations from the back     *)
(* until one resolves; without any, give the message up.                   *)
ResolveNext(c) ==
  /\ At(c, "forward") /\ msgs[out[c]].destination # <<>> /\ Unlocked
  /\ LET list == msgs[out[c]].destination
         hits == Valid(list)
     IN  IF hits = {}
         THEN /\ msgs' = [msgs EXCEPT ![out[c]].destination = <<>>]
              /\ out' = [out EXCEPT ![c] = 0]
              /\ Goto(c, ret[c])
              /\ UNCHANGED <<m_mutex, dest>>
         ELSE /\ msgs' = [msgs EXCEPT ![out[c]].destination = Popped(list, Final(hits))]
              /\ dest' = [dest EXCEPT ![c] = Resolve(list[Final(hits)])]
              /\ m_mutex' = c
              /\ Goto(c, "enqueue")
              /\ UNCHANGED out
  /\ UNCHANGED <<registry, object, heap, ret, arg, hand, history, undef>>

(* Slips: the pointer sent stays in the unique_ptr, which destroys the     *)
(* message; a full queue is tried again for as long as it takes.           *)
EnqueueWithoutRelease(c) ==
  /\ At(c, "enqueue") /\ dest[c] \in live
  /\ fifo' = IF Len(fifo[dest[c]]) < QueueLength
             THEN [fifo EXCEPT ![dest[c]] = Sent(dest[c], out[c])] ELSE fifo
  /\ lost' = lost \cup {out[c]}
  /\ out' = [out EXCEPT ![c] = 0]
  /\ dest' = [dest EXCEPT ![c] = NoQueue]
  /\ Release
  /\ Goto(c, ret[c])
  /\ UNCHANGED <<registry, object, live, ret, arg, hand, msgs, got, undef>>

EnqueueOrRetry(c) ==
  /\ At(c, "enqueue") /\ dest[c] \in live
  /\ IF Len(fifo[dest[c]]) < QueueLength
     THEN /\ fifo' = [fifo EXCEPT ![dest[c]] = Sent(dest[c], out[c])]
          /\ out' = [out EXCEPT ![c] = 0]
          /\ dest' = [dest EXCEPT ![c] = NoQueue]
          /\ Release
          /\ Goto(c, ret[c])
     ELSE UNCHANGED <<fifo, out, dest, m_mutex, pc>>
  /\ UNCHANGED <<registry, object, live, ret, arg, hand, msgs, history, undef>>

(* sendToNextClient: xQueueSend without waiting, then unlock.  A full      *)
(* queue destroys the message with all its remaining destinations.  A      *)
(* handle that was deleted is undefined behaviour.                         *)
Enqueue(c) ==
  /\ At(c, "enqueue")
  /\ IF dest[c] \notin live
     THEN undef' = TRUE /\ UNCHANGED <<fifo, lost>>
     ELSE /\ UNCHANGED undef
          /\ IF Len(fifo[dest[c]]) < QueueLength
             THEN fifo' = [fifo EXCEPT ![dest[c]] = Sent(dest[c], out[c])] /\ UNCHANGED lost
             ELSE lost' = lost \cup {out[c]} /\ UNCHANGED fifo
  /\ out' = [out EXCEPT ![c] = 0]
  /\ dest' = [dest EXCEPT ![c] = NoQueue]
  /\ Release
  /\ Goto(c, ret[c])
  /\ UNCHANGED <<registry, object, live, ret, arg, hand, msgs, got>>

(* IBusClient::tryReceive up to the call of receive(): while hand holds    *)
(* the message the client's handler runs and may use the bus itself.       *)
TryReceive(c) ==
  /\ At(c, "idle") /\ hand[c] = 0
  /\ m_queue[c] # NoQueue /\ fifo[m_queue[c]] # <<>>
  /\ hand' = [hand EXCEPT ![c] = Head(fifo[m_queue[c]])]
  /\ fifo' = [fifo EXCEPT ![m_queue[c]] = Tail(@)]
  /\ got' = [got EXCEPT ![c] = Append(@, Head(fifo[m_queue[c]]))]
  /\ UNCHANGED <<m_mutex, registry, object, live, pc, ret, arg, out, dest, msgs, lost, undef>>

(* receive() returned: tryReceive hands the message on.                    *)
FinishReceive(c) ==
  /\ At(c, "idle") /\ hand[c] # 0
  /\ out' = [out EXCEPT ![c] = hand[c]]
  /\ hand' = [hand EXCEPT ![c] = 0]
  /\ ret' = [ret EXCEPT ![c] = "idle"]
  /\ Goto(c, "forward")
  /\ UNCHANGED <<m_mutex, registry, object, heap, arg, dest, msgs, history, undef>>

---------------------------------------------------------------------------
(* The steps that carry a call already begun to its end.                   *)
Proceed(c) ==
  \/ Connect(c) \/ JoinAddr(c) \/ LeaveAddr(c) \/ BuildMsg(c)
  \/ ForwardDone(c) \/ ResolveNext(c) \/ Enqueue(c)
  \/ Drain(c) \/ Drained(c) \/ DeleteQueue(c)

(* The calls the application may begin.                                    *)
Begin(c) ==
  \/ CreateQueue(c) \/ Reconnect(c) \/ Disconnect(c) \/ Destroy(c) \/ Construct(c)
  \/ \E n \in Names : JoinName(c, n) \/ LeaveName(c, n) \/ SendName(c, n)
  \/ \E to \in m_addrLast .. -1 : SendAddr(c, to)

(* After undefined behaviour nothing more is said of the program.          *)
Next ==
  /\ ~undef
  /\ \E c \in Clients : Begin(c) \/ Proceed(c) \/ TryReceive(c) \/ FinishReceive(c)

Spec == Init /\ [][Next]_vars

(* A task finishes the bus call it is in, a handler returns, and a task    *)
(* whose queue holds something comes back to tryReceive again and again.   *)
(* The last two are intermittent: the application makes other calls too.   *)
Fairness ==
  \A c \in Clients :
    WF_vars(Proceed(c)) /\ SF_vars(TryReceive(c)) /\ SF_vars(FinishReceive(c))

FairSpec == Spec /\ Fairness

---------------------------------------------------------------------------
Elements(s) == {s[i] : i \in DOMAIN s}
Distinct(s) == \A i, j \in DOMAIN s : s[i] = s[j] => i = j

Connected(c) == m_queue[c] # NoQueue /\ m_addr[c] # BusAddrInvalid

(* The places a pointer is owned at: a queue's slot, a task inside         *)
(* sendToNextClient, a task inside receive().                              *)
Owners(id) ==
     (UNION {{<<"queue", q, i>> : i \in {j \in DOMAIN fifo[q] : fifo[q][j] = id}} : q \in live})
  \cup {<<"out", c>> : c \in {d \in Clients : out[d] = id}}
  \cup {<<"hand", c>> : c \in {d \in Clients : hand[d] = id}}

InFlight(id) == Owners(id) # {}

(* Every variable holds a value of its type; a client's queue exists, no   *)
(* queue holds more than it was created for, and a pointer is to a message *)
(* that was built.                                                         *)
Client  == [addr : Int, queue : Queues]
Group   == [addr : Int, addrName : Names, destination : Seq(Int)]
Message == [from : Int, to : Int, destination : Seq(Int), targets : Seq(Int)]

RegistryOK ==
  /\ m_clients \in Seq(Client)
  /\ m_addrLast \in Int /\ m_addrLast <= 0
  /\ m_groups \in Seq(Group)
  /\ m_groupLast \in Nat

ObjectOK ==
  /\ m_queue \in [Clients -> Queues \cup {NoQueue}]
  /\ m_addr \in [Clients -> Int]
  /\ \A c \in Clients : m_queue[c] # NoQueue => m_queue[c] \in live

HeapOK ==
  /\ live \subseteq Queues
  /\ fifo \in [Queues -> Seq(Nat)]
  /\ \A q \in Queues : Len(fifo[q]) <= QueueLength
  /\ \A q \in Queues : \A i \in DOMAIN fifo[q] : fifo[q][i] \in DOMAIN msgs

TaskOK ==
  /\ m_mutex \in Clients \cup {Nobody}
  /\ pc \in [Clients -> PCs]
  /\ ret \in [Clients -> {"idle", "drain"}]
  /\ arg \in [Clients -> Int]
  /\ out \in [Clients -> 0 .. Len(msgs)] /\ hand \in [Clients -> 0 .. Len(msgs)]
  /\ dest \in [Clients -> Queues \cup {NoQueue}]

MessageOK ==
  /\ msgs \in Seq(Message)
  /\ got \in [Clients -> Seq(Nat)]
  /\ lost \subseteq Nat
  /\ undef \in BOOLEAN

TypeOK == RegistryOK /\ ObjectOK /\ HeapOK /\ TaskOK /\ MessageOK

---------------------------------------------------------------------------
(* Safety.                                                                 *)

(* Between resolving a queue and sending to it, the queue is not deleted   *)
(* by its owner's destructor (Bus.cpp 255-275 against 196-208).            *)
ResolvesValidQueue == \A c \in Clients : At(c, "enqueue") => dest[c] \in live

(* join(name) gives the mutex up between finding or adding the group and   *)
(* joining it by address; the group is still there when it does, so the    *)
(* branch of join(addr) that builds a nameless group is never taken        *)
(* (Bus.cpp 67-72 and 86-107).                                             *)
JoinFindsGroup == \A c \in Clients : At(c, "joinAddr") => GroupsAt(arg[c]) # {}

(* However join(name) calls interleave, a name has one group and a group   *)
(* address one name, and the addresses are exactly 1 .. m_groupLast.       *)
GroupsConsistent ==
  /\ \A i, j \in DOMAIN m_groups :
       m_groups[i].addr = m_groups[j].addr \/ m_groups[i].addrName = m_groups[j].addrName
          => i = j
  /\ {m_groups[i].addr : i \in DOMAIN m_groups} = 1 .. m_groupLast

(* Two entries of m_clients agree on the address exactly when they agree   *)
(* on the queue, whatever remove_if leaves behind (Bus.cpp 26-58): an      *)
(* address never leads to the queue of another client's entry.             *)
AddressesConsistent ==
  /\ \A i, j \in DOMAIN m_clients :
       m_clients[i].addr = m_clients[j].addr <=> m_clients[i].queue = m_clients[j].queue
  /\ \A i \in DOMAIN m_clients : m_clients[i].addr \in m_addrLast .. -1

(* A client that believes it is connected can be reached: its address      *)
(* resolves to its own queue.                                              *)
ConnectedIsRoutable ==
  \A c \in Clients : m_addr[c] # BusAddrInvalid =>
     Resolvable(m_addr[c]) # {} /\ Resolve(m_addr[c]) = m_queue[c]

(* A client that is about to connect with a queue already listed is indeed *)
(* "already connected" (Bus.cpp 36-37), not another object that was given  *)
(* the handle of a deleted queue.                                          *)
ListedIsConnected ==
  \A c \in Clients : At(c, "connect") /\ ClientsAt(m_queue[c]) # {} =>
     m_addr[c] # BusAddrInvalid

(* A BusMsg has one owner at a time; one without an owner was destroyed    *)
(* because a queue was full or has no destination left, so deleting a      *)
(* queue leaks nothing (the unique_ptr of Bus.cpp 196-275 across tasks).   *)
SingleOwner ==
  /\ \A id \in DOMAIN msgs :
       /\ Cardinality(Owners(id)) <= 1
       /\ id \in lost => Owners(id) = {}
       /\ Owners(id) = {} => id \in lost \/ msgs[id].destination = <<>>
  /\ \A c \in Clients : At(c, "delete") => fifo[m_queue[c]] = <<>>

(* A message is received at most once by a client.                         *)
AtMostOnce == \A c \in Clients : Distinct(got[c])

(* The queue a message is about to enter belongs to a client it was sent   *)
(* to: one whose address, or whose group's, it carried when it was built.  *)
OnlyTargetsReceive ==
  \A c \in Clients : At(c, "enqueue") =>
    \E d \in Clients :
      m_queue[d] = dest[c] /\ m_addr[d] \in Elements(msgs[out[c]].targets)

(* Two messages of one sender to one address arrive in the order sent,     *)
(* although each travels from member to member on its own.                 *)
FifoPerGroup ==
  \A c \in Clients : \A i, j \in DOMAIN got[c] :
    LET a == got[c][i]
        b == got[c][j]
    IN  /\ i < j
        /\ msgs[a].from = msgs[b].from /\ msgs[a].to = msgs[b].to
        /\ msgs[a].from # BusAddrInvalid
        => a < b

(* Once a message is on its way no more and was not destroyed by a full    *)
(* queue, every target that is still connected has received it, in spite   *)
(* of other targets that went away while they held it.                     *)
NoSilentLoss ==
  \A id \in DOMAIN msgs : ~InFlight(id) /\ id \notin lost =>
    \A c \in Clients :
      Connected(c) /\ m_addr[c] \in Elements(msgs[id].targets) => id \in Elements(got[c])

(* A task that holds the mutex is the one inside sendToNextClient, so no   *)
(* call path takes the mutex twice.                                        *)
MutexHeld == \A c \in Clients : At(c, "enqueue") <=> m_mutex = c

---------------------------------------------------------------------------
(* Action properties.                                                      *)

(* This step takes a connected client off the list of group i.             *)
Drops(c, i) ==
  /\ m_addr[c] # BusAddrInvalid
  /\ m_addr[c] \in Elements(m_groups[i].destination)
  /\ ~\E j \in DOMAIN m_groups' :
        /\ m_groups'[j].addr = m_groups[i].addr
        /\ m_addr[c] \in Elements(m_groups'[j].destination)

(* A connected client disappears from a group's list only by its own       *)
(* leave: no other task's join, leave or disconnect takes it away.         *)
OnlyOwnerUnsubscribes ==
  [][\A c \in Clients, i \in DOMAIN m_groups : Drops(c, i) => At(c, "leaveAddr")]_vars

(* A client that becomes connected gets an address that nobody, dead or    *)
(* alive, had before it.                                                   *)
FreshAddress ==
  [][\A c \in Clients :
       m_addr[c] = BusAddrInvalid /\ m_addr'[c] # BusAddrInvalid => m_addr'[c] < m_addrLast]_vars

---------------------------------------------------------------------------
(* Liveness.                                                               *)

(* A message stops travelling.                                             *)
Settles == \A id \in 1 .. MaxMsgs : InFlight(id) ~> ~InFlight(id)

(* A call of the bus returns: the mutex is always given back.              *)
CallsReturn == \A c \in Clients : ~At(c, "idle") /\ ~At(c, "dead") ~> At(c, "idle") \/ At(c, "dead")

============================================================================
