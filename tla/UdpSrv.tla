------------------------------- MODULE UdpSrv -------------------------------
(***************************************************************************)
(* The UDP server: run(), driven by udp_srv_task of main.cpp, receives     *)
(* announcements of peers and keeps them in g_clients; sendData(), called  *)
(* by the main task, sends to each of them.  The two tasks share g_sock    *)
(* and g_clients and nothing guards either, so every access that a call of *)
(* the network stack separates from the next one is a step of its own.     *)
(***************************************************************************)
EXTENDS Events, Integers, FiniteSets, SequencesExt

CONSTANTS
  Peers,           (* the peers: records of addr and port                      *)
  Garbage,         (* what an uninitialised sockaddr_in may hold besides them  *)
  Descriptors,     (* the descriptors socket() can return                      *)
  PortAtCreation,  (* a socket that has sent nothing can be sent to            *)
  MaxClients,      (* bound: entries of g_clients                              *)
  MaxWaiting       (* bound: datagrams waiting in a socket                     *)

Address == [addr : Nat, port : Nat]

ASSUME UdpSrvAssumption ==
  /\ Peers \subseteq Address
  /\ Garbage \subseteq Address
  /\ Descriptors \subseteq Nat
  /\ PortAtCreation \in BOOLEAN
  /\ MaxClients \in Nat
  /\ MaxWaiting \in Nat

VARIABLES
  g_sock,     (* the descriptor, or -1                                        *)
  g_clients,  (* std::set<ClientInfo>, in the order of its iterator           *)
  rx_id,      (* the message id that rx_buffer holds                          *)
  sockets,    (* the sockets open in the network stack                        *)
  port,       (* whether a socket has a port to receive on                    *)
  inbox,      (* the datagrams waiting in a socket                            *)
  pc,         (* where the two tasks are                                      *)
  ret,        (* where close_socket returns to                                *)
  fd,         (* the descriptor recvfrom was called with                      *)
  iter,       (* sendData's iterator: a place in g_clients                    *)
  begun,      (* history: the clients there were when sendData began          *)
  sent,       (* history: the clients sendData has sent to                    *)
  announced   (* history: the peers whose announcement run() handled          *)

shared  == <<g_sock, g_clients>>
stack   == <<sockets, port, inbox>>
sending == <<iter, begun, sent>>
server  == <<shared, rx_id, stack, pc, ret, fd, sending, announced>>

Tasks == {"udp", "main"}
PCs   == {"wait", "open", "receive", "blocked", "timer", "idle", "send",
          "check", "close", "reset"}
Kinds == {"discovery", "cut", "short", "other"}

ServerInit ==
  /\ g_sock = -1
  /\ g_clients = <<>>
  /\ rx_id = "other"
  /\ sockets = {}
  /\ port = [s \in Descriptors |-> FALSE]
  /\ inbox = [s \in Descriptors |-> <<>>]
  /\ pc = [t \in Tasks |-> IF t = "udp" THEN "wait" ELSE "idle"]
  /\ ret = [t \in Tasks |-> "idle"]
  /\ fd = -1
  /\ iter = 1
  /\ begun = {} /\ sent = {} /\ announced = {}

At(t, label) == pc[t] = label
Goto(t, label) == pc' = [pc EXCEPT ![t] = label]

---------------------------------------------------------------------------
(* g_clients.                                                              *)

(* ClientInfo::operator<.  A slip: both have to be smaller.                *)
LessInBoth(a, b) == a.addr < b.addr /\ a.port < b.port
Less(a, b)       == a.addr < b.addr \/ a.port < b.port

(* The places where the search down the tree for a new element can end:    *)
(* behind an element it is not less than, before one it is less than.      *)
(* With an operator that is no strict weak ordering there may be several,  *)
(* and the shape of the tree decides.                                      *)
Places(new) ==
  {p \in 1 .. Len(g_clients) + 1 :
     /\ p <= Len(g_clients) => Less(new, g_clients[p])
     /\ p > 1 => ~Less(new, g_clients[p - 1])}

(* std::set::emplace: inserted unless the element before the place is not  *)
(* less than the new one.  An iterator stays with its element.             *)
Emplace(new) ==
  \E p \in Places(new) :
    IF p = 1 \/ Less(g_clients[p - 1], new)
    THEN /\ Len(g_clients) < MaxClients
         /\ g_clients' = InsertAt(g_clients, p, new)
         /\ iter' = IF p <= iter THEN iter + 1 ELSE iter
    ELSE UNCHANGED <<g_clients, iter>>

---------------------------------------------------------------------------
(* close_socket, called by either task.                                    *)
Close(t, returnTo) ==
  /\ Goto(t, "check")
  /\ ret' = [ret EXCEPT ![t] = returnTo]

CloseCheck(t) ==
  /\ At(t, "check")
  /\ Goto(t, IF g_sock < 0 THEN ret[t] ELSE "close")
  /\ UNCHANGED <<shared, rx_id, stack, ret, fd, sending, announced>>

(* shutdown and close of whatever g_sock is by now.                        *)
CloseSocket(t) ==
  /\ At(t, "close")
  /\ sockets' = sockets \ {g_sock}
  /\ inbox' = [s \in Descriptors |-> IF s = g_sock THEN <<>> ELSE inbox[s]]
  /\ Goto(t, "reset")
  /\ UNCHANGED <<shared, rx_id, port, ret, fd, sending, announced>>

(* A slip: the clients are forgotten along with the socket.                *)
CloseResetForget(t) ==
  /\ At(t, "reset")
  /\ g_sock' = -1
  /\ g_clients' = <<>>
  /\ Goto(t, ret[t])
  /\ UNCHANGED <<rx_id, stack, ret, fd, sending, announced>>

CloseReset(t) ==
  /\ At(t, "reset")
  /\ g_sock' = -1
  /\ Goto(t, ret[t])
  /\ UNCHANGED <<g_clients, rx_id, stack, ret, fd, sending, announced>>

---------------------------------------------------------------------------
(* The UDP task.                                                           *)

UdpWait ==
  /\ At("udp", "wait") /\ wait_wifi_connection
  /\ Goto("udp", "open")
  /\ UNCHANGED <<shared, rx_id, stack, ret, fd, sending, announced>>

(* open_socket: the stack gives the least free descriptor, or none.        *)
OpenSocket ==
  /\ At("udp", "open")
  /\ \/ \E s \in Descriptors \ sockets :
          /\ \A r \in Descriptors \ sockets : s <= r
          /\ g_sock' = s
          /\ sockets' = sockets \cup {s}
          /\ port' = [port EXCEPT ![s] = PortAtCreation]
          /\ Goto("udp", "receive")
     \/ /\ g_sock' = -1
        /\ Goto("udp", "wait")
        /\ UNCHANGED <<sockets, port>>
  /\ UNCHANGED <<g_clients, rx_id, inbox, ret, fd, sending, announced>>

(* recvfrom is called with the value g_sock has now.                       *)
Receive ==
  /\ At("udp", "receive") /\ g_sock \in sockets
  /\ fd' = g_sock
  /\ Goto("udp", "blocked")
  /\ UNCHANGED <<shared, rx_id, stack, ret, sending, announced>>

(* recvfrom returns -1, at once or because the socket was closed under it. *)
(* sizeof(MsgIdType) > len compares -1 as the largest unsigned number, so  *)
(* run() takes it for a datagram: it looks at what rx_buffer and           *)
(* sourceAddr happen to hold.                                              *)
ReceiveFails ==
  /\ \/ At("udp", "receive") /\ g_sock \notin sockets
     \/ At("udp", "blocked") /\ fd \notin sockets
  /\ IF rx_id = "discovery"
     THEN \E from \in Peers \cup Garbage : Emplace(from)
     ELSE UNCHANGED <<g_clients, iter>>
  /\ Goto("udp", "timer")
  /\ UNCHANGED <<g_sock, rx_id, stack, ret, fd, begun, sent, announced>>

Take(datagram) ==
  /\ At("udp", "blocked") /\ fd \in sockets
  /\ inbox[fd] # <<>> /\ datagram = Head(inbox[fd])
  /\ inbox' = [inbox EXCEPT ![fd] = Tail(@)]

(* A whole announcement, and a message run() does not know.                *)
HandleDiscovery(datagram) ==
  /\ datagram.kind = "discovery" /\ Take(datagram)
  /\ rx_id' = "discovery"
  /\ Emplace(datagram.from)
  /\ announced' = announced \cup {datagram.from}
  /\ Goto("udp", "timer")
  /\ UNCHANGED <<g_sock, sockets, port, ret, fd, begun, sent>>

HandleOther(datagram) ==
  /\ datagram.kind = "other" /\ Take(datagram)
  /\ rx_id' = "other"
  /\ Goto("udp", "timer")
  /\ UNCHANGED <<shared, sockets, port, ret, fd, sending, announced>>

(* A datagram too short for an id, which overwrites the one in the buffer  *)
(* in part, or an announcement that is cut off: run() closes and returns.  *)
HandleShort(datagram) ==
  /\ datagram.kind \in {"short", "cut"} /\ Take(datagram)
  /\ IF datagram.kind = "cut" THEN rx_id' = "discovery" ELSE rx_id' \in {rx_id, "other"}
  /\ Close("udp", "wait")
  /\ UNCHANGED <<shared, sockets, port, fd, sending, announced>>

(* The end of run()'s loop: when the time has come the device announces    *)
(* itself, and a failure to send closes the socket.  Sending gives a       *)
(* socket its port.                                                        *)
NotYet ==
  /\ At("udp", "timer")
  /\ Goto("udp", "receive")
  /\ UNCHANGED <<shared, rx_id, stack, ret, fd, sending, announced>>

SendDiscovery ==
  /\ At("udp", "timer") /\ g_sock \in sockets
  /\ port' = [port EXCEPT ![g_sock] = TRUE]
  /\ Goto("udp", "receive")
  /\ UNCHANGED <<shared, rx_id, sockets, inbox, ret, fd, sending, announced>>

SendDiscoveryFails ==
  /\ At("udp", "timer")
  /\ Close("udp", "receive")
  /\ UNCHANGED <<shared, rx_id, stack, fd, sending, announced>>

---------------------------------------------------------------------------
(* The main task: sendData.                                                *)

SendData ==
  /\ At("main", "idle") /\ g_sock >= 0
  /\ iter' = 1
  /\ begun' = ToSet(g_clients)
  /\ sent' = {}
  /\ Goto("main", "send")
  /\ UNCHANGED <<shared, rx_id, stack, ret, fd, announced>>

SendNext ==
  /\ At("main", "send") /\ iter <= Len(g_clients) /\ g_sock \in sockets
  /\ sent' = sent \cup {g_clients[iter]}
  /\ port' = [port EXCEPT ![g_sock] = TRUE]
  /\ iter' = iter + 1
  /\ UNCHANGED <<shared, rx_id, sockets, inbox, pc, ret, fd, begun, announced>>

(* A slip: the client that cannot be reached is skipped.                   *)
SendFailsSkip ==
  /\ At("main", "send") /\ iter <= Len(g_clients)
  /\ iter' = iter + 1
  /\ UNCHANGED <<shared, rx_id, stack, pc, ret, fd, begun, sent, announced>>

SendFails ==
  /\ At("main", "send") /\ iter <= Len(g_clients)
  /\ Close("main", "idle")
  /\ UNCHANGED <<shared, rx_id, stack, fd, sending, announced>>

(* sendData returns true.                                                  *)
SendDone ==
  /\ At("main", "send") /\ iter > Len(g_clients)
  /\ Goto("main", "idle")
  /\ UNCHANGED <<shared, rx_id, stack, ret, fd, sending, announced>>

---------------------------------------------------------------------------
(* The network: a datagram arrives at a socket that has a port.            *)
Arrive(s, datagram) ==
  /\ s \in sockets /\ port[s] /\ Len(inbox[s]) < MaxWaiting
  /\ inbox' = [inbox EXCEPT ![s] = Append(@, datagram)]
  /\ UNCHANGED <<shared, rx_id, sockets, port, pc, ret, fd, sending, announced>>

Datagrams == [from : Peers, kind : Kinds]

UdpTask ==
  \/ UdpWait \/ OpenSocket \/ Receive \/ ReceiveFails
  \/ \E d \in Datagrams : HandleDiscovery(d) \/ HandleOther(d) \/ HandleShort(d)
  \/ NotYet \/ SendDiscovery \/ SendDiscoveryFails
  \/ CloseCheck("udp") \/ CloseSocket("udp") \/ CloseReset("udp")

MainTask ==
  \/ SendData \/ SendNext \/ SendFails \/ SendDone
  \/ CloseCheck("main") \/ CloseSocket("main") \/ CloseReset("main")

ServerNext ==
  /\ UdpTask \/ MainTask \/ \E s \in Descriptors, d \in Datagrams : Arrive(s, d)
  /\ UNCHANGED bit

(* What the event task does to the bit.                                    *)
Wifi == (set_bit \/ clear_bit) /\ UNCHANGED server

Init == ServerInit /\ bit = FALSE
Next == ServerNext \/ Wifi
Spec == Init /\ [][Next]_<<server, bit>>

(* The tasks run; a call of the network stack returns, also a recvfrom     *)
(* whose socket is closed under it; the stack has a socket now and then.   *)
ServerFairness ==
  /\ WF_<<server, bit>>(UdpTask /\ UNCHANGED bit)
  /\ SF_<<server, bit>>(OpenSocket /\ g_sock' >= 0 /\ UNCHANGED bit)
  /\ WF_<<server, bit>>(MainTask /\ UNCHANGED bit)

FairSpec == Spec /\ ServerFairness

---------------------------------------------------------------------------
(* Every variable holds a value of its type; the iterator of a call of     *)
(* sendData is at a client or at the end.                                  *)
ServerOK ==
  /\ g_sock \in Descriptors \cup {-1}
  /\ g_clients \in Seq(Address)
  /\ rx_id \in {"discovery", "other"}
  /\ sockets \subseteq Descriptors
  /\ port \in [Descriptors -> BOOLEAN]
  /\ inbox \in [Descriptors -> Seq(Datagrams)]
  /\ pc \in [Tasks -> PCs] /\ ret \in [Tasks -> {"wait", "receive", "idle"}]
  /\ fd \in Descriptors \cup {-1}
  /\ iter \in 1 .. MaxClients + 1
  /\ At("main", "send") => iter <= Len(g_clients) + 1
  /\ begun \subseteq Address /\ sent \subseteq Address /\ announced \subseteq Peers

(* When sendData has come to the end of g_clients, and so returns true, it *)
(* has sent to every client there was when it began, although run() adds   *)
(* clients and closes and opens sockets meanwhile (UdpSrv.cpp 158-178).    *)
SentToAll ==
  At("main", "send") /\ iter > Len(g_clients) => begun \subseteq sent

(* A peer whose announcement was handled stays a client, although the      *)
(* ordering of the set is none (UdpSrv.cpp 47-52, 143).                    *)
Remembered == announced \subseteq ToSet(g_clients)

(* A socket that was closed is opened again while the station is connected *)
(* ("Shutting down socket and restarting...", UdpSrv.cpp 70).              *)
Restarts == <>[]bit => (g_sock < 0 ~> g_sock >= 0)

============================================================================
