---------------------------- MODULE NetioProofs ----------------------------
(* What holds of the UDP server and of the Wi-Fi station for any peers,     *)
(* garbage, descriptors and bounds, alone and together.                     *)
EXTENDS Netio, SequenceTheorems, TLAPS

(* Inserting at a place moves what is at the place and behind it by one.    *)
LEMMA InsertAtType ==
  ASSUME NEW S, NEW s \in Seq(S), NEW e \in S, NEW p \in 1 .. Len(s) + 1
  PROVE  /\ InsertAt(s, p, e) \in Seq(S)
         /\ Len(InsertAt(s, p, e)) = Len(s) + 1
         /\ InsertAt(s, p, e)[p] = e
         /\ \A i \in 1 .. p - 1 : InsertAt(s, p, e)[i] = s[i]
         /\ \A i \in p .. Len(s) : InsertAt(s, p, e)[i + 1] = s[i]
<1> DEFINE front == SubSeq(s, 1, p - 1)
           back  == SubSeq(s, p, Len(s))
           init  == front \o <<e>>
<1>1. front \in Seq(S) /\ Len(front) = p - 1 /\ \A i \in 1 .. p - 1 : front[i] = s[i]
  OBVIOUS
<1>2. back \in Seq(S) /\ Len(back) = Len(s) - p + 1
      /\ \A i \in 1 .. Len(s) - p + 1 : back[i] = s[p + i - 1]
  OBVIOUS
<1> HIDE DEF front, back
<1>3. init \in Seq(S) /\ Len(init) = p /\ init[p] = e /\ \A i \in 1 .. p - 1 : init[i] = s[i]
  <2>1. init \in Seq(S)
    BY <1>1
  <2>2. Len(init) = p
    BY <1>1
  <2>3. init[p] = e
    BY <1>1
  <2>4. \A i \in 1 .. p - 1 : init[i] = front[i]
    BY <1>1
  <2> QED
    BY <1>1, <2>1, <2>2, <2>3, <2>4
<1> HIDE DEF init
<1>4. InsertAt(s, p, e) = init \o back
  BY DEF InsertAt, init, front, back
<1>5. /\ init \o back \in Seq(S) /\ Len(init \o back) = Len(s) + 1
      /\ \A i \in 1 .. p : (init \o back)[i] = init[i]
      /\ \A i \in p + 1 .. Len(s) + 1 : (init \o back)[i] = back[i - p]
  <2>1. init \o back \in Seq(S)
    BY <1>2, <1>3
  <2>2. Len(init \o back) = Len(s) + 1
    <3>1. Len(init \o back) = Len(init) + Len(back)
      BY <1>2, <1>3, ConcatProperties
    <3>2. Len(s) \in Nat
      OBVIOUS
    <3> QED
      BY <1>2, <1>3, <3>1, <3>2
  <2>3. \A i \in 1 .. Len(s) + 1 : (init \o back)[i] = IF i <= p THEN init[i] ELSE back[i - p]
    BY <1>2, <1>3, ConcatProperties
  <2> QED
    BY <2>1, <2>2, <2>3
<1>6. \A i \in p .. Len(s) : (init \o back)[i + 1] = s[i]
  <2> TAKE i \in p .. Len(s)
  <2>1. (init \o back)[i + 1] = back[i + 1 - p] /\ i + 1 - p \in 1 .. Len(s) - p + 1
    BY <1>5
  <2> QED
    BY <1>2, <2>1
<1> QED
  BY <1>3, <1>4, <1>5, <1>6

---------------------------------------------------------------------------
(* The UDP server.  ServerOK with what it needs to be inductive: the list   *)
(* is within its bound and the iterator within the list, also between two   *)
(* calls of sendData.                                                       *)
ServerTyped ==
  /\ ServerOK
  /\ Len(g_clients) <= MaxClients
  /\ iter <= Len(g_clients) + 1

(* The clients that sendData found are behind it or still before it.        *)
SendingRest ==
  At("main", "send") =>
    \A d \in begun : d \in sent \/ \E i \in DOMAIN g_clients : i >= iter /\ g_clients[i] = d

ServerInv == ServerTyped /\ SendingRest /\ Remembered

(* What emplace does, whatever the shape of the tree: nobody is forgotten,  *)
(* the new one is there afterwards, and nobody in front of an iterator gets *)
(* behind it.                                                               *)
Emplaced(new) ==
  /\ g_clients' \in Seq(Address)
  /\ Len(g_clients') <= MaxClients
  /\ iter' \in 1 .. Len(g_clients') + 1
  /\ new \in ToSet(g_clients')
  /\ \A i \in DOMAIN g_clients :
       /\ g_clients[i] \in ToSet(g_clients')
       /\ i >= iter => \E j \in DOMAIN g_clients' : j >= iter' /\ g_clients'[j] = g_clients[i]

(* The ordering of clients is none, but two that are not less than each     *)
(* other are the same, so a client that emplace does not insert is there.   *)
LEMMA EmplaceEffect ==
  ASSUME UdpSrvAssumption, ServerTyped, NEW new \in Address, Emplace(new)
  PROVE  Emplaced(new)
<1>1. g_clients \in Seq(Address) /\ iter \in 1 .. Len(g_clients) + 1 /\ Len(g_clients) \in Nat
      /\ DOMAIN g_clients = 1 .. Len(g_clients) /\ MaxClients \in Nat
  BY DEF ServerTyped, ServerOK, UdpSrvAssumption
<1>2. PICK p \in Places(new) :
        IF p = 1 \/ Less(g_clients[p - 1], new)
        THEN /\ Len(g_clients) < MaxClients
             /\ g_clients' = InsertAt(g_clients, p, new)
             /\ iter' = IF p <= iter THEN iter + 1 ELSE iter
        ELSE UNCHANGED <<g_clients, iter>>
  BY DEF Emplace
<1>3. p \in 1 .. Len(g_clients) + 1 /\ (p > 1 => ~Less(new, g_clients[p - 1]))
  BY <1>2 DEF Places
<1>4. CASE p = 1 \/ Less(g_clients[p - 1], new)
  <2> DEFINE longer == InsertAt(g_clients, p, new)
  <2>1. /\ longer \in Seq(Address) /\ Len(longer) = Len(g_clients) + 1
        /\ longer[p] = new
        /\ \A i \in 1 .. p - 1 : longer[i] = g_clients[i]
        /\ \A i \in p .. Len(g_clients) : longer[i + 1] = g_clients[i]
    <3>1. longer \in Seq(Address)
      BY <1>1, <1>3, InsertAtType
    <3>2. Len(longer) = Len(g_clients) + 1 /\ longer[p] = new
      BY <1>1, <1>3, InsertAtType
    <3>3. \A i \in 1 .. p - 1 : longer[i] = g_clients[i]
      BY <1>1, <1>3, InsertAtType
    <3>4. \A i \in p .. Len(g_clients) : longer[i + 1] = g_clients[i]
      BY <1>1, <1>3, InsertAtType
    <3> QED
      BY <3>1, <3>2, <3>3, <3>4
  <2>2. /\ Len(g_clients) < MaxClients /\ g_clients' = longer
        /\ iter' = IF p <= iter THEN iter + 1 ELSE iter
    BY <1>2, <1>4
  <2> HIDE DEF longer
  <2>3. DOMAIN longer = 1 .. Len(g_clients) + 1
    BY <2>1
  <2>4. new \in ToSet(longer)
    BY <1>3, <2>1, <2>3 DEF ToSet
  <2>5. ASSUME NEW i \in DOMAIN g_clients
        PROVE  \E j \in DOMAIN longer : (i >= iter => j >= iter') /\ longer[j] = g_clients[i]
    <3>1. CASE i < p
      <4>1. i \in DOMAIN longer /\ longer[i] = g_clients[i]
        BY <1>1, <1>3, <2>1, <2>3, <3>1
      <4>2. i >= iter => i >= iter'
        BY <1>1, <1>3, <2>2, <3>1
      <4> QED
        BY <4>1, <4>2
    <3>2. CASE ~(i < p)
      <4>1. i + 1 \in DOMAIN longer /\ longer[i + 1] = g_clients[i]
        BY <1>1, <1>3, <2>1, <2>3, <3>2
      <4>2. i >= iter => i + 1 >= iter'
        BY <1>1, <1>3, <2>2, <3>2
      <4> QED
        BY <4>1, <4>2
    <3> QED
      BY <3>1, <3>2
  <2>6. iter' \in 1 .. Len(longer) + 1 /\ Len(longer) <= MaxClients
    BY <1>1, <1>3, <2>1, <2>2
  <2> QED
    BY <2>1, <2>2, <2>3, <2>4, <2>5, <2>6 DEF Emplaced, ToSet
<1>5. CASE ~(p = 1 \/ Less(g_clients[p - 1], new))
  <2>1. g_clients' = g_clients /\ iter' = iter
    BY <1>2, <1>5
  <2>2. p - 1 \in DOMAIN g_clients
    BY <1>1, <1>3, <1>5
  <2>3. g_clients[p - 1] \in Address
    BY <1>1, <2>2, ElementOfSeq
  <2>4. ~Less(new, g_clients[p - 1]) /\ ~Less(g_clients[p - 1], new)
    BY <1>1, <1>3, <1>5
  <2>5. g_clients[p - 1].addr = new.addr /\ g_clients[p - 1].port = new.port
    BY <2>3, <2>4 DEF Less, Address
  <2>6. g_clients[p - 1] = new
    BY <2>3, <2>5 DEF Address
  <2>7. Len(g_clients) <= MaxClients
    BY DEF ServerTyped
  <2> QED
    BY <1>1, <2>1, <2>2, <2>6, <2>7 DEF Emplaced, ToSet
<1> QED
  BY <1>4, <1>5

(* A step that leaves the list, the iterator and the histories alone.       *)
LEMMA ServerElsewhere ==
  ASSUME ServerInv, UNCHANGED <<g_clients, sending, announced>>,
         At("main", "send")' => At("main", "send")
  PROVE  SendingRest' /\ Remembered'
  BY DEF ServerInv, SendingRest, Remembered, sending, ToSet

(* run() and what it does to the list of clients.                           *)
LEMMA ListUdp ==
  ASSUME UdpSrvAssumption, ServerInv,
         ReceiveFails \/ \E d \in Datagrams : HandleDiscovery(d)
  PROVE  ServerInv'
<1> USE DEF ServerInv, ServerTyped, ServerOK, At, Goto
<1>1. ASSUME NEW new \in Address, Emplaced(new), UNCHANGED <<begun, sent>>,
             announced' \subseteq announced \cup {new},
             At("main", "send")' => At("main", "send")
      PROVE  SendingRest' /\ Remembered'
  <2>1. ToSet(g_clients) \subseteq ToSet(g_clients')
    BY <1>1 DEF Emplaced, ToSet
  <2>2. Remembered'
    BY <1>1, <2>1 DEF Emplaced, Remembered
  <2>3. SendingRest'
    <3> SUFFICES ASSUME At("main", "send"), NEW d \in begun, d \notin sent
                 PROVE  \E j \in DOMAIN g_clients' : j >= iter' /\ g_clients'[j] = d
      BY <1>1 DEF SendingRest
    <3>1. PICK i \in DOMAIN g_clients : i >= iter /\ g_clients[i] = d
      BY DEF SendingRest
    <3> QED
      BY <1>1, <3>1 DEF Emplaced
  <2> QED
    BY <2>2, <2>3
<1>2. CASE ReceiveFails
  <2> USE <1>2 DEF ReceiveFails, stack
  <2>1. pc' \in [Tasks -> PCs] /\ (At("main", "send")' => At("main", "send"))
    BY DEF PCs, Tasks
  <2>2. CASE rx_id = "discovery"
    <3>1. PICK from \in Peers \cup Garbage : Emplace(from)
      BY <2>2
    <3>2. from \in Address
      BY DEF UdpSrvAssumption
    <3>3. Emplaced(from)
      BY <3>1, <3>2, EmplaceEffect
    <3>4. SendingRest' /\ Remembered'
      BY <1>1, <2>1, <3>2, <3>3
    <3>5. ServerTyped'
      BY <2>1, <3>3 DEF Emplaced, UdpSrvAssumption
    <3> QED
      BY <3>4, <3>5
  <2>3. CASE rx_id # "discovery"
    <3>1. SendingRest' /\ Remembered'
      BY <2>1, <2>3, ServerElsewhere DEF sending
    <3>2. ServerTyped'
      BY <2>1, <2>3
    <3> QED
      BY <3>1, <3>2
  <2> QED
    BY <2>2, <2>3
<1>3. ASSUME NEW d \in Datagrams, HandleDiscovery(d) PROVE ServerInv'
  <2> USE <1>3 DEF HandleDiscovery, Take
  <2>1. pc' \in [Tasks -> PCs] /\ (At("main", "send")' => At("main", "send"))
    BY DEF PCs, Tasks
  <2>2. d.from \in Peers /\ d.from \in Address
    BY DEF Datagrams, UdpSrvAssumption
  <2>3. Emplaced(d.from)
    BY <2>2, EmplaceEffect
  <2>4. SendingRest' /\ Remembered'
    BY <1>1, <2>1, <2>2, <2>3
  <2>5. inbox' \in [Descriptors -> Seq(Datagrams)]
    OBVIOUS
  <2>6. ServerTyped'
    BY <2>1, <2>2, <2>3, <2>5, SMTT(20) DEF Emplaced
  <2> QED
    BY <2>4, <2>6
<1> QED
  BY <1>2, <1>3

(* The other steps of the UDP task, closing a socket from either task, and  *)
(* the network.                                                             *)
LEMMA UdpKeeps ==
  ASSUME UdpSrvAssumption, ServerInv,
         \/ UdpWait \/ OpenSocket \/ Receive \/ NotYet \/ SendDiscovery \/ SendDiscoveryFails
         \/ \E d \in Datagrams : HandleOther(d) \/ HandleShort(d)
         \/ \E t \in Tasks : CloseCheck(t) \/ CloseSocket(t) \/ CloseReset(t)
         \/ \E s \in Descriptors, d \in Datagrams : Arrive(s, d)
  PROVE  ServerInv'
<1> USE DEF ServerInv, ServerTyped, ServerOK, At, Goto, Close, shared, stack, sending, PCs, Tasks
<1>1. CASE UdpWait \/ Receive \/ NotYet
  BY <1>1, ServerElsewhere DEF UdpWait, Receive, NotYet
<1>2. CASE OpenSocket
  BY <1>2, ServerElsewhere DEF OpenSocket, UdpSrvAssumption
<1>3. CASE SendDiscovery \/ SendDiscoveryFails
  BY <1>3, ServerElsewhere, ZenonT(40) DEF SendDiscovery, SendDiscoveryFails
<1>4. ASSUME NEW d \in Datagrams, HandleOther(d) \/ HandleShort(d) PROVE ServerInv'
  <2>1. inbox' \in [Descriptors -> Seq(Datagrams)]
    <3>1. Take(d)
      BY <1>4 DEF HandleOther, HandleShort
    <3>2. Tail(inbox[fd]) \in Seq(Datagrams)
      BY <3>1, HeadTailProperties DEF Take
    <3> QED
      BY <3>1, <3>2 DEF Take
  <2>2. rx_id' \in {"discovery", "other"}
    BY <1>4 DEF HandleOther, HandleShort
  <2>3. pc' \in [Tasks -> PCs] /\ ret' \in [Tasks -> {"wait", "receive", "idle"}]
        /\ (At("main", "send")' => At("main", "send"))
    BY <1>4 DEF HandleOther, HandleShort
  <2>4. UNCHANGED <<shared, sockets, port, fd, sending, announced>>
    BY <1>4 DEF HandleOther, HandleShort
  <2> QED
    BY <2>1, <2>2, <2>3, <2>4, ServerElsewhere
<1>5. ASSUME NEW t \in Tasks, CloseCheck(t) \/ CloseReset(t) PROVE ServerInv'
  <2>1. pc' \in [Tasks -> PCs] /\ (At("main", "send")' => At("main", "send"))
    BY <1>5 DEF CloseCheck, CloseReset
  <2>2. UNCHANGED <<g_clients, rx_id, stack, ret, fd, sending, announced>>
    BY <1>5 DEF CloseCheck, CloseReset
  <2>3. g_sock' \in {g_sock, -1}
    BY <1>5 DEF CloseCheck, CloseReset
  <2> QED
    BY <2>1, <2>2, <2>3, ServerElsewhere
<1>6. ASSUME NEW t \in Tasks, CloseSocket(t) PROVE ServerInv'
  <2>1. inbox' \in [Descriptors -> Seq(Datagrams)]
    BY <1>6, EmptySeq DEF CloseSocket
  <2> QED
    BY <1>6, <2>1, ServerElsewhere DEF CloseSocket
<1>7. ASSUME NEW s \in Descriptors, NEW d \in Datagrams, Arrive(s, d) PROVE ServerInv'
  BY <1>7, ServerElsewhere, SMTT(20) DEF Arrive
<1> QED
  BY <1>1, <1>2, <1>3, <1>4, <1>5, <1>6, <1>7

(* sendData goes through the list.                                          *)
LEMMA SendKeeps ==
  ASSUME UdpSrvAssumption, ServerInv, SendData \/ SendNext \/ SendFails \/ SendDone
  PROVE  ServerInv'
<1> USE DEF ServerInv, ServerTyped, ServerOK, At, Goto, Close, shared, stack, sending, PCs, Tasks
<1>1. CASE SendData
  <2> USE <1>1 DEF SendData
  <2>1. ServerTyped'
    BY DEF ToSet
  <2>2. SendingRest'
    BY DEF SendingRest, ToSet
  <2>3. Remembered'
    BY DEF Remembered, ToSet
  <2> QED
    BY <2>1, <2>2, <2>3
<1>2. CASE SendNext
  <2> USE <1>2 DEF SendNext
  <2>1. iter \in DOMAIN g_clients /\ g_clients[iter] \in Address
    OBVIOUS
  <2>2. ServerTyped'
    BY <2>1
  <2>3. SendingRest'
    BY <2>1 DEF SendingRest
  <2>4. Remembered'
    BY DEF Remembered, ToSet
  <2> QED
    BY <2>2, <2>3, <2>4
<1>3. CASE SendFails \/ SendDone
  BY <1>3, ServerElsewhere, ZenonT(40) DEF SendFails, SendDone
<1> QED
  BY <1>1, <1>2, <1>3

(* Every step of the two tasks and of the network preserves the invariant.  *)
LEMMA ServerInvNext ==
  ASSUME UdpSrvAssumption, ServerInv, ServerNext \/ UNCHANGED server
  PROVE  ServerInv'
<1>1. CASE UNCHANGED server
  BY <1>1 DEF server, shared, stack, sending, ServerInv, ServerTyped, ServerOK, SendingRest,
     Remembered, At, ToSet
<1>2. CASE ServerNext
  BY <1>2, ListUdp, UdpKeeps, SendKeeps DEF ServerNext, UdpTask, MainTask, Tasks
<1> QED
  BY <1>1, <1>2

(* The server starts without a socket and without clients.                  *)
LEMMA ServerInvInit ==
  ASSUME UdpSrvAssumption, ServerInit
  PROVE  ServerInv
<1> USE DEF ServerInit
<1>1. ServerTyped
  BY EmptySeq DEF ServerTyped, ServerOK, At, UdpSrvAssumption, PCs, Tasks
<1>2. SendingRest /\ Remembered
  BY DEF SendingRest, Remembered, At, Tasks
<1> QED
  BY <1>1, <1>2 DEF ServerInv

(* The invariant of the server, whatever the station does to its bit.       *)
LEMMA ServerInvAlways == Spec => []ServerInv
<1>1. Init => ServerInv
  BY UdpSrvAssumption, ServerInvInit DEF Init
<1>2. ServerInv /\ [Next]_<<server, bit>> => ServerInv'
  BY UdpSrvAssumption, ServerInvNext DEF Next, Wifi
<1> QED
  BY <1>1, <1>2, PTL DEF Spec

(* The type invariant of the server: among the rest, the iterator of a call *)
(* of sendData is at a client or at the end, although run() inserts clients *)
(* and closes the socket meanwhile (UdpSrv.cpp 113-178).                    *)
THEOREM ServerSafety == Spec => []ServerOK
<1>1. ServerInv => ServerOK
  BY DEF ServerInv, ServerTyped
<1> QED
  BY <1>1, ServerInvAlways, PTL

(* When sendData has come to the end of the list it has sent to every       *)
(* client there was when it began (UdpSrv.cpp 158-178), wherever the        *)
(* broken ordering put the clients that came meanwhile.                     *)
THEOREM SendsToAll == Spec => []SentToAll
<1>1. ServerInv => SentToAll
  BY DEF ServerInv, SendingRest, SentToAll, ServerTyped, ServerOK
<1> QED
  BY <1>1, ServerInvAlways, PTL

(* A peer whose announcement was handled is a client from then on, however  *)
(* the tree is shaped that the ordering of UdpSrv.cpp 47-52 leads through.  *)
THEOREM ClientsRemembered == Spec => []Remembered
<1>1. ServerInv => Remembered
  BY DEF ServerInv
<1> QED
  BY <1>1, ServerInvAlways, PTL

---------------------------------------------------------------------------
(* The station.  What is on its way to the event task is in order: while    *)
(* there is an IP address, no loss of the link is reported after it was got,*)
(* and otherwise nothing was got after the last loss.                       *)
InOrder ==
  LET Corrects(wrong, right) ==
        \A i \in DOMAIN events : events[i] = wrong =>
          \E j \in DOMAIN events : j > i /\ events[j] = right
  IN  IF link = "up" THEN Corrects("disconnected", "got_ip")
                     ELSE Corrects("got_ip", "disconnected")

StationInv == StationOK /\ InOrder /\ BitFollowsLink

(* The program starts without a link, and the start event is pending.       *)
LEMMA StationInvInit == StationInit => StationInv
<1> SUFFICES ASSUME StationInit PROVE StationInv
  OBVIOUS
<1> USE DEF StationInit
<1>1. StationOK
  <2>1. <<"start">> \in Seq(EventNames)
    BY DEF EventNames
  <2> QED
    BY <2>1, Zenon DEF StationOK, Links
<1>2. InOrder /\ BitFollowsLink
  BY DEF InOrder, BitFollowsLink
<1> QED
  BY <1>1, <1>2 DEF StationInv

(* A posted event is the last one.                                          *)
LEMMA Posted ==
  ASSUME StationOK, NEW event \in EventNames, Post(event)
  PROVE  /\ events' \in Seq(EventNames)
         /\ DOMAIN events' = 1 .. Len(events) + 1 /\ DOMAIN events = 1 .. Len(events)
         /\ Len(events) \in Nat
         /\ events'[Len(events) + 1] = event
         /\ \A i \in DOMAIN events : events'[i] = events[i]
  BY AppendProperties DEF StationOK, Post

(* A handled event is the first one.                                        *)
LEMMA Taken ==
  ASSUME StationOK, NEW event, TakeEvent(event)
  PROVE  /\ events' \in Seq(EventNames)
         /\ 1 \in DOMAIN events /\ events[1] = event
         /\ \A i \in DOMAIN events' : i + 1 \in DOMAIN events /\ events'[i] = events[i + 1]
         /\ \A i \in DOMAIN events : i # 1 => i - 1 \in DOMAIN events' /\ events'[i - 1] = events[i]
         /\ DOMAIN events \subseteq Nat
<1>1. events \in Seq(EventNames) /\ events # <<>>
  BY DEF StationOK, TakeEvent
<1>2. /\ Tail(events) \in Seq(EventNames) /\ Len(Tail(events)) = Len(events) - 1
      /\ \A i \in 1 .. Len(Tail(events)) : Tail(events)[i] = events[i + 1]
  BY <1>1, HeadTailProperties
<1>3. events' = Tail(events) /\ events[1] = event
  BY <1>1 DEF TakeEvent
<1> HIDE DEF TakeEvent
<1>4. DOMAIN events = 1 .. Len(events) /\ Len(events) \in Nat /\ Len(events) >= 1
      /\ DOMAIN events' = 1 .. Len(events) - 1
  BY <1>1, <1>2, <1>3
<1> QED
  BY <1>2, <1>3, <1>4

(* The driver.                                                              *)
LEMMA DriverKeeps ==
  ASSUME StationInv, AccessPoint \/ Driver
  PROVE  StationInv'
<1> USE DEF StationInv
<1>1. CASE AccessPoint \/ Associate
  <2>1. UNCHANGED <<events, handler, bit>> /\ (link' = link \/ (link # "up" /\ link' = "associated"))
    <3>1. AccessPoint => UNCHANGED <<link, events, handler, bit>>
      BY Zenon DEF AccessPoint
    <3>2. Associate => UNCHANGED <<events, handler, bit>> /\ link # "up" /\ link' = "associated"
      BY DEF Associate
    <3> QED
      BY <1>1, <3>1, <3>2
  <2>2. ap' \in BOOLEAN
    BY <1>1, Zenon DEF AccessPoint, Associate, StationOK
  <2>3. StationOK'
    BY <2>1, <2>2 DEF StationOK, Links
  <2>4. InOrder'
    BY <2>1 DEF InOrder
  <2>5. BitFollowsLink'
    BY <2>1 DEF BitFollowsLink, Pending
  <2> QED
    BY <2>3, <2>4, <2>5
<1>2. CASE GetIp
  <2>1. /\ events' \in Seq(EventNames)
        /\ DOMAIN events' = 1 .. Len(events) + 1 /\ DOMAIN events = 1 .. Len(events)
        /\ Len(events) \in Nat
        /\ events'[Len(events) + 1] = "got_ip"
        /\ \A i \in DOMAIN events : events'[i] = events[i]
    BY <1>2, Posted DEF GetIp, EventNames
  <2>2. StationOK'
    BY <1>2, <2>1 DEF GetIp, StationOK, Links
  <2>3. InOrder' /\ BitFollowsLink'
    BY <1>2, <2>1 DEF GetIp, InOrder, BitFollowsLink, Pending
  <2> QED
    BY <2>2, <2>3
<1>3. CASE Drop
  <2>1. /\ events' \in Seq(EventNames)
        /\ DOMAIN events' = 1 .. Len(events) + 1 /\ DOMAIN events = 1 .. Len(events)
        /\ Len(events) \in Nat
        /\ events'[Len(events) + 1] = "disconnected"
        /\ \A i \in DOMAIN events : events'[i] = events[i]
    BY <1>3, Posted DEF Drop, EventNames
  <2>2. StationOK'
    BY <1>3, <2>1 DEF Drop, StationOK, Links
  <2>3. InOrder' /\ BitFollowsLink'
    BY <1>3, <2>1 DEF Drop, InOrder, BitFollowsLink, Pending
  <2> QED
    BY <2>2, <2>3
<1> QED
  BY <1>1, <1>2, <1>3 DEF Driver

(* The event task.                                                          *)
LEMMA EventKeeps ==
  ASSUME StationInv, EventTask
  PROVE  StationInv'
<1> USE DEF StationInv
<1>1. CASE ClearBit
  BY <1>1 DEF ClearBit, clear_bit, StationOK, InOrder, BitFollowsLink, Pending
<1>2. ASSUME NEW event, TakeEvent(event),
             \/ event = "start" /\ StaStart
             \/ event = "got_ip" /\ StaGotIp
             \/ event = "disconnected" /\ StaDisconnected
      PROVE  StationInv'
  <2>1. /\ events' \in Seq(EventNames)
        /\ 1 \in DOMAIN events /\ events[1] = event
        /\ \A i \in DOMAIN events' : i + 1 \in DOMAIN events /\ events'[i] = events[i + 1]
        /\ \A i \in DOMAIN events : i # 1 => i - 1 \in DOMAIN events' /\ events'[i - 1] = events[i]
        /\ DOMAIN events \subseteq Nat
    BY <1>2, Taken
  <2>2. link' = link \/ (link = "down" /\ link' = "connecting")
    BY <1>2 DEF StaStart, StaGotIp, StaDisconnected, esp_wifi_connect
  <2>3. StationOK'
    BY <1>2, <2>1, <2>2 DEF StaStart, StaGotIp, StaDisconnected, StationOK, Links, set_bit
  <2>4. DOMAIN events' \subseteq Nat
    BY <2>1
  <2>5. InOrder'
    <3> DEFINE wrong == IF link = "up" THEN "disconnected" ELSE "got_ip"
               right == IF link = "up" THEN "got_ip" ELSE "disconnected"
    <3>1. \A i \in DOMAIN events : events[i] = wrong =>
             \E j \in DOMAIN events : j > i /\ events[j] = right
      BY DEF InOrder
    <3> HIDE DEF wrong, right
    <3>2. \A i \in DOMAIN events' : events'[i] = wrong =>
             \E j \in DOMAIN events' : j > i /\ events'[j] = right
      <4> SUFFICES ASSUME NEW i \in DOMAIN events', events'[i] = wrong
                   PROVE  \E j \in DOMAIN events' : j > i /\ events'[j] = right
        OBVIOUS
      <4>1. PICK j \in DOMAIN events : j > i + 1 /\ events[j] = right
        BY <2>1, <3>1
      <4>2. j - 1 \in DOMAIN events' /\ events'[j - 1] = right /\ j - 1 > i
        BY <2>1, <2>4, <4>1
      <4> QED
        BY <4>2
    <3> QED
      BY <2>2, <3>2 DEF InOrder, wrong, right
  <2>6. \A other : other # event /\ Pending(other) => Pending(other)'
    BY <2>1 DEF Pending
  <2>7. link # "up" /\ event = "got_ip" => Pending("disconnected")
    BY <2>1 DEF InOrder, Pending
  <2>8. link = "up" /\ event = "disconnected" => Pending("got_ip")
    BY <2>1 DEF InOrder, Pending
  <2>9. BitFollowsLink'
    <3>1. CASE event = "start" /\ StaStart
      BY <2>2, <2>6, <3>1 DEF StaStart, BitFollowsLink
    <3>2. CASE event = "got_ip" /\ StaGotIp
      BY <2>6, <2>7, <3>2, <1>2 DEF StaGotIp, set_bit, BitFollowsLink, TakeEvent
    <3>3. CASE event = "disconnected" /\ StaDisconnected
      BY <2>2, <2>6, <2>8, <3>3 DEF StaDisconnected, BitFollowsLink
    <3> QED
      BY <1>2, <3>1, <3>2, <3>3
  <2> QED
    BY <2>3, <2>5, <2>9
<1>3. StaStart => StationInv'
  <2>1. StaStart => TakeEvent("start")
    BY DEF StaStart
  <2> QED
    BY <1>2, <2>1
<1>4. StaGotIp => StationInv'
  <2>1. StaGotIp => TakeEvent("got_ip")
    BY DEF StaGotIp
  <2> QED
    BY <1>2, <2>1
<1>5. StaDisconnected => StationInv'
  <2>1. StaDisconnected => TakeEvent("disconnected")
    BY DEF StaDisconnected
  <2> QED
    BY <1>2, <2>1
<1> QED
  BY <1>1, <1>3, <1>4, <1>5 DEF EventTask

---------------------------------------------------------------------------
(* Both together: a step of one leaves the other alone, except for the bit, *)
(* which the server only reads.                                             *)
LEMMA StationInvNext ==
  ASSUME StationInv, StationNext \/ UNCHANGED <<station, bit>>
  PROVE  StationInv'
<1>1. CASE UNCHANGED <<station, bit>>
  BY <1>1 DEF station, StationInv, StationOK, InOrder, BitFollowsLink, Pending
<1>2. CASE StationNext
  BY <1>2, DriverKeeps, EventKeeps DEF StationNext
<1> QED
  BY <1>1, <1>2

(* Both invariants hold of the composition.                                 *)
LEMMA NetioInvAlways == NetioSpec => [](StationInv /\ ServerInv)
<1>1. NetioInit => StationInv /\ ServerInv
  BY UdpSrvAssumption, StationInvInit, ServerInvInit DEF NetioInit
<1>2. StationInv /\ ServerInv /\ [NetioNext]_vars => (StationInv /\ ServerInv)'
  <2> SUFFICES ASSUME StationInv, ServerInv, [NetioNext]_vars
               PROVE  StationInv' /\ ServerInv'
    OBVIOUS
  <2>1. CASE StationNext /\ UNCHANGED server
    BY <2>1, UdpSrvAssumption, StationInvNext, ServerInvNext
  <2>2. CASE ServerNext /\ UNCHANGED station
    <3>1. UNCHANGED <<station, bit>>
      BY <2>2 DEF ServerNext
    <3> QED
      BY <2>2, <3>1, UdpSrvAssumption, StationInvNext, ServerInvNext
  <2>3. CASE UNCHANGED vars
    BY <2>3, UdpSrvAssumption, StationInvNext, ServerInvNext DEF vars
  <2> QED
    BY <2>1, <2>2, <2>3 DEF NetioNext
<1> QED
  BY <1>1, <1>2, PTL DEF NetioSpec

(* The type invariants of station and server hold of the two together.      *)
THEOREM NetioSafety == NetioSpec => []NetioOK
<1>1. StationInv /\ ServerInv => NetioOK
  BY DEF StationInv, ServerInv, ServerTyped, NetioOK
<1> QED
  BY <1>1, NetioInvAlways, PTL

(* However the driver runs ahead of the event task, the bit differs from    *)
(* the link only while the event that corrects it is on its way, and a bit  *)
(* about to be cleared for an old connection is set again for a new one     *)
(* (Wifi.cpp 65-105).                                                       *)
THEOREM BitIsRight == NetioSpec => []BitFollowsLink
<1>1. StationInv => BitFollowsLink
  BY DEF StationInv
<1> QED
  BY <1>1, NetioInvAlways, PTL

---------------------------------------------------------------------------
(* What the station does is all that the server is told of it: it sets the  *)
(* bit, it clears it, or it leaves it alone.                                *)
LEMMA StationIsWifi ==
  ASSUME StationNext, UNCHANGED server
  PROVE  Wifi \/ UNCHANGED bit
<1> SUFFICES set_bit \/ clear_bit \/ UNCHANGED bit
  BY DEF Wifi
<1>1. CASE AccessPoint \/ Driver
  BY <1>1 DEF AccessPoint, Driver, Associate, GetIp, Drop
<1>2. CASE EventTask
  BY <1>2 DEF EventTask, StaStart, StaGotIp, StaDisconnected, ClearBit
<1> QED
  BY <1>1, <1>2 DEF StationNext

(* Beside the station the server is the server modelled alone, with its     *)
(* fairness: whatever holds of every behaviour of that one, SentToAll and   *)
(* Remembered for two, holds with the station as well (Wifi.cpp 65-106,     *)
(* main.cpp 41-50).                                                         *)
THEOREM ComposedServer == NetioSpec => FairSpec
<1>1. NetioInit => Init
  BY DEF NetioInit, Init, StationInit
<1>2. [NetioNext]_vars => [Next]_<<server, bit>>
  <2> SUFFICES ASSUME [NetioNext]_vars PROVE Next \/ UNCHANGED <<server, bit>>
    OBVIOUS
  <2>1. CASE StationNext /\ UNCHANGED server
    BY <2>1, StationIsWifi DEF Next
  <2>2. CASE ServerNext /\ UNCHANGED station
    BY <2>2 DEF Next
  <2>3. CASE UNCHANGED vars
    BY <2>3 DEF vars
  <2> QED
    BY <2>1, <2>2, <2>3 DEF NetioNext
<1> QED
  BY <1>1, <1>2, PTL DEF NetioSpec, FairSpec, Spec

(* And the station is the station alone: the server reads the bit and never *)
(* writes it.                                                               *)
THEOREM ComposedStation == NetioSpec => StationSpec
<1>1. NetioInit => StationInit
  BY DEF NetioInit
<1>2. [NetioNext]_vars => [StationNext]_<<station, bit>>
  <2> SUFFICES ASSUME [NetioNext]_vars PROVE StationNext \/ UNCHANGED <<station, bit>>
    OBVIOUS
  <2>1. CASE StationNext /\ UNCHANGED server
    BY <2>1
  <2>2. CASE ServerNext /\ UNCHANGED station
    BY <2>2 DEF ServerNext
  <2>3. CASE UNCHANGED vars
    BY <2>3 DEF vars
  <2> QED
    BY <2>1, <2>2, <2>3 DEF NetioNext
<1> QED
  BY <1>1, <1>2, PTL DEF NetioSpec, StationSpec

(* With the station too, data goes to every client (UdpSrv.cpp 158-178).    *)
COROLLARY ComposedSends == NetioSpec => [](SentToAll /\ Remembered)
BY ComposedServer, SendsToAll, ClientsRemembered, PTL DEF FairSpec

============================================================================
