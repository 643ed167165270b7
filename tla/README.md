# A TLA+ verification of esp_ac_dimmer

The repository is the firmware of an ESP8266 device: it reads DS18x20 temperature sensors on a
OneWire bus and reports them over UDP on a Wi-Fi station link. It also carries an in-process message
bus for its tasks. This directory models that program, model-checks it with TLC, and proves with TLAPS
what is checked, but for two invariants and the liveness properties. Paths below are relative to `src/src/`.

## 1. Inventory

| Component | State | Operations | Talks to |
|---|---|---|---|
| **Message bus** `components/bus` | `Bus`: mutex, list of clients, list of groups, two address counters. `IBusClient`: queue handle, address. `BusMsg`: destination list | connect, disconnect, join, leave, destination, resolve; initialize, send, tryReceive, destructor | FreeRTOS queues and a mutex; the tasks that drive the clients |
| **Bus commands** `components/bus/include/BusCommand.h` | none | double dispatch of a command | the handlers |
| **UDP server** `components/netio/src/UdpSrv.cpp` | socket, set of clients, time of the last discovery, receive and transmit buffer | run, sendData, sendDiscoveryMessage | lwIP; called by the UDP task (run) and by the main task (sendData) |
| **Wi-Fi station** `components/netio/src/Wifi.cpp` | none of its own | init_station, handle_event | the driver's events; sets and clears a bit of Events |
| **System events** `components/system` | one event group | set_bit, clear_bit, wait_for | the event task and the UDP task |
| **Application** `main/main.cpp` | locals of three tasks | main loop, UDP task, blinking task | all of the above |
| **OneWire** `components/onewire/src/onewire.cpp` | the place a ROM search has reached | reset, bit and byte transfer, search, crc8, crc16 | a pin, through callbacks |
| **Temperature sensor** `components/onewire/src/TemperatureSensor.cpp` | scratchpad bytes | measureTemperature, getCelsius | OneWire |
| **Streams** `components/common/include/*Stream.h` | a position in a bounded array | read and write of values, strings and containers | messages |
| **Network messages** `components/netio/include/Messages.h` | callbacks | create, parse (a stub) | streams, UDP server |
| **Utilities** `components/common/src/utils.cpp` | none | CPU id, tick conversion, logging | |

Nothing is persisted, so there is no recovery to model. What is hard is concurrency: client objects
driven by tasks of their own share `Bus`; three tasks share the socket and the event group; and the
bus forwards a message from task to task, so a client that goes away takes messages with it.

What makes each component correct:

* *Bus*: a message is owned by one task or queue at a time, reaches each member of a group at most
  once and only those it was sent to, in the order sent, and is lost only when a queue is full; a
  connected client is reachable; the queue a message is sent to exists; every call returns.
* *UDP server, Wi-Fi, events*: a socket is closed once and used only while it is open; a peer that
  announced itself gets the data; the server recovers after an error or a lost link.
* *OneWire*: a search visits every device on the bus exactly once and ends; reset ends, and is
  true only if a device answered. *Sensor*: the value is that of the scratchpad, with its sign; no
  sensor is restarted while it converts, and each is reported again and again.
* *Streams and messages*: what was written is read back, and neither side leaves its buffer.

## 2. Plan

1. **`Bus`** (done): the registry and chain delivery, with its runs; **`Multicast`** (done), what
   the bus promises of a message, and **`BusMulticast`** (done), the refinement. The proofs (done), each
   module on top of the one before: **`BusProofs`** (types, groups), **`BusRouting`** (addresses),
   **`BusMessages`** (owners, delivery), **`BusDelivery`** (receipts, refinement), **`BusOrder`**.
2. **`Events`, `Station`, `UdpSrv`** (done) and **`Netio`** (done), their composition: the event task,
   the UDP task and the main task on one event bit and one socket. The tree behind `g_clients`, with
   the ordering the code gives it, is part of `UdpSrv`. **`NetioProofs`** (done), the proofs.
3. **`OneWireSearch`** (done), the enumeration of ROM codes by the main loop; **`OneWireSearchInv`,
   `OneWireSearchProofs`** (done), the proofs.
4. **`Enumeration`** (done), what a search promises the main loop; **`SearchEnumeration`** (done), that
   the search keeps it; the proof is in `OneWireSearchProofs`.
5. **`Sensor`**, **`Celsius`** (done), the main loop on top of `Enumeration`; **`OneWireReset`**,
   **`OneWireSlots`**, **`Crc`** (done), what is under it; **`Streams`** (done), values and messages.
   They are sequential and share one run, **`MCDevice`**. **`DeviceProofs`** (done), the proofs.

`Sensor` and `UdpSrv` meet in one call, `sendData`, and are not composed: `Sensor` says what is sent and
when, `UdpSrv` what becomes of it at any time.

Every safety property of a passing run is a theorem, with one exception, `RoundTrip`: values on a
stream nest, and what a recursion over them computes needs an induction over data, which the prover
cannot do. It and the liveness properties (`Settles`, `CallsReturn`, `Starts`, `Reconnects`,
`FoundAgain`, `RoundsEnd`, `ReportedAgain`, `ResetReturns`) stay with TLC. The prover knows neither
`ENABLED` nor the rules by which a fair step that decreases a measure comes to an end. The other half of
such an argument, that there is a measure and what decreases it, is a safety property, and proved
where there is one: `MessagesRunOut`, `SearchAscends`, `ResetCountsDown`.

## 3. The bus

### How the model corresponds to the code

`Bus.tla` has one action for each operation, split where the code gives up the mutex:

| Code | Actions |
|---|---|
| `IBusClient::initialize` (Bus.cpp 210-218), `Bus::connect` (26-45) | `CreateQueue` or `Reconnect`, then `Connect` |
| `Bus::disconnect` (47-58) | `Disconnect`; inside the destructor `Destroy` |
| `IBusClient::~IBusClient` (196-208) | `Destroy`, `Drain` and a `sendToNextClient` per message, `Drained`, `DeleteQueue` |
| `Bus::join` (86-107, 60-84), `leave` (127-147, 109-125) | `JoinName`, `JoinAddr`; `LeaveName`, `LeaveAddr` |
| `IBusClient::send` (224-240) | `SendName` or `SendAddr`, then `BuildMsg` |
| `IBusClient::sendToNextClient` (255-275) | `ForwardDone`, or `ResolveNext` (takes the mutex) then `Enqueue` (gives it back) |
| `IBusClient::tryReceive` (242-253) | `TryReceive`, then `FinishReceive` when the handler returned |

`m_clients`, `m_groups` and a group's `destination` are sequences, front first. `RemoveIf` is
`std::remove_if` *as the code uses it*, without `erase`: the list keeps its length and its last
places keep their old contents. That matters: everything said of the registry is said of lists in
that state. A `BusMsg*` is an index into `msgs`; its owner is a queue slot, a task inside
`sendToNextClient` (`out`) or a task inside `receive()` (`hand`), during which the handler may use
the bus itself. Queue handles come from a pool, `Queues`, and a deleted handle can come back.
`undef` marks undefined behaviour (a deleted handle passed to `xQueueSend`, a `std::string` built
from a null pointer); nothing is said of the program after it.

Critical sections that make no call outside the registry are one step, taken while the mutex is
free: what happens between their lock and unlock is invisible to tasks that must take the mutex to
look. `sendToNextClient` holds the mutex over two steps because `xQueueSend` touches a queue that its
owner reads and deletes without the mutex. `CreateQueue` abstracts a failing `xQueueCreate` to no
step, which is what the code does with it. A call with a null argument, or a send to address 0,
returns at once and is left out. The payload (`IBusCommand`) is left out: nothing depends on it.

`Usage` says which optional calls an application makes: `direct` (send to an address), `leave`,
`disconnect` (and connecting again), `destroy`. `Anchors` are clients connected before all others and
never removed. They are a hypothesis about the application: while the oldest client stays, the entry
that `remove_if` leaves behind is a copy of that client's, and the code works. The runs without
anchors show which properties need no such hypothesis, and which fail without it.

### Runs

| Run | Instance | Shows |
|---|---|---|
| `members` | 3 clients, queues of 2, 2 messages, group and direct sends | `FifoPerGroup` |
| `churn` | an anchor and a client that is destroyed, disconnected, built anew; queues of 1, 2 messages | `TypeOK`, `ResolvesValidQueue`, `SingleOwner`, `AtMostOnce`, `OnlyTargetsReceive`, `NoSilentLoss`, `FreshAddress`, `ImplementsMulticast` |
| `registry` | 2 clients, no anchor, 2 names, every registry call, no messages | `GroupsConsistent`, `AddressesConsistent`, `ConnectedIsRoutable`, `JoinFindsGroup`, `OnlyOwnerUnsubscribes` |
| `progress` | an anchor and a client that is destroyed, queues of 1, fair tasks | `Settles`, `CallsReturn` |
| `deadqueue` | no anchor, destruction | violation of `ResolvesValidQueue`: a message is sent to a deleted queue |
| `reusedqueue` | no anchor, destruction, no messages | violation of `ListedIsConnected`: a new client inherits the address of a destroyed one |

The bounds are `MaxConnects` addresses, `MaxMsgs` messages and `MaxMembers` entries of a group's
list; a call is begun only if it can be finished within them. Two messages are what ordering,
duplication and overtaking need; a queue of one or two slots overflows with two messages, so the
full-queue branch is taken; three addresses for two clients include a client that connects again
after it was destroyed; three entries in a list of two members include the duplicates that leave
makes. `members` has three clients because a message of two members passes through a third task.
Clients that are not anchors are interchangeable, and so are queues; `progress` uses no symmetry,
and `deadqueue` and `reusedqueue` do not check for deadlock since nothing is said after `undef`.

*Fairness* (`progress` only). A task that is inside a bus call goes on (weak fairness of `Proceed`):
FreeRTOS runs every ready task of equal priority, and the critical sections are finite. A task comes
back to `tryReceive` while its queue holds something, and its handler returns (strong fairness,
because the task makes other calls in between). Nothing is assumed of sends, joins or destruction.

### Proofs

All hold for every set of clients, queues and names, every queue length and every bound; `Clients`,
`Queues` and `Names` need not be finite. `TypeSafety`, `MutexSafety`, `GroupSafety` and `JoinSafety`
(`BusProofs`), `AddressSafety`, `RoutingSafety` and `SubscriptionSafety` (`BusRouting`) assume nothing
but `BusAssumption`. The others assume something of the application, and a run or a behaviour found with
TLC shows that they fail without it:

| Theorem | Property | Hypothesis |
|---|---|---|
| `AddressesFresh` (`BusRouting`) | `FreshAddress` | `OldestStays`: there is an anchor, or nobody disconnects or is destroyed |
| `QueueSafety`, `TargetSafety`, `OwnerSafety`, `DeliverySafety` (`BusMessages`) | `ResolvesValidQueue`, `OnlyTargetsReceive`, `SingleOwner`, `NoSilentLoss` | `OldestStays` |
| `Refinement` (`BusDelivery`) | `ImplementsMulticast` | `OldestStays` |
| `ReceiptSafety` (`BusDelivery`) | `AtMostOnce` | `OldestStays`, and nobody leaves a group |
| `OrderSafety` (`BusOrder`) | `FifoPerGroup` | `EverybodyStays`: nobody leaves, disconnects or is destroyed |

Without `OldestStays` there are `deadqueue` and `reusedqueue`. Leaving can list another member twice
(see the findings), who receives a message twice; that is not `AtMostOnce`, nor the order sent. A member
that disconnects or is destroyed with a message in its queue holds that message up: a later one is not
sent through it any more and overtakes.

* `TypeInv` strengthens `TypeOK` with what a program counter implies of the variables (`InCall`), that
  two clients never share a queue (`OneQueueEach`: without it a deletion could break another client's
  type), and `MutexHeld`.
* `GroupsConsistent` is inductive over typed states. `JoinFindsGroup` follows from it because no step
  removes a group.
* `RoutingInv` is `AddressesConsistent` with `Listed` (the entry of a connected client is in the
  list) and `LeavingIsOff` (a client in its destructor has no address). The heart is `RemoveIf`:
  lemma `RemoveIfType` says that what is left are entries of the old list, `RemoveIfKeeps` that an
  entry not to be removed survives. So the equivalence of address and queue passes to the new list,
  and no other client's entry is lost.
* `OnlyOwnerUnsubscribes` is `RemoveIfKeeps` applied to a group's list, with `ConnectedIsRoutable` to
  tell two clients' addresses apart.

* `OldestInv` says what `remove_if` can leave behind. An entry that is in `m_clients` twice is the last
  one's (`DuplicatesAreLast`), and the last one is an anchor's, if there is an anchor (`LastIsAnchors`), so every entry is a
  connected client's (`EntriesConnected`) and a queue that is found is alive.
* `TargetInv`: a queue that was resolved is, until it is sent to, that of a connected target: the task
  holds the mutex meanwhile, and disconnecting takes it.
* `OwnerInv`: the pointer of a message is at one place of one queue or with one task (`OneSlot`); a dead
  queue is empty, a task has a message to forward exactly while it forwards, and what has been lost is
  nowhere. `OneSlot` is about all messages at once: taking one off a queue, as TryReceive and Drain do,
  must not bring another into two hands.
* `DeliveryInv`: a target that is still connected has received a message, or the message is on its way
  to it, or has the target's address still on its list. A connected target is found, hence an address
  that leads nowhere is nobody's.
* `OnceInv`: nobody is listed twice, and a client with the message in its queue or its history is on the
  list no more. Addresses are never given twice (`AddressesFresh`), or a new client could stand on an
  old list.
* `Refinement` uses all of these: `Placed` says where `Multicast` has each message, and one lemma per
  kind of step shows that the place moves as `Multicast` moves it, or stays.
* `OrderInv`: a group's list grows in front only and is visited from the back, so the later of two
  messages has the way of the earlier, and some more (`RoutesGrow`). Nobody on the way is skipped
  (`Visits`), and a message is with the member it has come to and with nobody else (`Whereabouts`); a
  member that has received a message has also passed it on, unless it is doing so (`Handled`). From this
  follows `Ahead`: where both are in one queue the earlier is in front, and nowhere has the later one
  come further than the earlier.

* `MessagesRunOut` needs none of the hypotheses: a task that turns to a queue has shortened the message's
  list, nothing lengthens it, and nothing else fills a queue (`HopsRunOut`). So no message is sent to
  more queues than its list had entries.

Liveness (`Settles`, `CallsReturn`) is only model-checked; `MessagesRunOut` is the part of `Settles` that
can be proved.

### What the model leaves out

The text of names and commands; `waitTime`, since blocking in `xQueueReceive` and an empty poll differ
only in time; a failing `xSemaphoreTake`, which with `portMAX_DELAY` does not happen; `Int32`
wrap-around of the address counters, which needs 2^31 connections; exhaustion of the heap. Calling
one client object from two tasks is not modelled: the class has no protection against it and its
interface (`tryReceive` is protected) says one task per object.

## 4. The network: `Events`, `Station`, `UdpSrv`, `Netio`

### How the model corresponds to the code

| Code | Actions |
|---|---|
| `udp_srv_task` (main.cpp 41-50) | `UdpWait`, then `OpenSocket`; `run()` returns to the wait |
| `open_socket` (UdpSrv.cpp 57-64) | `OpenSocket`, with a socket or without |
| `close_socket` (66-74), from either task | `CloseCheck`, `CloseSocket`, `CloseReset` |
| `run` (113-156) | `Receive`, then `ReceiveFails`, `HandleDiscovery`, `HandleOther` or `HandleShort`, then `NotYet` or the discovery message |
| `sendDiscoveryMessage` (85-111) | `SendDiscovery`, `SendDiscoveryFails` |
| `sendData` (158-178), from the main task | `SendData`, `SendNext` per client, `SendFails`, `SendDone` |
| `wifi::handle_event` (Wifi.cpp 65-105), on the event task | `StaStart`, `StaGotIp`, `StaDisconnected` and `ClearBit` |
| the driver and the access point (external) | `Associate`, `GetIp`, `Drop`, `AccessPoint` |
| the network (external) | `Arrive` |

`g_sock` and `g_clients` are shared by two tasks and nothing guards them. Every call of the network
stack may let the other task run, so a task reads `g_sock` anew in every step: `close_socket` tests
one descriptor and may close another, and may overwrite a socket that was opened meanwhile. That
leaks the socket; nothing in the repository says it must not, so it is no property, but it is part of
the states every property is checked in.

`g_clients` is a `std::set` whose ordering, `addr < or port <`, is no strict weak ordering. The set is
modelled as the sequence its iterator gives. `Places` are all the positions at which a descent by
that ordering can end, `Emplace` inserts at one of them unless the element before it is not less:
more than one tree could do, and so nothing is assumed about its shape. An iterator stays with its
element, as in the standard. The increment of an iterator while the other task inserts is a data race
whose effect inside the tree is not modelled.

A datagram is an announcement, one that is cut off, one too short for an id, or another message.
`rx_id` is the id that the receive buffer holds from before: when `recvfrom` fails, `run` looks at
it, because `sizeof(MsgIdType) > len` converts -1 to the largest unsigned number. The source address
is then what the uninitialised `sockaddr_in` holds: any of `Peers` and `Garbage`.

`PortAtCreation` is what the network stack does with a socket that was never bound and has sent
nothing: with `TRUE`, as in the runs, it has a port at once and can be sent to. With `FALSE` the first
`recvfrom` of a device that has not announced itself waits for a datagram nobody can send, and the
device and its peers wait for each other. `UdpSrv.cpp` includes `lwip/sockets.h`, and lwIP is of the
second kind: it gives a socket that is not bound its port with the first send. The runs take the first
kind, since with the second one nothing else happens; the theorems hold for both.

`Station` has a driver that runs beside the event task and posts events to it. An event may be out of
date when it is handled: `StaDisconnected` asks for a new connection first and `ClearBit` clears the
bit after it, and the driver may have the connection by then. `Netio` composes the two: the bit is all
they share.

### Runs

| Run | Instance | Shows |
|---|---|---|
| `server` | 2 peers and a garbage address, 2 descriptors, 1 datagram waiting, the bit free | `ServerOK`, `SentToAll`, `Remembered` |
| `netio` | station and server, 1 peer, 1 descriptor | `NetioOK`, `BitFollowsLink`, `Reconnects`, `Starts` |
| `norestart` | fair tasks, 1 peer, 1 descriptor | violation of `Restarts`: a closed socket is never opened again |

The peers of `server` are each less than the other, the case in which the ordering fails; with the
garbage address three elements are in that relation, so an element may be found at several places.
Two descriptors let a task close a socket the other one has just opened. `MaxClients` is the number
of addresses there are, in `server` and in `netio`. `MaxWaiting` is one datagram: a second one is
received after the first.

*Fairness.* Each task runs (weak). A blocked `recvfrom` whose socket is closed returns. `socket()`
succeeds now and then (strong): otherwise no property about restarting could hold. The UDP task's
wait ends if the bit is set again and again (strong), because FreeRTOS removes the waiting task from
the event group's list when the bit is set, not when the task runs. An attempt to associate succeeds
now and then if the access point is there (strong). Nothing is assumed of peers or of the link.

*Left out*: the contents of messages, `init_acess_point` (nothing calls it), `SYSTEM_EVENT_STA_LOST_IP`
(the code does not handle it), the one-second pause between two calls of `run` and the period of the
discovery message, which is sent whenever it likes.

### Proofs (`NetioProofs`)

All invariants of both runs, for any peers, garbage, descriptors and bounds, with no hypothesis but the
assumptions on the constants.

* `ServerSafety`, `SendsToAll`, `ClientsRemembered` (`ServerOK`, `SentToAll`, `Remembered`). Lemma
  `EmplaceEffect` says all that is needed of the set with the broken ordering: whatever the shape of the
  tree, the new element is there afterwards, nobody is forgotten, and nobody at or behind the iterator
  gets before it. `SendingRest`: while `sendData` iterates, every client that was there when it began has been
  sent to or is at the iterator or behind it.
* `NetioSafety`, `BitIsRight` (`NetioOK`, `BitFollowsLink`). `InOrder` is about the events
  on their way: while the link is up, every pending `disconnected` has a `got_ip` behind it, and otherwise
  the other way round. So the bit is wrong only while the event that corrects it waits.
* `ComposedServer`, `ComposedStation`: a behaviour of `Netio` is one of `UdpSrv` and one of `Station`,
  with the fairness of each. `UdpSrv` lets the bit change at any time; the station does no more than that,
  and the server never writes the bit. So what is proved of the server alone, for any bit, holds beside the
  station (`ComposedSends`).

`Starts` and `Reconnects` are liveness and only model-checked.

## 5. The OneWire search

### How the model corresponds to the code

| Code (`onewire.cpp`) | Actions |
|---|---|
| `reset_search` (206-216), `target_search` (221-230) | the same |
| `search` (248-362), before its loop | `AfterLastDevice`, `NoPresence` or `BeginSearch` |
| its loop (285-335) | `ReadBit`, then `ReadComplement`: `NobodyAnswers`, or `Select` with `Direction` and `LastZero` |
| its end (337-361) | `Finish`, `GiveUp` |
| main.cpp 112-127 | `Report`, `BadCrc`, `reset_search` when search returns false |

A ROM code is a function from positions to bits; `ROM_NO` and the three counters are those of the
class. The wire is low if one of the devices that still answer sends a 0; writing a direction silences
those with the other bit. Devices are plugged in and unplugged between any two steps. A bit may be
misread, once in a search (`MaxMisreads`): the check sum, which is a set of valid codes with the one
property that no two of them differ only in the last bit, can be asked to catch one. A short of the
wire during a search is left out for that reason (see the hazards), as are the timing of a bit,
`LastFamilyDiscrepancy`, which nothing reads, and the search for devices with an alarm.

`round` is a history variable: what was reported since the search began anew, and which devices were
there all the time and are still owed. `Enumeration` is the same without codes, bits or the place of the
search: a call takes one step to find a device that the round has not seen, or to find none, which it
may only if no device is owed. `SearchEnumeration` maps a search to it: while the search reads bits its
call is under way (`CallOf`), and `ROM_NO` is its result only when it has ended (`CodeOf`). `round` is
forgotten (`Disturbed`) when a device leaves, a bit is
misread or a presence pulse is missed: the place of the search is then that of a bus that is gone,
and the rest of the round may skip a device or find one twice. That this is repaired in the next
rounds is what `FoundAgain` says.

### Runs

| Run | Instance | Shows |
|---|---|---|
| `search` | 4 devices with codes of 4 bits, target searches, a misread bit per search | `SearchOK`, `NoPhantoms`, `NoneTwice`, `NoneMissed`, `TargetFirst`, `ImplementsEnumeration` |
| `found` | 3 devices, a misread bit per search, then a quiet bus | `FoundAgain`, `RoundsEnd` |

Four bits hold a family of two, a serial number of one and a check bit. The four devices differ at
the first, the second and the third bit, so that a search passes up to two discrepancies before the
last one and two families share a prefix. The only fairness is that the main task runs. Quiet (`calm`)
means that no device leaves, no bit is misread and nobody calls `target_search`; the bus may still
grow.

### Proofs

All the safety properties of `search` are theorems, for every length of the codes (the code has 64
bits), every set of devices and everything that happens to the bus: `SearchTyped`,
`SearchFindsNoPhantoms`, `SearchFindsNoneTwice`, `SearchMissesNone`, `TargetIsFirst` and
`SearchImplementsEnumeration` (`OneWireSearchProofs`). The assumption is `SearchAssumption`: a device has a family code
other than 0 and a valid check sum, which the rest of the code determines, and at most one bit is
misread in a search.

* `PhantomInv`: a search is on the way of a device that was asked, or a bit was misread; and then
  nobody answers it any more, so it reads two ones next and ends. If it is at the last bit, the check
  sum decides (lemma `LastBit`).
* `RoundInv` orders codes by their first difference (`Before`). Between two calls all codes reported
  lie before `ROM_NO`, and every device owed leaves it, with a 1 where it has a 0, at
  `LastDiscrepancy` or earlier. A call first follows the old code (`FollowInv`), leaves it at the last
  discrepancy (`TurnStep`) and takes 0 from there on (`BeyondInv`, `LeftInv`: a device not taken is
  remembered by `last_zero`, being behind the code at that place or before). Devices added meanwhile
  change none of that. The first search after `target_search` is the same with the family code
  instead of the old one (`FirstStep`).

* `SearchAscends` is what `RoundInv` says of a round's length: each code found lies behind all those
  found before in one order of all codes (`Before`), and there are but finitely many.
* `SearchImplementsEnumeration` puts these together: with the three invariants a
  step of the search is a step of `Enumeration`, or none. One lemma for each end of a call
  (`NoneMaps`, `FoundMaps`), the other steps map one to one.

`FoundAgain` and `RoundsEnd` are liveness and only model-checked.

## 6. The device: main loop, sensor, reset, bits, check sums, streams

### How the model corresponds to the code

| Code | Actions |
|---|---|
| main loop (main.cpp 112-127) | `CallSearch` with its pause, `SearchFinds` or `SearchEnds`, `reset_search`, `TakeDevice` |
| `TemperatureSensor::create` (TemperatureSensor.cpp 14-32) | `KindOf`, in `TakeDevice` |
| `measureTemperature` (34-62) | `Reset`, `StartConversion`, `Delay`, `Reset`, `ReadScratchpad` |
| `getCelsius` (64-93) | `CelsiusB20`, `CelsiusS20` |
| `sendData` of the result (main.cpp 144-157) | `Send` |
| `OneWire::reset` (onewire.cpp 34-73) | `CallReset`, `WaitFree`, `Pulse`, `WaitRise`, `WaitPresence`, `WaitEnd`, `Settle` |
| `write_bit`, `write`, `depower`, `read_bit`, `read` (79-166, 193-198) | the same |
| `crc8`, `crc16`, `check_crc16` (401-456) | `AddByte`, `Accepted` |
| `OutputBase::write`, `ArrayOutputStream` (OutputStream.h, .cpp) | `WriteValue`, `flush` |
| `messages::create` (Messages.h 48-54) | `create` |
| `InputBase::read`, `ArrayInputStream` (InputStream.h, .cpp) | `Deliver`, `ReadValue`, `Rewind` |

*`Sensor`* extends `Enumeration`, so that what it says of search is what the search was shown to do.
Time is counted in ticks of 10 ms (`portTICK_PERIOD_MS`) and passes in `vTaskDelay` only, whose first
tick may come at once; a conversion takes any of `Conversions`. Each device keeps the temperature on its
scratchpad (85 degrees after power-on) and the ticks until its conversion ends; a busy device does not
hear a second start. `heard` are the devices that saw the last reset: only they answer. A device may be
unplugged, and the wire be disturbed, between any two steps; a disturbed read is nine bytes with a wrong
check sum (`ReadBad`) or nine zeros, whose check sum is right (`ReadZeros`). `meant` is a history
variable, the temperature that was on the scratchpad. Temperatures are integers in sixteenths of a
degree, exactly what the division by 16 of a 16-bit number gives in a `float`. `Celsius` does the
code's 16-bit arithmetic; what a sensor puts into its bytes, with the undefined low bits, is `PadB20`
and `PadS20`, after the data sheets.

*`OneWireReset`* has the four waits with one budget of polls, in microseconds. `wire` is how long the
wire stays low before a presence pulse, and when that begins and ends. Nothing switches interrupts off
(main.cpp 52), so every way from one poll to the next may take longer than its delay, by one of
`Overruns`; `over` is the sum of that and `longest` the most of it, both history variables.
*`OneWireSlots`* takes a bit per step; a device looks at the wire, or lets it go, at some time of the
slot, and an interrupt may make a slot late, by one of `Late` (`lates`, a history variable). *`Crc`* changes up to two bits of a frame
(`errors`) and lets the program compute `crc` of what arrives, byte by byte, while the device's
`register` takes the bits that are sent; when the data is over the device sends its register. That is a
history variable, which the program does not see. A byte is a function from places to bits, since
that is what xor and shift are about, and a place changes the register as the code's masks (0x8C, 0xC001
with the shifts by 6 and 7) do. The longest frame is the 11 bytes of the example in onewire.h; `crc16` and `check_crc16`
are called there and nowhere else in the repository.

*`Streams`* has types as data, since the code's templates are: a value
knows its bytes (`Parts`), the buffer takes what fits of them, the reader gets what was written or less
of it, and `readInto` takes it apart as the overloads of `read` do. A value is read into an object:
numbers, strings and vectors replace what is in it, lists, sets and maps add to it. A container makes a
new object for each of its items (`readAs`), but the iterator of a vector reads all of them into one
`m_value` that nothing clears (`Iterate`). `Streams` uses recursive operators and
nothing is proved about it. Nothing writes a vector, but it can be read: its form on the stream is the
one its `read` expects, and it is the outermost type of a value. What `sizeof` says of the library's
classes is an input (`ClassSize`).

### The run `device`

The units share nothing but those calls, so `MCDevice` lets a behaviour be one of one unit (`unit`).
A transfer of bytes and the reading of a frame or a stream end: `CHECK_DEADLOCK FALSE`.

| Property | Instance |
|---|---|
| `ReportsTruth`, `NeverBusy`, `ReportedAgain` | a DS18S20, a DS18B20 of 9 bits, a DS1822 that never answers well; a code of nobody; conversions of 100 and 750 ms |
| `ResetTells`, `ResetReturns` | the times of the source; presence pulses that end around the limit, polls that are 20 or 60 us late, by 60 us together |
| `BytesCross` | slots sampled and held for 15 and 60 us, one slot of each byte late by 1 to 50 us, six bytes, with and without power |
| `CatchesErrors` | a scratchpad of 8 bytes with its crc8 and a frame of three bytes with crc16, every one and every pair of bits changed |
| `RoundTrip` | two values of twelve types, nested ones and vectors of containers too, in buffers of 12 and 48 bytes, cut off after every byte |

The one temperature to be measured, -9/16 of a degree, is negative and not a multiple of a degree, of
a half or of a quarter, so that sign, rounding and the remainder of a DS18S20 count; with the 85 degrees
a scratchpad has two possible contents, which shows whether a value is an old one. Every
pair of bits is what one changed slot in each of two bytes amounts to. The
pulse ends are those around 136 us, the budget after a first wait of one poll (68 polls of 2 us), around 78 us,
that after a first wait of 300 us, and 20 and 60 us after 136, for late polls; the gap and the pulse
are long enough for a poll that is 20 us late and may be too short for one of 60 us.
The lateness of a slot is at the limits: 1 us is what a read can bear of a device that lets go of
the wire after 15 us, and 5 us what a written 1 can bear. A buffer of 12 bytes
has room for a `Discovery` message and not for a `Temperature`, one of 48 for either and for two of most
values; `ClassSize` is that of a 32-bit libstdc++.

*Fairness.* The main task runs (weak), a call of reset goes on (weak), and search says "none" again and
again (strong): that is `RoundsEnd`, which the run `found` shows of the search itself, and which
`Enumeration`, being a safety specification, leaves open. The liveness property
is about a quiet bus, on which nothing is misread and a device's presence pulse ends within the `Budget`
of reset; otherwise nothing is assumed of devices or of the wire.

`ResetTells` counts polls, as the code does: `Budget` is when a pulse has to end if every poll comes
exactly when it was asked for, and late polls put that off by `over`. It says nothing of a poll so late
that the wire was high and low again, or a pulse over, since the one before (`Visible`): reset then says
that nobody answers. `BytesCross` says which bits a late slot may spoil, and in which direction.

`RoundTrip` has two exceptions, both of vectors. Items that are containers, or objects with one, come
with all that was before them in the vector (`ReadBack`): a vector of the lists l1 and l2 is read as l1
and l1 followed by l2. And the iterator stops when less than
`sizeof(ValueType)` bytes are left (InputStream.h 138), so a vector of objects that are shorter on the
stream than in memory is refused if nothing follows it (`Starved`).

### Proofs (`DeviceProofs`)

* `ResetIsRight`: `ResetTells` for all delays, late or not, and all times of the wire and pulses with
  `ResetAssumption`, which asks that the wire be up before a device answers. The
  invariant relates `now` to the polls used and to `over`, and says, for each wait, what the last poll saw.
* `CelsiusOfB20`, `CelsiusOfS20`: `getCelsius` applied to what a sensor stores is the temperature, for
  every one that fits into 16 bits, rounded down to the resolution. The rest of the division is
  reasoned about with the quotient as a variable.
* `SensorIsTruthful`: `ReportsTruth` for all devices, temperatures and conversion times. The invariant:
  the sensor object is of a device with a family code of a sensor, what is stored on a device can be
  measured, and at `send` the scratchpad read is one of those `Pads` gives for `meant`. The two theorems
  before do the rest.

* `SensorsAreLeftAlone`: `NeverBusy` if no conversion is longer than two pauses of the main loop
  (`Cools`: 98 ticks of 10 ms; the longest conversion takes 750 ms). The invariant, `CoolInv`: the
  ticks a sensor still needs are no more than the pauses before it can come up again, which are two right
  after its start, one fewer if the round is a new one, and one fewer once the pause of the call under way
  is over (`Due`). There are always two, since a round ends with a call that finds nothing.
* `BytesArrive`: `BytesCross` for all bytes, however late the slots, any number of them, and whenever a
  device lets go of the wire or looks at it, if it does not look only when a 0 is over (`SlotsFit`).
  `SlotsInv`: after `mask` slots, each bit so far is that of the byte or was spoiled by its own slot. A
  bit that is put in front changes none of those below it (`BitsStay`).
* `ErrorsAreCaught`: `CatchesErrors` for all contents of up to 11 bytes, with either check sum and any
  two bits changed. `Crc16IsDivision` says of crc16's parity and shifts, for every check sum and byte, that
  they are eight places of the device's shift register, and `Crc8IsDivision` the same of crc8. The register is linear: the difference of the
  program's and the device's is a register itself, fed with the wrong bits alone. So `CrcInv` follows only
  that difference (`Differs`), which is zero up to the first wrong bit, then what one wrong bit leaves
  after so many places, and with the second wrong bit that with one place more changed. What one bit
  leaves is a table of 88 entries, each obtained from the one before; none is zero and none is what a fresh wrong
  bit puts there. The bound is needed: with crc8 the table comes back after 127 places, so two wrong bits
  at that distance are not noticed.
* `SensorKeepsPromise`: every behaviour of `Sensor` is one of `Enumeration`, so what is proved of the
  sensors rests on that promise of the search, which `SearchImplementsEnumeration` proves, and on no other.
* `ResetCountsDown`: any call of reset has at most `MaxRetries` + 2 steps left (`StepsLeft`), and each of
  its steps uses one up, also on a shorted wire. The fairness of the main task makes `ResetReturns` of it.

Only model-checked: `RoundTrip`, since values on a stream nest and `Streams` is recursive; and liveness.

## 7. Findings

With a run:

* `Bus.cpp:54` discards the result of `std::remove_if`. The entry of the client that connected first
  is never removed, so a message to its address goes to a deleted queue (`deadqueue`), and a new
  client whose queue happens to get that handle receives the old client's address (`reusedqueue`).
  With a first client that stays, neither happens (`churn`).
* `Bus.cpp:122` does the same to a group's list: a leaving member may stay on it and a younger one be
  listed twice. `registry` and `SubscriptionSafety` show that nobody else is dropped by it.
* `UdpSrv.cpp:121` compares `recvfrom`'s result with an unsigned size, so a failure is taken for a
  datagram. After `sendData` or the discovery message closed the socket, `run` calls `recvfrom` on
  descriptor -1 without end and never returns to `udp_srv_task`, which would open a new one, although
  `close_socket` logs "Shutting down socket and restarting..." (`norestart`). The trace needs
  `PortAtCreation = TRUE`: no send can fail before a client is known, and none becomes known to a socket
  that has no port. With lwIP, whose headers the file includes, `recvfrom` waits for ever instead.

Without one, facts that the models rest on:

* `OneWire::reset` waits up to 690 us for the wire to rise before the pulse, where onewire.h:121 says
  250, and the polls it uses there are missing later. Even with all of them it returns false for a
  presence pulse that ends more than 136 us after the reset pulse, although onewire.cpp:32 says that it
  returns 1 if a device asserted one. `Budget` in `OneWireReset` is that limit, for delays that are
  exactly as long as asked for; by as much as they are longer, it comes later.
* A read slot bears 1 us of delay by an interrupt and a written 1 bears 5 us (onewire.cpp 84-120), and
  the callback that should switch interrupts off is empty (main.cpp 52). A bit that is spoiled is left to
  the check sums.
* The value sent is that of the previous measurement, since 10 ms pass between start and reading and
  a conversion takes 94 to 750 ms; after power-on it is 85 degrees. Nine zero bytes are sent as 0
  degrees. `ReportsTruth` says no more than that.
* The pin is open-drain, so `write(.., 1)` does not give a parasite-powered sensor its current.
* A vector of objects at the end of a stream is refused (`Starved`), and containers in a vector pile up:
  the iterator reads every item into one `m_value` and never clears it (InputStream.h 122-151). A string reserves the memory for
  its length before it compares that with what is left; `ArrayInputStream::reset` takes any offset.
  Nothing in the repository reads a stream yet.

## 8. Not modelled

* *Bus commands* are types for a double dispatch: nothing of the bus depends on them.
* *Utilities*: the CPU id and the log of the build are pure. `msecToSysTick` is in `Sensor`.
* *Application*: the LED task, and the start-up, which is straight-line configuration before the tasks
  exist.
* *OneWire*: the alarm search, which nobody calls; the table variant of `crc8`, which is not compiled;
  `skip`, `write_bytes` and `read_bytes`, loops over `write` and `read`; parasite power; shorts during a
  search (see the hazards). The interrupt mode, since its callback is empty.
* *Messages*: `parse` is a stub that returns false, so the callbacks are stored and never called.
* *Wi-Fi*: `init_acess_point`, which nobody calls, and a lost IP address, which nobody handles.

The hazards in `PROJECT.json` that no property covers say why.
