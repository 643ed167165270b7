----------------------------- MODULE Multicast -----------------------------
(***************************************************************************)
(* What the bus promises of a message, without registry, queues, mutex or  *)
(* tasks: it carries a list of addresses, visits them from the back, is at *)
(* one place at a time, and ends either with nothing left on its list or   *)
(* while it is being put into a queue, that is when the queue is full.     *)
(* A visit is a receipt unless the client goes away before it looks.       *)
(***************************************************************************)
EXTENDS Integers, Sequences

CONSTANT Clients

VARIABLES
  sent,   (* the list each message started with                              *)
  todo,   (* the addresses it still has to visit                             *)
  place,  (* where it is                                                     *)
  got     (* the messages each client received                               *)

vars == <<sent, todo, place, got>>

Places == {"moving", "addressed", "waiting", "handled", "ended"}

Init ==
  /\ sent = <<>> /\ todo = <<>> /\ place = <<>>
  /\ got = [c \in Clients |-> <<>>]

(* A message of any list of addresses.                                     *)
Post ==
  /\ Len(sent') = Len(sent) + 1
  /\ LET list == sent'[Len(sent')]
     IN  /\ list \in Seq(Int) \ {<<>>}
         /\ sent' = Append(sent, list)
         /\ todo' = Append(todo, list)
  /\ place' = Append(place, "moving")
  /\ UNCHANGED got

Move(id, from, to) == place[id] = from /\ place' = [place EXCEPT ![id] = to]

(* The next address with a client behind it; those after it are skipped.   *)
Address(id) ==
  /\ Move(id, "moving", "addressed")
  /\ \E n \in 0 .. Len(todo[id]) - 1 : todo' = [todo EXCEPT ![id] = SubSeq(@, 1, n)]
  /\ UNCHANGED <<sent, got>>

Arrive(id) == Move(id, "addressed", "waiting") /\ UNCHANGED <<sent, todo, got>>

Lose(id) == Move(id, "addressed", "ended") /\ UNCHANGED <<sent, todo, got>>

Receive(id, c) ==
  /\ Move(id, "waiting", "handled")
  /\ got' = [got EXCEPT ![c] = Append(@, id)]
  /\ UNCHANGED <<sent, todo>>

Resume(id) == Move(id, "handled", "moving") /\ UNCHANGED <<sent, todo, got>>

(* The client the message waits for goes away and passes it on unread.     *)
PassOn(id) == Move(id, "waiting", "moving") /\ UNCHANGED <<sent, todo, got>>

End(id) ==
  /\ Move(id, "moving", "ended")
  /\ todo' = [todo EXCEPT ![id] = <<>>]
  /\ UNCHANGED <<sent, got>>

(* A new client takes the place of an old one.                             *)
Forget(c) == got' = [got EXCEPT ![c] = <<>>] /\ UNCHANGED <<sent, todo, place>>

Next ==
  \/ Post
  \/ \E id \in DOMAIN sent :
       \/ Address(id) \/ Arrive(id) \/ Lose(id) \/ Resume(id) \/ PassOn(id) \/ End(id)
       \/ \E c \in Clients : Receive(id, c)
  \/ \E c \in Clients : Forget(c)

Spec == Init /\ [][Next]_vars

============================================================================
