---------------------------- MODULE BusMulticast ----------------------------
(* The bus implements Multicast: where a message is follows from who owns   *)
(* the pointer to it.                                                       *)
EXTENDS Bus

PlaceOf(id) ==
  CASE \E q \in live : id \in Elements(fifo[q])          -> "waiting"
    [] \E c \in Clients : hand[c] = id                   -> "handled"
    [] \E c \in Clients : out[c] = id /\ At(c, "enqueue") -> "addressed"
    [] \E c \in Clients : out[c] = id /\ ~At(c, "enqueue") -> "moving"
    [] OTHER                                             -> "ended"

Abstract == INSTANCE Multicast WITH
  sent  <- [id \in DOMAIN msgs |-> msgs[id].targets],
  todo  <- [id \in DOMAIN msgs |-> msgs[id].destination],
  place <- [id \in DOMAIN msgs |-> PlaceOf(id)]

(* Every step of the bus is a step of a message along its list, or none of  *)
(* the messages' business (Bus.cpp 196-208, 232-275).                       *)
ImplementsMulticast == Abstract!Spec

============================================================================
