---------------------------- MODULE OneWireSlots ----------------------------
(***************************************************************************)
(* Bytes over the wire: write, read, select and what they do to the pin.   *)
(* A slot begins when the program pulls the wire low.  A device tells a 1  *)
(* from a 0 by the level it finds some time later, and sends a 0 by        *)
(* keeping the wire low for some time itself.  Times are microseconds.     *)
(* The interrupt callback of main.cpp does nothing, and so an interrupt    *)
(* may make the low part of a slot longer than the delays asked for.       *)
(***************************************************************************)
EXTENDS Integers, Sequences, FiniteSets

CONSTANTS
  WordBits,   (* of a byte: 8                                                *)
  Samples,    (* when in a slot a device looks at the wire: 15 .. 60         *)
  Holds,      (* how long a device that sends a 0 keeps it low: 15 .. 60     *)
  Late,       (* by how much an interrupt may lengthen the delays            *)
  MaxLate,    (* bound: in how many slots of a byte                          *)
  Bytes,      (* the bytes that are sent                                     *)
  Calls       (* sequences of calls: write, power (write with power),        *)
              (* depower, read                                               *)

ASSUME SlotsAssumption ==
  /\ WordBits \in Nat \ {0}
  /\ Samples \subseteq Nat /\ Holds \subseteq Nat /\ Late \subseteq Nat
  /\ MaxLate \in Nat /\ 0 \in Late
  /\ Bytes \subseteq 0 .. 2 ^ WordBits - 1
  /\ Calls \subseteq Seq({"write", "power", "depower", "read"})

VARIABLES
  calls,     (* those still to come                                          *)
  byte,      (* the argument of write, or what the device sends              *)
  mask,      (* bitMask: the number of the bit, WordBits at the end          *)
  r,         (* what read has put together                                   *)
  received,  (* bits that the device has received                            *)
  lates,     (* history: by how much the slots of this byte were late        *)
  pin        (* its direction, and the level written to it                   *)

slotvars == <<calls, byte, mask, r, received, lates, pin>>

INPUT  == "INPUT"
OUTPUT == "OUTPUT"

Bit(b, i) == (b \div 2 ^ i) % 2

(* The next call, with any byte.                                           *)
NextCall(rest) ==
  /\ calls' = rest /\ mask' = 0 /\ r' = 0 /\ received' = <<>> /\ lates' = <<>>
  /\ byte' \in Bytes

SlotsInit ==
  /\ calls \in Calls /\ byte \in Bytes
  /\ mask = 0 /\ r = 0 /\ received = <<>> /\ lates = <<>>
  /\ pin = [mode |-> INPUT, value |-> FALSE]

Calling(names) == calls # <<>> /\ Head(calls) \in names

---------------------------------------------------------------------------
(* A slot that an interrupt makes late by so much, or not at all.          *)
SlotIsLate(late) ==
  /\ late # 0 => Cardinality({i \in DOMAIN lates : lates[i] # 0}) < MaxLate
  /\ lates' = Append(lates, late)

(* The time for which the program holds the wire low.                      *)
LowUs(v) == IF v = 1 THEN 10 ELSE 65

(* write_bit: the wire is left high.                                       *)
write_bit ==
  /\ Calling({"write", "power"}) /\ mask < WordBits
  /\ \E t \in Samples, late \in Late :
       /\ SlotIsLate(late)
       /\ received' = Append(received, IF LowUs(Bit(byte, mask)) + late <= t THEN 1 ELSE 0)
  /\ pin' = [mode |-> OUTPUT, value |-> TRUE]
  /\ mask' = mask + 1
  /\ UNCHANGED <<calls, byte, r>>

(* The end of write: the wire is let go unless it has to give power.       *)
write ==
  /\ Calling({"write", "power"}) /\ mask = WordBits
  /\ pin' = IF Head(calls) = "power" THEN pin ELSE [mode |-> INPUT, value |-> FALSE]
  /\ NextCall(Tail(calls))

depower ==
  /\ Calling({"depower"})
  /\ pin' = [pin EXCEPT !.mode = INPUT]
  /\ NextCall(Tail(calls))

(* read_bit: 3 microseconds low, 10 more until the pin is read, which a    *)
(* device that sends a 0 holds low until t.                                *)
SampleUs == 3 + 10

Level(t, late) == IF Bit(byte, mask) = 0 /\ SampleUs + late < t THEN 0 ELSE 1

(* A slip: the first bit is the highest.                                   *)
read_bitHighFirst ==
  /\ Calling({"read"}) /\ mask < WordBits
  /\ \E t \in Holds, late \in Late :
       /\ SlotIsLate(late)
       /\ r' = 2 * r + Level(t, late)
  /\ pin' = [mode |-> INPUT, value |-> FALSE]
  /\ mask' = mask + 1
  /\ UNCHANGED <<calls, byte, received>>

read_bit ==
  /\ Calling({"read"}) /\ mask < WordBits
  /\ \E t \in Holds, late \in Late :
       /\ SlotIsLate(late)
       /\ r' = r + Level(t, late) * 2 ^ mask
  /\ pin' = [mode |-> INPUT, value |-> FALSE]
  /\ mask' = mask + 1
  /\ UNCHANGED <<calls, byte, received>>

read ==
  /\ Calling({"read"}) /\ mask = WordBits
  /\ NextCall(Tail(calls))
  /\ UNCHANGED pin

SlotsNext == write_bit \/ write \/ depower \/ read_bit \/ read

---------------------------------------------------------------------------
(* How late a slot has to be for a 1 to be kept low until a device looks   *)
(* at it, or for a device's 0 to be let go before it is read.              *)
LateToSend(late) == \E t \in Samples : LowUs(1) + late > t
LateToRead(late) == \E t \in Holds : SampleUs + late >= t

(* A byte arrives as it was sent, in either direction, whenever in a slot  *)
(* a device looks at the wire or lets it go: both sides begin with the     *)
(* lowest bit (onewire.cpp 79-166).  An interrupt spoils at most the bit   *)
(* whose slot it makes late, when it is late enough for that, and in one   *)
(* direction: a 1 is received as a 0, or a 0 read as a 1.  While a device  *)
(* may send, the program does not drive the wire.                          *)
BytesCross ==
  /\ mask = WordBits /\ Calling({"write", "power"}) =>
       \A i \in 1 .. WordBits :
         \/ received[i] = Bit(byte, i - 1)
         \/ received[i] = 0 /\ LateToSend(lates[i])
  /\ mask = WordBits /\ Calling({"read"}) =>
       /\ r < 2 ^ WordBits
       /\ \A i \in 1 .. WordBits :
            \/ Bit(r, i - 1) = Bit(byte, i - 1)
            \/ Bit(r, i - 1) = 1 /\ LateToRead(lates[i])
  /\ Calling({"read"}) /\ mask > 0 => pin.mode = INPUT

============================================================================
