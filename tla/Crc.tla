-------------------------------- MODULE Crc --------------------------------
(***************************************************************************)
(* The check sums of the OneWire bus.  A device sends a frame whose end is *)
(* what its shift register holds when the last bit of the data has gone    *)
(* out; up to two bits of the frame change on the way; the program         *)
(* computes crc8 or crc16 of what arrived, byte by byte, and compares.     *)
(* A byte is a function from places to bits, the lowest bit first, and a   *)
(* check sum likewise.                                                     *)
(***************************************************************************)
EXTENDS Integers, Sequences

CONSTANTS
  Data8,     (* the contents of frames with crc8, as sequences of bytes      *)
  Data16     (* and of those with crc16                                      *)

Binary == {0, 1}
Byte   == [1 .. 8 -> Binary]

(* The longest frame of the program is that of the example in onewire.h;   *)
(* a code has 7 bytes before its check sum and a scratchpad 8.             *)
LongestFrame == 11

ASSUME CrcAssumption ==
  \A sent \in Data8 \cup Data16 : sent \in Seq(Byte) /\ Len(sent) <= LongestFrame

VARIABLES
  check,     (* crc8 or crc16                                                *)
  data,      (* history: the bytes before the check sum, as they are sent    *)
  errors,    (* history: the bits of the frame that change on the way        *)
  register,  (* history: the device's shift register                         *)
  crc,       (* the program's check sum so far                               *)
  len        (* the bytes it is computed from                                *)

crcvars == <<check, data, errors, register, crc, len>>

Xor(a, b) == IF a = b THEN 0 ELSE 1

(* crc >>= 1; if (mix) crc ^= 0x8C.  A slip: the bit of the data does not  *)
(* count when it meets a zero of the check sum.                            *)
Halved(sum) == [i \in 1 .. 8 |-> IF i < 8 THEN sum[i + 1] ELSE 0]
Mixed(sum)  == [i \in 1 .. 8 |-> IF i - 1 \in {2, 3, 7} THEN Xor(sum[i], 1) ELSE sum[i]]

Crc8BitOr(sum, bit) == IF sum[1] = 1 /\ bit = 0 THEN Mixed(Halved(sum)) ELSE Halved(sum)

Crc8Bit(sum, bit) == IF sum[1] # bit THEN Mixed(Halved(sum)) ELSE Halved(sum)

crc8(sum, in) ==
  Crc8Bit(Crc8Bit(Crc8Bit(Crc8Bit(Crc8Bit(Crc8Bit(Crc8Bit(Crc8Bit(
    sum, in[1]), in[2]), in[3]), in[4]), in[5]), in[6]), in[7]), in[8])

(* cdata = (byte ^ crc) & 0xff; crc >>= 8; 0xC001 if one half of cdata     *)
(* has an odd parity and the other has not; cdata << 6 and cdata << 7.     *)
Cdata(sum, in) == [i \in 1 .. 8 |-> Xor(in[i], sum[i])]

OddParity(a, b, c, d) == Xor(Xor(a, b), Xor(c, d))

Folded(sum, cdata, odd) ==
  LET high(i)     == IF i <= 8 THEN sum[i + 8] ELSE 0
      parity(i)   == IF i - 1 \in {0, 14, 15} THEN odd ELSE 0
      shift(i, n) == IF i - n \in 1 .. 8 THEN cdata[i - n] ELSE 0
  IN  [i \in 1 .. 16 |-> Xor(Xor(high(i), parity(i)), Xor(shift(i, 6), shift(i, 7)))]

crc16(sum, in) ==
  LET c == Cdata(sum, in)
  IN  Folded(sum, c, Xor(OddParity(c[1], c[2], c[3], c[4]), OddParity(c[5], c[6], c[7], c[8])))

---------------------------------------------------------------------------
(* What a device does for each bit that it sends: the register goes on by  *)
(* a place, and the bit that leaves it, with the one that is sent, comes   *)
(* back at the taps of the polynomial.                                     *)
Width(type) == IF type = "crc8" THEN 8 ELSE 16
Taps(type)  == IF type = "crc8" THEN {3, 4, 8} ELSE {1, 14, 16}

Shift(type, reg, bit) ==
  LET back == Xor(reg[1], bit)
  IN  [i \in 1 .. Width(type) |->
         Xor(IF i < Width(type) THEN reg[i + 1] ELSE 0, IF i \in Taps(type) THEN back ELSE 0)]

Shift8(type, reg, out) ==
  Shift(type, Shift(type, Shift(type, Shift(type, Shift(type, Shift(type, Shift(type, Shift(type,
    reg, out[1]), out[2]), out[3]), out[4]), out[5]), out[6]), out[7]), out[8])

(* The places of a frame: the data's bits, and then the check sum's.       *)
Place(n, i)  == 8 * n + i
Places(type, sent) == 1 .. Place(Len(sent), Width(type))
Hit(place)   == IF place \in errors THEN 1 ELSE 0

Received(n) == [i \in 1 .. 8 |-> Xor(data[n][i], Hit(Place(n - 1, i)))]

CrcInit ==
  /\ \/ check = "crc8" /\ data \in Data8
     \/ check = "crc16" /\ data \in Data16
  /\ errors \in {{}} \cup {{i, j} : i, j \in Places(check, data)}
  /\ register = [i \in 1 .. Width(check) |-> 0]
  /\ crc = [i \in 1 .. Width(check) |-> 0]
  /\ len = 0

AddByte ==
  /\ len < Len(data)
  /\ len' = len + 1
  /\ register' = Shift8(check, register, data[len'])
  /\ crc' = IF check = "crc8" THEN crc8(crc, Received(len')) ELSE crc16(crc, Received(len'))
  /\ UNCHANGED <<check, data, errors>>

(* calcCrc() == crc, crc8(m_data, 8) == m_data[8], and check_crc16, which  *)
(* inverts its result and takes the low byte first; so does the device.    *)
Inverted(sum) == [i \in DOMAIN sum |-> Xor(sum[i], 1)]
AsSent(sum)   == IF check = "crc8" THEN sum ELSE Inverted(sum)

Sum == [i \in DOMAIN register |-> Xor(AsSent(register)[i], Hit(Place(Len(data), i)))]

Accepted == AsSent(crc) = Sum

CrcNext == AddByte

CrcSpec == CrcInit /\ [][CrcNext]_crcvars

---------------------------------------------------------------------------
(* A frame that arrived as it was sent is accepted, and one with a wrong   *)
(* bit, or two, anywhere in it is not: what the search and the reading of  *)
(* a scratchpad rely on (onewire.cpp 401-456, onewire.h 79-85,             *)
(* TemperatureSensor.cpp 54-57).                                           *)
CatchesErrors == len = Len(data) => (Accepted <=> errors = {})

============================================================================
