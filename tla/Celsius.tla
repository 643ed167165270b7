------------------------------ MODULE Celsius ------------------------------
(***************************************************************************)
(* The reading of a DS18x20 sensor.  A temperature is an integer, in       *)
(* sixteenths of a degree, which is what the float sent is a multiple of.  *)
(***************************************************************************)
EXTENDS Integers

(* What 16 bits can hold.                                                  *)
Fits(value) == value \in Int /\ 0 <= value + 32768 /\ value + 32768 < 65536

(* std::int16_t: the word as a two's complement number, and back.          *)
Int16(word)   == IF word < 32768 THEN word ELSE word - 65536
AsWord(value) == value % 65536

(* raw & ~(2^n - 1) on a 16-bit number.                                    *)
ClearLow(value, unit) == value - (value % unit)

(* The kinds of sensors, by family code; no sensor for any other.          *)
DS18S20  == "DS18S20"
DS18B20  == "DS18B20"
NoSensor == "none"

KindOf(family) ==
  CASE family = 16         -> DS18S20
    [] family \in {34, 40} -> DS18B20
    [] OTHER               -> NoSensor

(* The part of a scratchpad that matters: the temperature register, the    *)
(* configured resolution (9 to 12 bits) of a DS18B20, COUNT_REMAIN and     *)
(* COUNT_PER_C of a DS18S20.                                               *)
Unit(resolution) ==
  CASE resolution = 9  -> 8
    [] resolution = 10 -> 4
    [] resolution = 11 -> 2
    [] OTHER           -> 1

(* A slip: the register is taken for an unsigned number.                   *)
CelsiusB20Unsigned(pad) == ClearLow(pad.word, Unit(pad.resolution))

CelsiusB20(pad) == ClearLow(Int16(pad.word), Unit(pad.resolution))

(* Eight times the half degrees of the register; with the count, the half  *)
(* degree is dropped and the remainder of the count put in its place.      *)
CelsiusS20(pad) ==
  LET raw == Int16(AsWord(8 * Int16(pad.word)))
  IN  IF pad.perDegree = 16
      THEN Int16(AsWord(ClearLow(AsWord(raw), 16) + 12 - pad.remain))
      ELSE raw

getCelsius(kind, pad) == IF kind = DS18S20 THEN CelsiusS20(pad) ELSE CelsiusB20(pad)

---------------------------------------------------------------------------
(* What a sensor does with a temperature.  At a low resolution the last    *)
(* bits of the register are undefined (noise).  A DS18S20 counts the rest   *)
(* of a degree down, from COUNT_PER_C; the half degree (noise) is not used. *)
PadB20(temperature, resolution, noise) ==
  [word |-> AsWord(ClearLow(temperature, Unit(resolution)) + noise),
   resolution |-> resolution, remain |-> 12, perDegree |-> 16]

PadS20(temperature, half) ==
  LET degree == (temperature + 4) \div 16
  IN  [word |-> AsWord(2 * degree + half), resolution |-> 12,
       remain |-> 16 * degree + 12 - temperature, perDegree |-> 16]

============================================================================
