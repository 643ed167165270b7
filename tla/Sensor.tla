------------------------------- MODULE Sensor -------------------------------
(***************************************************************************)
(* The main loop of the application with the temperature sensors: find a   *)
(* device, measure, convert, send.  What search does is Enumeration; that  *)
(* reset returns true only if a device is there is OneWireReset.  Devices  *)
(* come and go and the wire is disturbed between any two steps.  Time      *)
(* passes in vTaskDelay and is counted in ticks: the transfers of a loop   *)
(* take a few milliseconds and are left out.                               *)
(***************************************************************************)
EXTENDS Enumeration, Celsius

CONSTANTS
  FamilyCode,    (* of each device                                           *)
  Resolution,    (* of each device                                           *)
  Broken,        (* devices whose scratchpad never has the right check sum   *)
  Temperatures,  (* what there is to measure, in sixteenths of a degree      *)
  Conversions,   (* the times a conversion may take, in ticks                *)
  PortTick,      (* portTICK_PERIOD_MS: 10, so a pause of 10 ms is a tick    *)
  NoTemperature

(* A sensor has 85 degrees on its scratchpad before its first conversion.  *)
PowerOn == 1360

ASSUME SensorAssumption ==
  /\ FamilyCode \in [Devices -> 0 .. 255] /\ Resolution \in [Devices -> 9 .. 12]
  /\ Broken \subseteq Devices
  /\ Temperatures \subseteq {t \in Int : Fits(t) /\ Fits(t + 4)}
  /\ Conversions \subseteq Nat \ {0}
  /\ PortTick \in 1 .. 10
  /\ NoTemperature \notin Temperatures \cup {PowerOn}

VARIABLES
  at,        (* search, reset1, convert, delay, reset2, read, send           *)
  sensor,    (* the code the sensor object was created with                  *)
  heard,     (* the devices that have seen the last reset                    *)
  m_data,    (* the scratchpad read                                          *)
  meant,     (* history: the temperature that was on it                      *)
  stored,    (* on each device: the temperature on its scratchpad            *)
  due        (* and the ticks until its conversion ends, or 0                *)

object  == <<sensor, heard, m_data, meant>>
devices == <<stored, due>>
vars    == <<enumeration, at, object, devices>>

EmptyPad == [word |-> 0, resolution |-> 9, remain |-> 0, perDegree |-> 0]

SensorInit ==
  /\ EnumerationInit
  /\ at = "search" /\ sensor = NoCode /\ heard = {}
  /\ m_data = EmptyPad /\ meant = NoTemperature
  /\ stored = [d \in Devices |-> PowerOn] /\ due = [d \in Devices |-> 0]

---------------------------------------------------------------------------
(* vTaskDelay(msecToSysTick(ms)): the first tick comes early.  Conversions *)
(* that end leave a temperature on the scratchpad.                         *)
msecToSysTick(ms) == ms \div PortTick

Elapse(ms) ==
  \E ticks \in {msecToSysTick(ms) - 1, msecToSysTick(ms)} :
    LET done == {d \in Devices : due[d] \in 1 .. ticks} IN
    /\ due' = [d \in Devices |-> IF due[d] <= ticks THEN 0 ELSE due[d] - ticks]
    /\ \E t \in [done -> Temperatures] :
         stored' = [d \in Devices |-> IF d \in done THEN t[d] ELSE stored[d]]

(* The loop goes back to its beginning.                                    *)
Continue == at' = "search" /\ sensor' = NoCode /\ heard' = {}
            /\ m_data' = EmptyPad /\ meant' = NoTemperature

(* The pause at the head of the loop, and search.  A slip: a shorter one.  *)
PauseShort == Elapse(250)

Pause == Elapse(500)

CallSearch ==
  /\ at = "search" /\ call = "idle"
  /\ Begin \/ NoMore
  /\ Pause
  /\ UNCHANGED <<at, object>>

SearchFinds ==
  /\ \E c \in Codes : Found(c)
  /\ UNCHANGED <<at, object, devices>>

SearchEnds ==
  /\ call = "search" /\ NoMore
  /\ UNCHANGED <<at, object, devices>>

reset_search ==
  /\ NewRound
  /\ UNCHANGED <<at, object, devices>>

(* isCrcValid, and TemperatureSensor::create.                              *)
IsSensor(c) == c \in ValidCodes /\ KindOf(FamilyCode[c]) # NoSensor

TakeDevice ==
  /\ Take
  /\ IF IsSensor(code)
     THEN at' = "reset1" /\ sensor' = code /\ UNCHANGED <<heard, m_data, meant>>
     ELSE Continue
  /\ UNCHANGED devices

---------------------------------------------------------------------------
(* measureTemperature.                                                     *)

(* A reset that finds nobody, or is disturbed, ends the measurement.       *)
Reset(from, to) ==
  /\ at = from
  /\ \/ /\ bus # {}
        /\ at' = to /\ heard' = bus
        /\ UNCHANGED <<sensor, m_data, meant>>
     \/ (bus = {} \/ ~calm) /\ Continue
  /\ UNCHANGED <<enumeration, devices>>

(* select and 0x44.  A device that is converting does not listen.          *)
StartConversion ==
  /\ at = "convert"
  /\ IF sensor \in heard /\ due[sensor] = 0
     THEN \E ticks \in Conversions : due' = [due EXCEPT ![sensor] = ticks]
     ELSE UNCHANGED due
  /\ at' = "delay"
  /\ UNCHANGED <<enumeration, object, stored>>

Delay ==
  /\ at = "delay"
  /\ Elapse(10)
  /\ at' = "reset2"
  /\ UNCHANGED <<enumeration, object>>

(* The scratchpad as the sensor sends it.                                  *)
Pads(d, t) ==
  IF KindOf(FamilyCode[d]) = DS18S20
  THEN {PadS20(t, half) : half \in {0, 1}}
  ELSE {PadB20(t, Resolution[d], noise) : noise \in {0, Unit(Resolution[d]) - 1}}

(* Nobody answers: all ones, whose check sum is wrong.  The wire is held    *)
(* low: all zeros, whose check sum is right.                               *)
ReadGood(pad) ==
  /\ sensor \in heard \ Broken
  /\ m_data' = pad /\ meant' = stored[sensor]
  /\ at' = "send"
  /\ UNCHANGED <<sensor, heard>>

ReadZeros ==
  /\ ~calm
  /\ m_data' = EmptyPad /\ meant' = NoTemperature
  /\ at' = "send"
  /\ UNCHANGED <<sensor, heard>>

(* A slip: a sensor is tried until it answers.                             *)
ReadBadAgain ==
  /\ ~calm \/ sensor \notin heard \ Broken
  /\ at' = "reset1" /\ UNCHANGED object

ReadBad == (~calm \/ sensor \notin heard \ Broken) /\ Continue

ReadScratchpad ==
  /\ at = "read"
  /\ ReadZeros \/ ReadBad \/ (sensor \in heard /\ \E pad \in Pads(sensor, stored[sensor]) : ReadGood(pad))
  /\ UNCHANGED <<enumeration, devices>>

(* sendData with the id and the temperature; what becomes of it is UdpSrv. *)
Send ==
  /\ at = "send"
  /\ Continue
  /\ UNCHANGED <<enumeration, devices>>

measureTemperature ==
  \/ Reset("reset1", "convert") \/ StartConversion \/ Delay
  \/ Reset("reset2", "read") \/ ReadScratchpad

---------------------------------------------------------------------------
(* The bus.  A device that is plugged in begins anew.                      *)
Disturb ==
  \/ Plugged /\ UNCHANGED <<at, object, devices>>
  \/ /\ Unplugged
     /\ heard' = heard \cap bus'
     /\ stored' = [d \in Devices |-> IF d \in bus' THEN stored[d] ELSE PowerOn]
     /\ due' = [d \in Devices |-> IF d \in bus' THEN due[d] ELSE 0]
     /\ UNCHANGED <<at, sensor, m_data, meant>>
  \/ (Misread \/ Calmed) /\ UNCHANGED <<at, object, devices>>

MainLoop ==
  CallSearch \/ SearchFinds \/ SearchEnds \/ reset_search \/ TakeDevice
    \/ measureTemperature \/ Send

SensorNext == MainLoop \/ Disturb

(* The main task runs, and search says none again and again: on a quiet    *)
(* bus a round ends also if it was disturbed (RoundsEnd).                  *)
SearchSaysNone == (CallSearch /\ NoMore) \/ SearchEnds
SensorFairness == WF_vars(MainLoop) /\ SF_vars(SearchSaysNone)

SensorSpec == SensorInit /\ [][SensorNext]_vars /\ SensorFairness

---------------------------------------------------------------------------
(* What is sent is the temperature on the scratchpad of the sensor whose   *)
(* id is sent, rounded down to its resolution; or, if the wire was held    *)
(* low while it was read, nothing the code can tell from it: 0 degrees     *)
(* (TemperatureSensor.cpp 46-92, main.cpp 138-156).                        *)
ReportsTruth ==
  at = "send" =>
    LET celsius == getCelsius(KindOf(FamilyCode[sensor]), m_data)
        unit    == IF KindOf(FamilyCode[sensor]) = DS18S20 THEN 1 ELSE Unit(Resolution[sensor])
    IN  IF meant = NoTemperature THEN celsius = 0
        ELSE celsius = meant - (meant % unit)

(* While nothing disturbs the round, no sensor is told to convert before   *)
(* it is done with the last time, although nobody waits for it to be: the  *)
(* pauses between two measurements of a sensor are longer than its         *)
(* conversion (main.cpp 113, TemperatureSensor.cpp 40-42, 70-74).          *)
NeverBusy ==
  at = "convert" /\ round.whole /\ sensor \in heard => due[sensor] = 0

(* On a quiet bus every sensor that works is reported again and again,     *)
(* whatever else is on the bus: devices that are no sensors, or that never *)
(* answer with a right check sum (main.cpp 112-158).                       *)
ReportedAgain ==
  \A d \in Devices \ Broken :
    (calm /\ d \in bus /\ KindOf(FamilyCode[d]) # NoSensor) ~> (at = "send" /\ sensor = d)

============================================================================
