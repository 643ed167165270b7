------------------------------ MODULE MCDevice ------------------------------
(* Model checking of the units under the main loop, each by itself: they    *)
(* share nothing but the calls described in their modules, and so a         *)
(* behaviour is one of one unit.                                            *)
EXTENDS Sensor, OneWireReset, OneWireSlots, Crc, Streams, TLC

CONSTANTS a, b, x,  (* a DS18S20, a DS18B20, and a DS1822 that is broken     *)
  junk              (* a code that is nobody's                               *)

VARIABLE unit

others == <<slotvars, crcvars, streamvars>>
all    == <<unit, vars, resetvars, others>>

MCFamilyCode   == (a :> 16) @@ (b :> 40) @@ (x :> 34)
MCResolution   == (a :> 9) @@ (b :> 9) @@ (x :> 12)
MCTemperatures == {-9}
NoTargets      == {}

MCBusy     == {0, 11, 300, 100000}
MCRises    == {0, 11}
MCBegins   == {23, 60}
MCEnds     == {78, 79, 134, 136, 137, 156, 157, 196, 197}
MCOverruns == {0, 20, 60}

MCCalls   == {<<"write", "read">>, <<"power", "read">>, <<"power", "depower", "read">>}
MCSamples == {15, 60}
MCLate    == {0, 1, 2, 5, 6, 50}
MCBytes   == {0, 1, 85, 190, 204, 255}

InBits(bytes) == [i \in DOMAIN bytes |-> [k \in 1 .. 8 |-> (bytes[i] \div 2 ^ (k - 1)) % 2]]
MCData8  == {InBits(<<80, 5, 75, 70, 127, 255, 12, 16>>)}
MCData16 == {InBits(<<240, 136, 1>>)}

Of(type, value)  == [type |-> type, value |-> value]
Message(id, msg) == [id |-> id, type |-> msg.type, value |-> msg.value]
Discovery   == Of(Struct(<<Number(4)>>, 4), <<<<1, 2, 3, 4>>>>)
Temperature == Of(Struct(<<Number(8), Number(4)>>, 16),
                  <<<<40, 1, 2, 3, 4, 5, 6, 7>>, <<0, 0, 20, 65>>>>)
MCMessages  == {Message(<<99, 15, 95, 4>>, Discovery), Message(<<131, 12, 238, 62>>, Temperature)}
MCBufSizes  == {12, 48}
MCClassSize == [string |-> 24, list |-> 12, set |-> 24, map |-> 24, vector |-> 12]
Wide(n)     == <<n, 0, 0, 0, 0, 0, 0, 0>>
MCItems     ==
  {Of(Number(2), <<1, 0>>), Of(StringType, <<>>), Of(StringType, <<0, 1>>),
   Of(ListOf(StringType), <<<<1>>, <<>>>>), Of(SetOf(Number(1)), {<<0>>, <<1>>}),
   Of(MapOf(Number(1), ListOf(Number(1))), (<<0>> :> <<<<1>>>>) @@ (<<1>> :> <<>>)),
   Of(VectorOf(Number(2)), <<<<1, 0>>, <<1, 1>>>>),
   Of(VectorOf(Struct(<<Number(1), Number(2)>>, 4)), <<<<<<1>>, <<0, 0>>>>>>),
   Of(VectorOf(StringType), <<<<1>>, <<0>>>>),
   Of(VectorOf(ListOf(Number(8))), <<<<Wide(1)>>, <<Wide(2), Wide(1)>>>>),
   Of(VectorOf(SetOf(Number(1))), <<{<<1>>}, {<<0>>}>>),
   Of(VectorOf(MapOf(Number(1), Number(1))), <<<<0>> :> <<1>>, (<<0>> :> <<0>>) @@ (<<1>> :> <<1>>)>>),
   Of(VectorOf(Struct(<<Number(1), ListOf(Number(1))>>, 16)),
      <<<<<<1>>, <<<<1>>>>>>, <<<<0>>, <<<<0>>>>>>>>)}

SensorOff  == SensorInit /\ bus = {}
SlotsOff   == /\ calls = <<>> /\ byte = 0 /\ mask = 0 /\ r = 0 /\ received = <<>> /\ lates = <<>>
              /\ pin = [mode |-> INPUT, value |-> FALSE]
CrcOff     == /\ check = "crc8" /\ data = <<>> /\ errors = {} /\ len = 0
              /\ register = <<>> /\ crc = <<>>
StreamsOff == StreamsInit /\ bufsize = 12

Init ==
  /\ unit \in {"sensor", "reset", "slots", "crc", "streams"}
  /\ IF unit = "sensor" THEN SensorInit ELSE SensorOff
  /\ ResetInit
  /\ IF unit = "slots" THEN SlotsInit ELSE SlotsOff
  /\ IF unit = "crc" THEN CrcInit ELSE CrcOff
  /\ IF unit = "streams" THEN StreamsInit ELSE StreamsOff

MeasureStep == unit = "sensor" /\ SensorNext /\ UNCHANGED <<unit, resetvars, others>>
ResetStep   == unit = "reset" /\ ResetNext /\ UNCHANGED <<unit, vars, others>>
SlotsStep   == unit = "slots" /\ SlotsNext /\ UNCHANGED <<unit, vars, resetvars, crcvars, streamvars>>
CrcStep     == unit = "crc" /\ CrcNext /\ UNCHANGED <<unit, vars, resetvars, slotvars, streamvars>>
StreamsStep == unit = "streams" /\ StreamsNext /\ UNCHANGED <<unit, vars, resetvars, slotvars, crcvars>>

Next == MeasureStep \/ ResetStep \/ SlotsStep \/ CrcStep \/ StreamsStep

Fairness ==
  /\ WF_vars(unit = "sensor" /\ MainLoop)
  /\ SF_vars(unit = "sensor" /\ SearchSaysNone)
  /\ WF_resetvars(reset)

Spec == Init /\ [][Next]_all /\ Fairness

============================================================================
