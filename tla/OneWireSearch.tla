--------------------------- MODULE OneWireSearch ---------------------------
(***************************************************************************)
(* OneWire::search, which finds the next device of the bus with every call *)
(* by walking down the binary tree of the 64-bit ROM codes, and the main   *)
(* loop, which calls it for as long as the device runs.  Between two calls *)
(* there is only the place the last one reached.  Devices come and go at   *)
(* any time, also while a search talks to them, and a bit may be misread.  *)
(* LastFamilyDiscrepancy, which nothing reads, is left out, and so is the  *)
(* search for devices with an alarm, which nothing asks for.               *)
(***************************************************************************)
EXTENDS Integers, FiniteSets

CONSTANTS
  RomBits,      (* the length of a ROM code: 64                              *)
  FamilyBits,   (* of its first part, the family code: 8                     *)
  Devices,      (* the codes of the devices that may be plugged in           *)
  ValidCodes,   (* the codes that isCrcValid() accepts                       *)
  Targets,      (* the family codes that target_search is called with        *)
  NoTarget,     (* none of them                                              *)
  MaxMisreads   (* bound: misread bits in one search                         *)

Position == 1 .. RomBits
Code     == [Position -> {0, 1}]

Family(code) == [i \in 1 .. FamilyBits |-> code[i]]
Zero         == [i \in 1 .. FamilyBits |-> 0]

(* A device has a family and the right check sum, which the rest of its    *)
(* code determines.  It is asked to catch one misread bit, not more.       *)
ASSUME SearchAssumption ==
  /\ RomBits \in Nat /\ FamilyBits \in 1 .. RomBits - 1
  /\ Devices \subseteq ValidCodes /\ ValidCodes \subseteq Code
  /\ \A d \in Devices : Family(d) # Zero
  /\ \A c, d \in ValidCodes : (\A i \in 1 .. RomBits - 1 : c[i] = d[i]) => c = d
  /\ Targets \subseteq [1 .. FamilyBits -> {0, 1}] /\ NoTarget \notin Targets
  /\ MaxMisreads \in 0 .. 1

VARIABLES
  bus,              (* the devices on the bus                                *)
  answering,        (* those that take part in the search: not yet deselected *)
  calm,             (* nothing disturbs the bus and the order any more       *)
  ROM_NO, LastDiscrepancy, LastDeviceFlag,  (* of class OneWire              *)
  id_bit_number, last_zero, id_bit,         (* local variables of search     *)
  at,               (* the main loop: idle (about to call search), in search *)
                    (* about to read a bit (id) or its complement (cmp),     *)
                    (* search has returned true (report) or false (none)     *)
  misreads,         (* bits misread in this search                           *)
  polled,           (* history: the devices that were there when it began    *)
  round             (* history: what the calls since the beginning found     *)

line   == <<bus, answering, calm>>
place  == <<ROM_NO, LastDiscrepancy, LastDeviceFlag>>
locals == <<id_bit_number, last_zero, id_bit>>
vars   == <<line, place, locals, at, misreads, polled, round>>

(* A round is the calls of search from one beginning to the next: seen, the *)
(* codes reported; owed, the devices that were there all the time and were  *)
(* not reported; whole, that no device left and no bit was misread; target, *)
(* the family code that target_search began it with.                        *)
(* Nothing is said of what is found in a round that was disturbed.          *)
Beginning(target) == [seen |-> {}, owed |-> bus, whole |-> TRUE, target |-> target]
Reported(code)    == [seen |-> round.seen \cup {code}, owed |-> round.owed \ {code},
                      whole |-> TRUE, target |-> round.target]
Disturbed         == [seen |-> {}, owed |-> {}, whole |-> FALSE, target |-> NoTarget]

Init ==
  /\ bus \in SUBSET Devices /\ answering = {} /\ calm = FALSE
  /\ ROM_NO = [i \in Position |-> 0]
  /\ LastDiscrepancy = 0 /\ LastDeviceFlag = FALSE
  /\ id_bit_number = 1 /\ last_zero = 0 /\ id_bit = 0
  /\ at = "idle"
  /\ misreads = 0 /\ polled = {}
  /\ round = Beginning(NoTarget)

---------------------------------------------------------------------------
(* The beginning of a round.                                               *)
reset_search ==
  /\ at = "none"
  /\ ROM_NO' = [i \in Position |-> 0]
  /\ LastDiscrepancy' = 0 /\ LastDeviceFlag' = FALSE
  /\ at' = "idle"
  /\ round' = Beginning(NoTarget)
  /\ UNCHANGED <<line, locals, misreads, polled>>

(* A slip: the family code is set, but not the place of a last discrepancy *)
(* behind it.                                                              *)
target_searchCodeOnly(family) ==
  /\ at = "idle" /\ ~calm
  /\ ROM_NO' = [i \in Position |-> IF i <= FamilyBits THEN family[i] ELSE 0]
  /\ LastDiscrepancy' = 0 /\ LastDeviceFlag' = FALSE
  /\ round' = Beginning(family)
  /\ UNCHANGED <<line, locals, at, misreads, polled>>

target_search(family) ==
  /\ at = "idle" /\ ~calm
  /\ ROM_NO' = [i \in Position |-> IF i <= FamilyBits THEN family[i] ELSE 0]
  /\ LastDiscrepancy' = RomBits /\ LastDeviceFlag' = FALSE
  /\ round' = Beginning(family)
  /\ UNCHANGED <<line, locals, at, misreads, polled>>

---------------------------------------------------------------------------
(* search.                                                                 *)

(* No device, no further device, or no answer: the next call is like a     *)
(* first one.                                                              *)
GiveUp ==
  /\ LastDiscrepancy' = 0 /\ LastDeviceFlag' = FALSE
  /\ at' = "none"

AfterLastDevice ==
  /\ at = "idle" /\ LastDeviceFlag
  /\ GiveUp
  /\ UNCHANGED <<line, ROM_NO, locals, misreads, polled, round>>

(* reset() returns false: no presence pulse, or it was not seen.           *)
NoPresence ==
  /\ at = "idle" /\ ~LastDeviceFlag
  /\ GiveUp
  /\ \/ bus = {} /\ UNCHANGED round
     \/ bus # {} /\ ~calm /\ round' = Disturbed
  /\ UNCHANGED <<line, ROM_NO, locals, misreads, polled>>

(* A slip: last_zero keeps the value of the last search.                   *)
BeginSearchKeepZero ==
  /\ at = "idle" /\ ~LastDeviceFlag /\ bus # {}
  /\ answering' = bus /\ polled' = bus
  /\ id_bit_number' = 1
  /\ misreads' = 0
  /\ at' = "id"
  /\ UNCHANGED <<bus, calm, place, id_bit, last_zero, round>>

BeginSearch ==
  /\ at = "idle" /\ ~LastDeviceFlag /\ bus # {}
  /\ answering' = bus /\ polled' = bus
  /\ id_bit_number' = 1 /\ last_zero' = 0
  /\ misreads' = 0
  /\ at' = "id"
  /\ UNCHANGED <<bus, calm, place, id_bit, round>>

(* The wire is low if one of the devices that answer sends a 0.            *)
Wire(bits) == IF 0 \in bits THEN 0 ELSE 1

Sample(bits, value) ==
  \/ /\ value = Wire(bits)
     /\ UNCHANGED <<misreads, round>>
  \/ /\ value = 1 - Wire(bits)
     /\ ~calm /\ misreads < MaxMisreads
     /\ misreads' = misreads + 1
     /\ round' = Disturbed

ReadBit ==
  /\ at = "id"
  /\ Sample({d[id_bit_number] : d \in answering}, id_bit')
  /\ at' = "cmp"
  /\ UNCHANGED <<line, place, id_bit_number, last_zero, polled>>

(* Where the devices differ: the same way as last time before the last     *)
(* discrepancy, the other way at it, 0 behind it.  A slip: the same way    *)
(* also at the last discrepancy.                                           *)
DirectionOneMore(cmp) ==
  IF id_bit # cmp THEN id_bit
  ELSE IF id_bit_number <= LastDiscrepancy THEN ROM_NO[id_bit_number] ELSE 0

Direction(cmp) ==
  IF id_bit # cmp THEN id_bit
  ELSE IF id_bit_number < LastDiscrepancy THEN ROM_NO[id_bit_number]
  ELSE IF id_bit_number = LastDiscrepancy THEN 1 ELSE 0

(* The last place at which the 0 of two was taken.  A slip: the first one. *)
FirstZero(cmp, direction) ==
  IF id_bit = cmp /\ direction = 0 /\ last_zero = 0 THEN id_bit_number ELSE last_zero

LastZero(cmp, direction) ==
  IF id_bit = cmp /\ direction = 0 THEN id_bit_number ELSE last_zero

(* The loop is over.  A code without a family is no device's.  A slip: the *)
(* last device is not remembered.                                          *)
FinishNoFlag ==
  IF Family(ROM_NO') # Zero
  THEN /\ LastDiscrepancy' = last_zero'
       /\ LastDeviceFlag' = FALSE
       /\ at' = "report"
  ELSE GiveUp

Finish ==
  IF Family(ROM_NO') # Zero
  THEN /\ LastDiscrepancy' = last_zero'
       /\ LastDeviceFlag' = (last_zero' = 0)
       /\ at' = "report"
  ELSE GiveUp

(* write_bit: the devices with the other bit take no part any more.        *)
Select(cmp) ==
  LET direction == Direction(cmp) IN
  /\ ROM_NO' = [ROM_NO EXCEPT ![id_bit_number] = direction]
  /\ last_zero' = LastZero(cmp, direction)
  /\ answering' = {d \in answering : d[id_bit_number] = direction}
  /\ id_bit_number' = id_bit_number + 1
  /\ IF id_bit_number < RomBits
     THEN /\ at' = "id"
          /\ UNCHANGED <<LastDiscrepancy, LastDeviceFlag>>
     ELSE Finish

(* The loop is left early.  A slip: that is taken for its end.             *)
NobodyAnswersFinish ==
  /\ at' = "report"
  /\ UNCHANGED <<answering, place, id_bit_number, last_zero>>

NobodyAnswers ==
  /\ GiveUp
  /\ UNCHANGED <<answering, ROM_NO, id_bit_number, last_zero>>

ReadComplement ==
  /\ at = "cmp"
  /\ \E cmp \in {0, 1} :
       /\ Sample({1 - d[id_bit_number] : d \in answering}, cmp)
       /\ IF id_bit = 1 /\ cmp = 1 THEN NobodyAnswers ELSE Select(cmp)
  /\ UNCHANGED <<bus, calm, id_bit, polled>>

---------------------------------------------------------------------------
(* The main loop looks at the check sum and goes on with the device; what  *)
(* it does with it leaves the place of the search alone.                   *)
Report ==
  /\ at = "report" /\ ROM_NO \in ValidCodes
  /\ round' = IF round.whole THEN Reported(ROM_NO) ELSE round
  /\ at' = "idle"
  /\ UNCHANGED <<line, place, locals, misreads, polled>>

BadCrc ==
  /\ at = "report" /\ ROM_NO \notin ValidCodes
  /\ at' = "idle"
  /\ UNCHANGED <<line, place, locals, misreads, polled, round>>

---------------------------------------------------------------------------
(* The bus.  A device that is plugged in waits for the next reset.         *)
Plug(d) ==
  /\ d \notin bus
  /\ bus' = bus \cup {d}
  /\ UNCHANGED <<answering, calm, place, locals, at, misreads, polled, round>>

Unplug(d) ==
  /\ d \in bus /\ ~calm
  /\ bus' = bus \ {d}
  /\ answering' = answering \ {d}
  /\ round' = Disturbed
  /\ UNCHANGED <<calm, place, locals, at, misreads, polled>>

(* From some time on no device leaves, no bit is misread, and search is    *)
(* called as main.cpp calls it, without target_search.                     *)
CalmDown ==
  /\ calm' = TRUE
  /\ UNCHANGED <<bus, answering, place, locals, at, misreads, polled, round>>

search   == AfterLastDevice \/ NoPresence \/ BeginSearch \/ ReadBit \/ ReadComplement
MainLoop == search \/ Report \/ BadCrc \/ reset_search

Next ==
  \/ MainLoop
  \/ \E family \in Targets : target_search(family)
  \/ \E d \in Devices : Plug(d) \/ Unplug(d)
  \/ CalmDown

(* The main task runs; nothing is assumed of the bus.                      *)
Spec == Init /\ [][Next]_vars /\ WF_vars(MainLoop)

---------------------------------------------------------------------------
(* Every variable has its type.  LastDiscrepancy is a position or 0.       *)
SearchOK ==
  /\ bus \subseteq Devices /\ answering \subseteq bus /\ polled \subseteq Devices
  /\ calm \in BOOLEAN
  /\ ROM_NO \in Code
  /\ LastDiscrepancy \in 0 .. RomBits /\ LastDeviceFlag \in BOOLEAN
  /\ id_bit_number \in 1 .. RomBits + 1 /\ last_zero \in 0 .. RomBits
  /\ at \in {"id", "cmp"} => id_bit_number \in Position /\ last_zero < id_bit_number
  /\ id_bit \in {0, 1}
  /\ at \in {"idle", "id", "cmp", "report", "none"}
  /\ misreads \in 0 .. MaxMisreads
  /\ round \in [seen : SUBSET ValidCodes, owed : SUBSET Devices, whole : BOOLEAN,
                target : Targets \cup {NoTarget}]

(* What the main loop takes for a device was on the bus when the search    *)
(* for it began, although devices leave while they are read, a bit may be  *)
(* misread, and the code is put together from old and new bits             *)
(* (onewire.cpp 289-327, main.cpp 118-127).                                *)
NoPhantoms == at = "report" /\ ROM_NO \in ValidCodes => ROM_NO \in polled

(* As long as no device leaves and no bit is misread, no device is         *)
(* reported twice, also if devices are added (onewire.cpp 300-308).        *)
NoneTwice == at = "report" /\ round.whole => ROM_NO \notin round.seen

(* ... and when search says there are no more devices, every one that was  *)
(* there from the beginning was reported; after target_search, every one   *)
(* of that family (onewire.cpp 221-230, 337-345).                          *)
NoneMissed ==
  at = "none" /\ round.whole =>
    \A d \in round.owed : round.target \in Targets /\ Family(d) # round.target

(* The first device found after target_search has the family asked for if  *)
(* such a device is there (onewire.cpp 218-219).                           *)
TargetFirst ==
  at = "report" /\ round.whole /\ round.target \in Targets /\ round.seen = {} =>
    \A d \in round.owed : Family(d) = round.target => Family(ROM_NO) = round.target

(* Whatever happened to the bus, once it is quiet every device that is     *)
(* there is found again and again (main.cpp 113-122).                      *)
FoundAgain == \A d \in Devices : calm /\ d \in bus ~> at = "report" /\ ROM_NO = d

============================================================================
