------------------------ MODULE OneWireSearchProofs ------------------------
(***************************************************************************)
(* Proofs about OneWireSearch: types; search invents no device; a round    *)
(* that is not disturbed reports every device that is there from its       *)
(* beginning, and none of them twice; and the search implements            *)
(* Enumeration.                                                            *)
(***************************************************************************)
EXTENDS OneWireSearchInv, SearchEnumeration, TLAPS

(* The sizes (onewire.h 57-69).                                            *)
LEMMA Sizes ==
  /\ RomBits \in Nat /\ FamilyBits \in Nat
  /\ 1 <= FamilyBits /\ FamilyBits < RomBits
  /\ 0 \in 0 .. RomBits /\ RomBits \in 0 .. RomBits /\ 1 \in 1 .. RomBits + 1
  /\ 1 \in Position /\ 0 \in 0 .. MaxMisreads
  BY SearchAssumption DEF Position

(* What target_search writes is a code (onewire.cpp 224-226).              *)
LEMMA TargetBits ==
  ASSUME NEW family \in Targets
  PROVE  TargetRom(family) \in Code
<1>1. \A i \in 1 .. FamilyBits : family[i] \in {0, 1}
  BY SearchAssumption
<1>2. \A i \in Position : i <= FamilyBits => i \in 1 .. FamilyBits
  BY Sizes DEF Position
<1> QED
  BY <1>1, <1>2 DEF TargetRom, Code

(* A direction is a bit, and a code a bit of which is replaced by one is a *)
(* code (onewire.cpp 294-322).                                             *)
LEMMA DirectionBit ==
  ASSUME SearchOK, NEW cmp \in {0, 1}, id_bit_number \in Position
  PROVE  /\ Direction(cmp) \in {0, 1}
         /\ [ROM_NO EXCEPT ![id_bit_number] = Direction(cmp)] \in Code
<1>1. ROM_NO[id_bit_number] \in {0, 1}
  BY DEF SearchOK, Code
<1>2. Direction(cmp) \in {0, 1}
  BY <1>1, SMT DEF SearchOK, Direction
<1> QED
  BY <1>2 DEF SearchOK, Code

(* A sample changes the misreads within their bound, and a round only to a *)
(* disturbed one.                                                          *)
LEMMA SampleType ==
  ASSUME SearchOK, NEW bits, NEW value, Sample(bits, value)
  PROVE  /\ misreads' \in 0 .. MaxMisreads
         /\ round' \in {round, Disturbed}
         /\ value \in {0, 1}
         /\ round.whole /\ round'.whole => value = Wire(bits) /\ UNCHANGED <<misreads, round>>
  BY SearchAssumption DEF SearchOK, Sample, Wire, Disturbed

(* What a disturbed round is.                                              *)
LEMMA DisturbedType ==
  Disturbed \in [seen : SUBSET ValidCodes, owed : SUBSET Devices, whole : BOOLEAN,
                 target : Targets \cup {NoTarget}]
  BY DEF Disturbed

(* Initially every variable has its type (onewire.cpp 17-25).              *)
LEMMA TypeInit == Init => SearchOK
<1> SUFFICES ASSUME Init PROVE SearchOK
  OBVIOUS
<1>1. ROM_NO \in Code
  BY DEF Init, Code
<1>2. round \in [seen : SUBSET ValidCodes, owed : SUBSET Devices, whole : BOOLEAN,
                target : Targets \cup {NoTarget}]
  BY DEF Init, Beginning
<1> QED
  BY <1>1, <1>2, Sizes DEF Init, SearchOK

(* The step of the loop that chooses a bit keeps the types.                *)
LEMMA SelectType ==
  ASSUME SearchOK, at = "cmp", NEW cmp \in {0, 1}, Select(cmp),
         UNCHANGED <<bus, calm, id_bit, polled>>,
         misreads' \in 0 .. MaxMisreads, round' \in {round, Disturbed}
  PROVE  SearchOK'
<1>1. id_bit_number \in Position /\ last_zero \in 0 .. id_bit_number - 1
  BY DEF SearchOK
<1>2. ROM_NO' \in Code
  BY <1>1, DirectionBit DEF Select
<1>3. last_zero' \in 0 .. id_bit_number /\ id_bit_number' = id_bit_number + 1
  BY <1>1, SearchAssumption DEF Select, LastZero, Position
<1>4. last_zero' \in 0 .. RomBits /\ id_bit_number' \in 1 .. RomBits + 1
  BY <1>1, <1>3, SearchAssumption DEF Position
<1>5. LastDiscrepancy' \in 0 .. RomBits /\ LastDeviceFlag' \in BOOLEAN
  BY <1>4, Sizes DEF SearchOK, Select, Finish, GiveUp
<1>6. /\ at' \in {"id", "report", "none"}
      /\ at' = "id" => id_bit_number' \in Position
  BY <1>1, SearchAssumption DEF Select, Finish, GiveUp, Position
<1>7. answering' \subseteq bus'
  BY DEF SearchOK, Select
<1>8. round' \in [seen : SUBSET ValidCodes, owed : SUBSET Devices, whole : BOOLEAN,
                  target : Targets \cup {NoTarget}]
  BY DisturbedType DEF SearchOK
<1> QED
  BY <1>1, <1>2, <1>3, <1>4, <1>5, <1>6, <1>7, <1>8 DEF SearchOK

(* Every step keeps the types.                                             *)
LEMMA TypeNext ==
  ASSUME SearchOK, [Next]_vars
  PROVE  SearchOK'
<1> USE Sizes, DisturbedType
<1>1. CASE reset_search
  BY <1>1 DEF SearchOK, reset_search, Beginning, Code, line, locals
<1>2. CASE AfterLastDevice
  BY <1>2 DEF SearchOK, AfterLastDevice, GiveUp, line, locals
<1>3. CASE NoPresence
  BY <1>3 DEF SearchOK, NoPresence, GiveUp, line, locals
<1>4. CASE BeginSearch
  BY <1>4 DEF SearchOK, BeginSearch, place, Position
<1>5. CASE ReadBit
  <2>1. /\ misreads' \in 0 .. MaxMisreads /\ round' \in {round, Disturbed}
        /\ id_bit' \in {0, 1}
    BY <1>5, SampleType DEF ReadBit
  <2> QED
    BY <1>5, <2>1 DEF SearchOK, ReadBit, line, place
<1>6. CASE ReadComplement
  <2>1. PICK cmp \in {0, 1} : /\ Sample({1 - d[id_bit_number] : d \in answering}, cmp)
                              /\ IF id_bit = 1 /\ cmp = 1 THEN NobodyAnswers ELSE Select(cmp)
    BY <1>6 DEF ReadComplement
  <2>2. misreads' \in 0 .. MaxMisreads /\ round' \in {round, Disturbed}
    BY <2>1, SampleType
  <2>3. at = "cmp" /\ UNCHANGED <<bus, calm, id_bit, polled>>
    BY <1>6 DEF ReadComplement
  <2>4. CASE NobodyAnswers
    BY <2>2, <2>3, <2>4 DEF SearchOK, NobodyAnswers, GiveUp
  <2>5. CASE Select(cmp)
    BY <2>2, <2>3, <2>5, SelectType
  <2> QED
    BY <2>1, <2>4, <2>5
<1>7. CASE Report
  BY <1>7 DEF SearchOK, Report, Reported, line, place, locals
<1>8. CASE BadCrc
  BY <1>8 DEF SearchOK, BadCrc, line, place, locals
<1>9. ASSUME NEW family \in Targets, target_search(family)
      PROVE  SearchOK'
  <2>1. ROM_NO' \in Code
    BY <1>9, TargetBits DEF target_search, TargetRom
  <2> QED
    BY <1>9, <2>1 DEF SearchOK, target_search, Beginning, line, locals
<1>10. ASSUME NEW d \in Devices, Plug(d) \/ Unplug(d)
       PROVE  SearchOK'
  BY <1>10 DEF SearchOK, Plug, Unplug, place, locals
<1>11. CASE CalmDown
  BY <1>11 DEF SearchOK, CalmDown, place, locals
<1>12. CASE UNCHANGED vars
  BY <1>12 DEF SearchOK, vars, line, place, locals
<1> QED
  BY <1>1, <1>2, <1>3, <1>4, <1>5, <1>6, <1>7, <1>8, <1>9, <1>10, <1>11, <1>12
     DEF Next, MainLoop, search

(* Every variable has its type, for codes of every length.                 *)
THEOREM SearchTyped == Spec => []SearchOK
  BY TypeInit, TypeNext, PTL DEF Spec

---------------------------------------------------------------------------
(* A code agrees with the bits chosen up to n if it did before and has the *)
(* bit chosen at n (onewire.cpp 317-325).                                  *)
LEMMA AgreeStep ==
  ASSUME NEW rom \in Code, NEW n \in Position, NEW b \in {0, 1}, NEW d
  PROVE  Agree(d, [rom EXCEPT ![n] = b], n) <=> Agree(d, rom, n - 1) /\ d[n] = b
<1> DEFINE new == [rom EXCEPT ![n] = b]
<1>1. n \in 1 .. n /\ \A i \in 1 .. n : i = n \/ i \in 1 .. n - 1
  BY Sizes DEF Position
<1>2. \A i \in 1 .. n - 1 : i \in 1 .. n /\ i \in Position /\ i # n
  BY Sizes DEF Position
<1>3. new[n] = b /\ \A i \in 1 .. n - 1 : new[i] = rom[i]
  BY <1>2 DEF Code
<1> QED
  BY <1>1, <1>2, <1>3 DEF Agree

(* The wire as the devices that answer drive it (onewire.cpp 107-124).     *)
LEMMA WireBits ==
  ASSUME NEW devices, NEW n
  PROVE  /\ Wire({d[n] : d \in devices}) = 0 <=> \E d \in devices : d[n] = 0
         /\ (\A d \in devices : d[n] \in {0, 1}) =>
              (Wire({1 - d[n] : d \in devices}) = 0 <=> \E d \in devices : d[n] = 1)
         /\ Wire({d[n] : d \in devices}) \in {0, 1}
         /\ Wire({1 - d[n] : d \in devices}) \in {0, 1}
<1>1. (\A d \in devices : d[n] \in {0, 1}) =>
        (0 \in {1 - d[n] : d \in devices} <=> \E d \in devices : d[n] = 1)
  <2> SUFFICES ASSUME \A d \in devices : d[n] \in {0, 1}
               PROVE  0 \in {1 - d[n] : d \in devices} <=> \E d \in devices : d[n] = 1
    OBVIOUS
  <2>1. \A d \in devices : 0 = 1 - d[n] <=> d[n] = 1
    OBVIOUS
  <2> QED
    BY <2>1
<1> QED
  BY <1>1 DEF Wire

(* A device's bits (onewire.h 57-69).                                      *)
LEMMA DeviceBits ==
  ASSUME NEW d \in Devices, NEW i \in Position
  PROVE  d \in Code /\ d[i] \in {0, 1}
  BY SearchAssumption DEF Code

(* A search that is on the way of a device at the last bit ends at that    *)
(* device or at a code that is not valid (main.cpp 124).                   *)
LEMMA LastBit ==
  ASSUME NEW d \in Devices, NEW code \in ValidCodes, Agree(d, code, RomBits - 1)
  PROVE  code = d
  BY SearchAssumption DEF Agree

(* A second bit is not misread.                                            *)
LEMMA SampleOnce ==
  ASSUME SearchOK, NEW bits, NEW value, Sample(bits, value)
  PROVE  /\ misreads # 0 => value = Wire(bits)
         /\ misreads' = 0 => misreads = 0 /\ value = Wire(bits)
<1>1. misreads < MaxMisreads => misreads = 0
  BY SearchAssumption DEF SearchOK
<1> QED
  BY <1>1 DEF SearchOK, Sample

(* The bit chosen keeps PhantomInv: without a misread bit it is the one of *)
(* a device asked (onewire.cpp 294-325).                                   *)
LEMMA SelectPhantom ==
  ASSUME SearchOK, PhantomInv, at = "cmp", NEW cmp \in {0, 1},
         Sample({1 - d[id_bit_number] : d \in answering}, cmp),
         ~(id_bit = 1 /\ cmp = 1), Select(cmp), polled' = polled
  PROVE  PhantomInv'
<1> DEFINE n == id_bit_number
           b == Direction(cmp)
<1>1. n \in Position /\ b \in {0, 1} /\ ROM_NO \in Code
  BY DirectionBit DEF SearchOK
<1>2. n' - 1 = n
  BY <1>1, Sizes DEF Select, Position
<1>3. \A d : Agree(d, ROM_NO', n' - 1) <=> Agree(d, ROM_NO, n - 1) /\ d[n] = b
  <2>1. ROM_NO' = [ROM_NO EXCEPT ![n] = b]
    BY DEF Select
  <2> HIDE DEF b
  <2> QED
    BY <1>1, <1>2, <2>1, AgreeStep
<1>4. \A d \in polled : d \in Devices /\ d[n] \in {0, 1}
  BY <1>1, DeviceBits DEF SearchOK
<1>5. \A d \in answering : d \in polled /\ Agree(d, ROM_NO, n - 1)
  BY DEF PhantomInv, InSearch
<1>6. answering' \subseteq polled' /\ \A d \in answering' : Agree(d, ROM_NO', n' - 1)
  BY <1>3, <1>5 DEF Select
<1>7. cmp = Wire({1 - d[n] : d \in answering}) /\ cmp = 0 => \E d \in answering : d[n] = 1
  BY <1>4, <1>5, WireBits
<1>8. misreads' = 0 => OnTrack'
  <2> SUFFICES ASSUME misreads' = 0
               PROVE  \E d \in polled : Agree(d, ROM_NO, n - 1) /\ d[n] = b
    BY <1>3 DEF OnTrack
  <2>1. misreads = 0 /\ cmp = Wire({1 - d[n] : d \in answering})
    BY SampleOnce
  <2>2. CASE id_bit = 0 /\ b = 0
    BY <2>1, <2>2 DEF PhantomInv
  <2>3. CASE cmp = 0 /\ b = 1
    BY <2>1, <2>3, <1>5, <1>7
  <2>4. (id_bit = 0 /\ b = 0) \/ (cmp = 0 /\ b = 1)
    <3>1. id_bit \in {0, 1} /\ (id_bit # cmp => b = id_bit)
      BY DEF SearchOK, Direction
    <3> HIDE DEF b
    <3> QED
      BY <1>1, <3>1
  <2> QED
    BY <2>2, <2>3, <2>4
<1>9. OnTrack
  <2> SUFFICES ASSUME ~OnTrack PROVE FALSE
    OBVIOUS
  <2>1. id_bit = 1 /\ misreads # 0
    BY DEF PhantomInv, InSearch
  <2>2. cmp = Wire({1 - d[n] : d \in answering})
    BY <2>1, SampleOnce
  <2>3. cmp = 0
    BY <2>1
  <2>4. \E d \in answering : TRUE
    BY <1>7, <2>2, <2>3
  <2> QED
    BY <2>4, <1>5 DEF OnTrack
<1>10. NoPhantoms'
  <2> SUFFICES ASSUME at' = "report", ROM_NO' \in ValidCodes
               PROVE  ROM_NO' \in polled'
    BY DEF NoPhantoms
  <2>1. n = RomBits
    BY <1>1, Sizes DEF Select, Position
  <2>2. PICK d \in polled : Agree(d, ROM_NO, n - 1)
    BY <1>9 DEF OnTrack
  <2>3. \A i \in 1 .. n - 1 : ROM_NO'[i] = ROM_NO[i]
    <3>1. \A i \in 1 .. n - 1 : i \in Position /\ i # n
      BY <1>1, Sizes DEF Position
    <3> QED
      BY <1>1, <3>1 DEF Select, Code
  <2>4. Agree(d, ROM_NO', RomBits - 1)
    BY <2>1, <2>2, <2>3 DEF Agree
  <2> QED
    BY <2>4, <1>4, LastBit
<1>11. at' # "cmp"
  BY DEF Select, Finish, GiveUp
<1> QED
  BY <1>6, <1>8, <1>10, <1>11 DEF PhantomInv, InSearch

(* Reading a bit keeps PhantomInv (onewire.cpp 286).                       *)
LEMMA ReadBitPhantom ==
  ASSUME SearchOK, PhantomInv, ReadBit
  PROVE  PhantomInv'
<1> DEFINE n == id_bit_number
<1>1. at = "id" /\ at' = "cmp" /\ UNCHANGED <<answering, ROM_NO, id_bit_number, polled>>
  BY DEF ReadBit, line, place
<1>2. Sample({d[n] : d \in answering}, id_bit')
  BY DEF ReadBit
<1>3. OnTrack' <=> OnTrack
  BY <1>1 DEF OnTrack
<1>4. \A d \in answering : d \in polled /\ Agree(d, ROM_NO, n - 1)
  BY <1>1 DEF PhantomInv, InSearch
<1>5. ~OnTrack => id_bit' = 1
  <2> SUFFICES ASSUME ~OnTrack PROVE id_bit' = 1
    OBVIOUS
  <2>1. answering = {} /\ misreads # 0
    BY <1>1, <1>4 DEF PhantomInv, InSearch, OnTrack
  <2> QED
    BY <1>2, <2>1, SampleOnce DEF Wire
<1>6. misreads' = 0 => misreads = 0 /\ id_bit' = Wire({d[n] : d \in answering})
  BY <1>2, SampleOnce
<1>7. misreads' = 0 /\ id_bit' = 0 =>
        \E d \in polled : Agree(d, ROM_NO, n - 1) /\ d[n] = 0
  <2> SUFFICES ASSUME misreads' = 0, id_bit' = 0
               PROVE  \E d \in polled : Agree(d, ROM_NO, n - 1) /\ d[n] = 0
    OBVIOUS
  <2>1. Wire({d[n] : d \in answering}) = 0
    BY <1>6
  <2>2. PICK d \in answering : d[n] = 0
    BY <2>1 DEF Wire
  <2> QED
    BY <1>4, <2>2
<1>8. answering' \subseteq polled'
  BY <1>1 DEF PhantomInv
<1>9. InSearch' => (\A d \in answering : Agree(d, ROM_NO, n - 1))' /\ (misreads' = 0 => OnTrack')
  BY <1>1, <1>3, <1>4, <1>6 DEF PhantomInv, InSearch
<1>10. ~OnTrack' => id_bit' = 1
  BY <1>3, <1>5
<1>11. NoPhantoms'
  BY <1>1 DEF NoPhantoms
<1> QED
  BY <1>1, <1>7, <1>8, <1>9, <1>10, <1>11 DEF PhantomInv

(* Initially no search is on its way (onewire.cpp 17-25).                  *)
LEMMA PhantomInit == Init => PhantomInv
  BY DEF Init, PhantomInv, InSearch, NoPhantoms

(* Every step keeps PhantomInv (onewire.cpp 248-362, main.cpp 112-127).    *)
LEMMA PhantomNext ==
  ASSUME SearchOK, PhantomInv, [Next]_vars
  PROVE  PhantomInv'
<1> USE DEF InSearch, NoPhantoms, OnTrack
<1>1. CASE reset_search
  BY <1>1 DEF PhantomInv, reset_search, line, locals
<1>2. CASE AfterLastDevice
  BY <1>2 DEF PhantomInv, AfterLastDevice, GiveUp, line, locals
<1>3. CASE NoPresence
  BY <1>3 DEF PhantomInv, NoPresence, GiveUp, line, locals
<1>4. CASE BeginSearch
  <2>1. \A d : Agree(d, ROM_NO', id_bit_number' - 1)
    BY <1>4 DEF BeginSearch, Agree
  <2>2. /\ at' = "id" /\ answering' = polled' /\ polled' # {}
    BY <1>4 DEF BeginSearch
  <2> QED
    BY <2>1, <2>2 DEF PhantomInv
<1>5. CASE ReadBit
  BY <1>5, ReadBitPhantom
<1>6. CASE ReadComplement
  <2>1. PICK cmp \in {0, 1} : /\ Sample({1 - d[id_bit_number] : d \in answering}, cmp)
                              /\ IF id_bit = 1 /\ cmp = 1 THEN NobodyAnswers ELSE Select(cmp)
    BY <1>6 DEF ReadComplement
  <2>2. at = "cmp" /\ polled' = polled
    BY <1>6 DEF ReadComplement
  <2>3. CASE id_bit = 1 /\ cmp = 1
    BY <2>1, <2>2, <2>3 DEF PhantomInv, NobodyAnswers, GiveUp
  <2> QED
    BY <2>1, <2>2, <2>3, SelectPhantom
<1>7. CASE Report \/ BadCrc
  BY <1>7 DEF PhantomInv, Report, BadCrc, line, place, locals
<1>8. ASSUME NEW family \in Targets, target_search(family)
      PROVE  PhantomInv'
  BY <1>8 DEF PhantomInv, target_search, line, locals
<1>9. ASSUME NEW d \in Devices, Plug(d) \/ Unplug(d)
      PROVE  PhantomInv'
  BY <1>9 DEF PhantomInv, Plug, Unplug, place, locals
<1>10. CASE CalmDown
  BY <1>10 DEF PhantomInv, CalmDown, place, locals
<1>11. CASE UNCHANGED vars
  BY <1>11 DEF PhantomInv, vars, line, place, locals
<1> QED
  BY <1>1, <1>2, <1>3, <1>4, <1>5, <1>6, <1>7, <1>8, <1>9, <1>10, <1>11
     DEF Next, MainLoop, search

(* What the main loop takes for a device was on the bus, for codes of      *)
(* every length and any set of devices that come and go meanwhile          *)
(* (onewire.cpp 289-327, main.cpp 118-127).                                *)
THEOREM SearchFindsNoPhantoms == Spec => []NoPhantoms
<1>1. Init => SearchOK /\ PhantomInv
  BY TypeInit, PhantomInit
<1>2. SearchOK /\ PhantomInv /\ [Next]_vars => (SearchOK /\ PhantomInv)'
  BY TypeNext, PhantomNext
<1>3. PhantomInv => NoPhantoms
  BY DEF PhantomInv
<1> QED
  BY <1>1, <1>2, <1>3, PTL DEF Spec

---------------------------------------------------------------------------
(* Rounds.                                                                 *)

(* A step of the loop in which both bits are read right.                   *)
Step(cmp) ==
  /\ SearchOK /\ AnswerInv /\ at = "cmp"
  /\ cmp \in {0, 1} /\ cmp = Wire({1 - d[id_bit_number] : d \in answering})
  /\ ~(id_bit = 1 /\ cmp = 1)
  /\ Select(cmp)
  /\ UNCHANGED <<bus, polled, round, misreads, id_bit>>

(* Orders two codes with a first difference before n as they were when bit *)
(* n is replaced.                                                          *)
LEMMA BeforeStep ==
  ASSUME NEW rom \in Code, NEW n \in Position, NEW b, NEW d, NEW p \in 1 .. n - 1
  PROVE  /\ Before(d, [rom EXCEPT ![n] = b], p) <=> Before(d, rom, p)
         /\ Before([rom EXCEPT ![n] = b], d, p) <=> Before(rom, d, p)
<1>1. \A i \in 1 .. p : i \in Position /\ i # n
  BY Sizes DEF Position
<1>2. p \in 1 .. p /\ \A i \in 1 .. p - 1 : i \in 1 .. p
  OBVIOUS
<1>3. \A i \in 1 .. p : [rom EXCEPT ![n] = b][i] = rom[i]
  BY <1>1 DEF Code
<1> QED
  BY <1>2, <1>3 DEF Before, Agree

(* Two codes of which neither leaves the other are the same (onewire.h 66).*)
LEMMA AgreeAll ==
  ASSUME NEW c \in Code, NEW d \in Code, Agree(c, d, RomBits)
  PROVE  c = d
<1>1. \A i \in Position : c[i] = d[i]
  BY DEF Agree, Position
<1> QED
  BY <1>1 DEF Code

(* What a step of the loop does: it takes the way of some of those that    *)
(* answer, of all of them unless they differ, and the others fall silent.  *)
LEMMA StepFacts ==
  ASSUME NEW cmp, Step(cmp)
  PROVE  LET n == id_bit_number
             b == Direction(cmp)
         IN /\ n \in Position /\ b \in {0, 1} /\ ROM_NO \in Code /\ n' = n + 1
            /\ ROM_NO' = [ROM_NO EXCEPT ![n] = b]
            /\ \A d \in polled : d \in Code /\ d[n] \in {0, 1}
            /\ \A d : Agree(d, ROM_NO', n) <=> Agree(d, ROM_NO, n - 1) /\ d[n] = b
            /\ answering' = {d \in polled : Agree(d, ROM_NO', n)}
            /\ answering' # {}
            /\ id_bit = cmp => /\ \E d \in answering : d[n] = 0
                               /\ \E d \in answering : d[n] = 1
            /\ id_bit # cmp => \A d \in answering : d[n] = b
            /\ last_zero' = IF id_bit = cmp /\ b = 0 THEN n ELSE last_zero
            /\ last_zero \in 0 .. n - 1
<1> DEFINE n == id_bit_number
           b == Direction(cmp)
<1>1. n \in Position /\ b \in {0, 1} /\ ROM_NO \in Code
  BY DirectionBit DEF Step, SearchOK
<1>2. n' = n + 1 /\ ROM_NO' = [ROM_NO EXCEPT ![n] = b]
  BY DEF Step, Select
<1>3. \A d \in polled : d \in Code /\ d[n] \in {0, 1}
  BY <1>1, DeviceBits DEF Step, SearchOK
<1>4. \A d : Agree(d, ROM_NO', n) <=> Agree(d, ROM_NO, n - 1) /\ d[n] = b
  <2> HIDE DEF b
  <2> QED
    BY <1>1, <1>2, AgreeStep, ZenonT(40)
<1>5. answering' = {d \in answering : d[n] = b}
  BY DEF Step, Select
<1>6. answering = {d \in polled : Agree(d, ROM_NO, n - 1)} /\ answering # {}
  BY DEF Step, AnswerInv
<1>7. answering' = {d \in polled : Agree(d, ROM_NO', n)}
  BY <1>4, <1>5, <1>6
<1>8. id_bit \in {0, 1} /\ cmp \in {0, 1} /\ ~(id_bit = 1 /\ cmp = 1)
  BY DEF Step, SearchOK
<1>9. /\ id_bit = Wire({d[n] : d \in answering})
      /\ cmp = Wire({1 - d[n] : d \in answering})
  BY DEF Step, AnswerInv
<1>10. /\ id_bit = 0 <=> \E d \in answering : d[n] = 0
       /\ cmp = 0 <=> \E d \in answering : d[n] = 1
  BY <1>3, <1>6, <1>9, WireBits, ZenonT(40)
<1>11. id_bit = cmp => /\ \E d \in answering : d[n] = 0
                       /\ \E d \in answering : d[n] = 1
  BY <1>8, <1>10
<1>12. id_bit # cmp => b = id_bit
  BY DEF Direction
<1>13. id_bit # cmp => \A d \in answering : d[n] = b
  BY <1>3, <1>6, <1>8, <1>10, <1>12
<1>14. answering' # {}
  <2>1. CASE id_bit = cmp
    BY <1>1, <1>5, <1>11, <2>1
  <2>2. CASE id_bit # cmp
    BY <1>5, <1>6, <1>13, <2>2
  <2> QED
    BY <2>1, <2>2
<1>15. last_zero' = IF id_bit = cmp /\ b = 0 THEN n ELSE last_zero
  BY DEF Step, Select, LastZero
<1>16. last_zero \in 0 .. n - 1
  BY <1>1, Sizes DEF Step, SearchOK, Position
<1> QED
  BY <1>1, <1>2, <1>3, <1>4, <1>7, <1>11, <1>13, <1>14, <1>15, <1>16

(* The last 0 of two is where a device leaves the bits chosen so far.      *)
LEMMA LastZeroStep ==
  ASSUME NEW cmp, Step(cmp)
  PROVE  last_zero' > 0 => \E d \in polled : Before(ROM_NO', d, last_zero')
<1> DEFINE n == id_bit_number
           b == Direction(cmp)
<1>1. CASE id_bit = cmp /\ b = 0
  <2>1. PICK d \in answering : d[n] = 1
    BY <1>1, StepFacts
  <2>2. d \in polled /\ Agree(d, ROM_NO, n - 1)
    BY DEF Step, AnswerInv
  <2>3. ROM_NO'[n] = 0 /\ \A i \in 1 .. n - 1 : ROM_NO'[i] = ROM_NO[i]
    <3>1. \A i \in 1 .. n - 1 : i \in Position /\ i # n
      BY StepFacts, Sizes DEF Position
    <3>2. n \in Position /\ ROM_NO \in Code /\ ROM_NO' = [ROM_NO EXCEPT ![n] = 0]
      BY <1>1, StepFacts
    <3> QED
      BY <3>1, <3>2 DEF Code
  <2>4. Before(ROM_NO', d, n)
    BY <2>1, <2>2, <2>3 DEF Before, Agree
  <2>5. last_zero' = n
    BY <1>1, StepFacts
  <2> QED
    BY <2>2, <2>4, <2>5
<1>2. CASE ~(id_bit = cmp /\ b = 0)
  <2>1. last_zero' = last_zero
    BY <1>2, StepFacts
  <2>2. SUFFICES ASSUME last_zero > 0
                 PROVE  \E d \in polled : Before(ROM_NO', d, last_zero)
    BY <2>1
  <2>3. PICK d \in polled : Before(ROM_NO, d, last_zero)
    BY <2>2 DEF Step, AnswerInv
  <2>4. last_zero \in 1 .. n - 1
    BY <2>2, StepFacts, Sizes DEF Position
  <2>5. n \in Position /\ ROM_NO \in Code /\ ROM_NO' = [ROM_NO EXCEPT ![n] = b]
    BY StepFacts
  <2> HIDE DEF b
  <2>6. Before(ROM_NO', d, last_zero)
    BY <2>3, <2>4, <2>5, BeforeStep
  <2> QED
    BY <2>6
<1> QED
  BY <1>1, <1>2

(* Behind the last discrepancy what was reported stays before the bits     *)
(* chosen.                                                                 *)
LEMMA BeyondStep ==
  ASSUME NEW cmp, Step(cmp), BeyondInv
  PROVE  BeyondInv'
<1> DEFINE n == id_bit_number
           b == Direction(cmp)
<1>1. n \in Position /\ ROM_NO \in Code /\ ROM_NO' = [ROM_NO EXCEPT ![n] = b] /\ n' = n + 1
  BY StepFacts
<1>2. round' = round
  BY DEF Step
<1> HIDE DEF b
<1>3. \A p \in 1 .. n - 1 : p \in 1 .. n' - 1
  BY <1>1, Sizes DEF Position
<1>4. ASSUME NEW d \in round.seen
      PROVE  \E p \in 1 .. n' - 1 : Before(d, ROM_NO', p)
  <2>1. PICK p \in 1 .. n - 1 : Before(d, ROM_NO, p)
    BY DEF BeyondInv
  <2>2. Before(d, ROM_NO', p)
    BY <1>1, <2>1, BeforeStep
  <2> QED
    BY <1>3, <2>2
<1> QED
  BY <1>2, <1>4 DEF BeyondInv

(* A wanted device that does not go with the bit chosen leaves it with a 1 *)
(* at the last 0: none is lost.                                            *)
LEMMA LeftStep ==
  ASSUME NEW cmp, Step(cmp), LeftInv,
         id_bit = cmp =>
           \/ Direction(cmp) = 0
           \/ \A d \in Wanted \cap answering : d[id_bit_number] = Direction(cmp)
  PROVE  LeftInv'
<1> DEFINE n == id_bit_number
           b == Direction(cmp)
<1>1. n \in Position /\ ROM_NO \in Code /\ ROM_NO' = [ROM_NO EXCEPT ![n] = b]
  BY StepFacts
<1>2. Wanted' = Wanted
  BY DEF Step, Wanted
<1>3. answering = {d \in polled : Agree(d, ROM_NO, n - 1)}
  BY DEF Step, AnswerInv
<1>4. answering' = {d \in polled : Agree(d, ROM_NO', n)}
  BY StepFacts
<1>5. ASSUME NEW d \in Wanted
      PROVE  d \in answering' \/ \E p \in 1 .. last_zero' : Before(ROM_NO', d, p)
  <2>1. CASE d \in answering /\ d[n] = b
    BY <1>3, <1>4, <2>1, StepFacts
  <2>2. CASE d \in answering /\ d[n] # b
    <3>1. id_bit = cmp /\ b = 0
      BY <2>2, StepFacts
    <3>2. d[n] = 1
      BY <1>3, <2>2, <3>1, StepFacts
    <3>3. ROM_NO'[n] = 0 /\ \A i \in 1 .. n - 1 : ROM_NO'[i] = ROM_NO[i]
      <4>1. \A i \in 1 .. n - 1 : i \in Position /\ i # n
        BY <1>1, Sizes DEF Position
      <4>2. ROM_NO' = [ROM_NO EXCEPT ![n] = 0]
        BY <1>1, <3>1
      <4> QED
        BY <1>1, <4>1, <4>2 DEF Code
    <3>4. Before(ROM_NO', d, n)
      BY <1>3, <2>2, <3>2, <3>3 DEF Before, Agree
    <3>5. n \in 1 .. last_zero'
      BY <1>1, <3>1, StepFacts, Sizes DEF Position
    <3> QED
      BY <3>4, <3>5
  <2>3. CASE \E p \in 1 .. last_zero : Before(ROM_NO, d, p)
    <3>1. PICK p \in 1 .. last_zero : Before(ROM_NO, d, p)
      BY <2>3
    <3>2. p \in 1 .. n - 1 /\ p \in 1 .. last_zero'
      BY <1>1, StepFacts, Sizes DEF Position
    <3> HIDE DEF b
    <3>3. Before(ROM_NO', d, p)
      BY <1>1, <3>1, <3>2, BeforeStep
    <3> QED
      BY <3>2, <3>3
  <2> QED
    BY <2>1, <2>2, <2>3 DEF LeftInv
<1> QED
  BY <1>2, <1>5 DEF LeftInv

(* The bits of the last code before its last discrepancy are followed.     *)
LEMMA FollowStep ==
  ASSUME NEW cmp, Step(cmp), FollowInv, id_bit_number < LastDiscrepancy
  PROVE  /\ ROM_NO' = ROM_NO
         /\ \A d \in Wanted : \E p \in 1 .. LastDiscrepancy :
              Before(ROM_NO', d, p) /\ (p < id_bit_number' => p <= last_zero')
<1> DEFINE n == id_bit_number
           b == Direction(cmp)
<1>1. /\ n \in Position /\ ROM_NO \in Code /\ ROM_NO' = [ROM_NO EXCEPT ![n] = b]
      /\ n' = n + 1 /\ last_zero \in 0 .. n - 1
  BY StepFacts
<1>2. answering = {d \in polled : Agree(d, ROM_NO, n - 1)}
  BY DEF Step, AnswerInv
<1>3. ROM_NO \in answering
  BY <1>2 DEF FollowInv, Resumable, Agree
<1>4. b = ROM_NO[n]
  <2>1. CASE id_bit = cmp
    BY <2>1 DEF Direction
  <2>2. CASE id_bit # cmp
    BY <2>2, <1>3, StepFacts
  <2> QED
    BY <2>1, <2>2
<1>5. ROM_NO' = ROM_NO
  <2> HIDE DEF b
  <2> QED
    BY <1>1, <1>4 DEF Code
<1>6. ASSUME NEW d \in Wanted
      PROVE  \E p \in 1 .. LastDiscrepancy :
               Before(ROM_NO, d, p) /\ (p < n' => p <= last_zero')
  <2>1. PICK p \in 1 .. LastDiscrepancy :
          Before(ROM_NO, d, p) /\ (p < n => p <= last_zero)
    BY DEF FollowInv
  <2>2. last_zero <= last_zero'
    BY <1>1, StepFacts, Sizes DEF Position
  <2>3. CASE p # n
    <3>1. p < n' => p < n
      BY <1>1, <2>3, Sizes DEF Position, Step, SearchOK
    <3>2. last_zero' \in Nat /\ last_zero \in Nat /\ p \in Nat
      BY <1>1, StepFacts, Sizes DEF Position, Step, SearchOK
    <3> QED
      BY <2>1, <2>2, <3>1, <3>2
  <2>4. CASE p = n
    <3>1. Agree(ROM_NO, d, n - 1) /\ ROM_NO[n] = 0 /\ d[n] = 1
      BY <2>1, <2>4 DEF Before
    <3>2. d \in polled
      BY DEF Wanted, Step, AnswerInv
    <3>3. d \in answering
      BY <1>2, <3>1, <3>2 DEF Agree
    <3>4. id_bit = cmp
      BY <1>4, <3>1, <3>3, StepFacts
    <3>5. last_zero' = n
      BY <1>4, <3>1, <3>4, StepFacts
    <3> QED
      BY <1>1, <2>1, <2>4, <3>5, Sizes DEF Position
  <2> QED
    BY <2>3, <2>4
<1> QED
  BY <1>5, <1>6

(* At the last discrepancy the walk leaves the last code, and with it all  *)
(* that was reported.                                                      *)
LEMMA TurnStep ==
  ASSUME NEW cmp, Step(cmp), FollowInv, id_bit_number = LastDiscrepancy
  PROVE  BeyondInv' /\ LeftInv'
<1> DEFINE n == id_bit_number
           b == Direction(cmp)
<1>1. /\ n \in Position /\ ROM_NO \in Code /\ ROM_NO' = [ROM_NO EXCEPT ![n] = b]
      /\ n' = n + 1 /\ last_zero \in 0 .. n - 1
  BY StepFacts
<1>2. answering = {d \in polled : Agree(d, ROM_NO, n - 1)}
  BY DEF Step, AnswerInv
<1>3. PICK other \in polled : Before(ROM_NO, other, n)
  BY <1>1, Sizes DEF FollowInv, Resumable, Position
<1>4. ROM_NO[n] = 0 /\ other[n] = 1 /\ Agree(ROM_NO, other, n - 1)
  BY <1>3 DEF Before
<1>5. ROM_NO \in answering /\ other \in answering
  BY <1>2, <1>4 DEF FollowInv, Resumable, Agree
<1>6. id_bit = cmp
  BY <1>4, <1>5, StepFacts
<1>7. b = 1
  BY <1>1, <1>6, Sizes DEF Direction, Position
<1>8. last_zero' = last_zero
  BY <1>7, StepFacts
<1>9. ROM_NO'[n] = 1 /\ \A i \in 1 .. n - 1 : ROM_NO'[i] = ROM_NO[i]
  <2>1. \A i \in 1 .. n - 1 : i \in Position /\ i # n
    BY <1>1, Sizes DEF Position
  <2>2. ROM_NO' = [ROM_NO EXCEPT ![n] = 1]
    BY <1>1, <1>7
  <2> QED
    BY <1>1, <2>1, <2>2 DEF Code
<1>10. ASSUME NEW d \in round.seen
       PROVE  \E p \in 1 .. n' - 1 : Before(d, ROM_NO', p)
  <2>1. CASE \E p \in 1 .. n - 1 : Before(d, ROM_NO, p)
    <3>1. PICK p \in 1 .. n - 1 : Before(d, ROM_NO, p)
      BY <2>1
    <3> HIDE DEF b
    <3>2. Before(d, ROM_NO', p)
      BY <1>1, <3>1, BeforeStep
    <3>3. p \in 1 .. n' - 1
      BY <1>1, Sizes DEF Position
    <3> QED
      BY <3>2, <3>3
  <2>2. CASE Agree(d, ROM_NO, n - 1) /\ d[n] = 0
    <3>1. Before(d, ROM_NO', n)
      BY <2>2, <1>9 DEF Before, Agree
    <3>2. n \in 1 .. n' - 1
      BY <1>1, Sizes DEF Position
    <3> QED
      BY <3>1, <3>2
  <2>3. d = ROM_NO => Agree(d, ROM_NO, n - 1) /\ d[n] = 0
    BY <1>4 DEF Agree
  <2>4. ASSUME NEW p \in Position, Before(d, ROM_NO, p), p \notin 1 .. n - 1
        PROVE  Agree(d, ROM_NO, n - 1) /\ d[n] = 0
    <3>1. p # n
      BY <1>4, <2>4 DEF Before
    <3>2. n \in 1 .. p - 1 /\ \A i \in 1 .. n - 1 : i \in 1 .. p - 1
      BY <1>1, <2>4, <3>1, Sizes DEF Position
    <3> QED
      BY <1>4, <2>4, <3>2 DEF Before, Agree
  <2>5. d = ROM_NO \/ \E p \in Position : Before(d, ROM_NO, p)
    BY DEF FollowInv, SeenBefore
  <2> QED
    BY <2>1, <2>2, <2>3, <2>4, <2>5
<1>11. ASSUME NEW d \in Wanted
       PROVE  d \in answering' \/ \E p \in 1 .. last_zero' : Before(ROM_NO', d, p)
  <2>1. PICK p \in 1 .. n : Before(ROM_NO, d, p) /\ (p < n => p <= last_zero)
    BY DEF FollowInv
  <2>2. CASE p = n
    <3>1. d \in polled
      BY DEF Wanted, Step, AnswerInv
    <3>2. d[n] = 1 /\ Agree(d, ROM_NO, n - 1)
      BY <2>1, <2>2 DEF Before, Agree
    <3>3. Agree(d, ROM_NO', n)
      BY <1>7, <3>2, StepFacts
    <3> QED
      BY <3>1, <3>3, StepFacts
  <2>3. CASE p # n
    <3>1. p \in 1 .. n - 1 /\ p \in 1 .. last_zero'
      BY <1>1, <1>8, <2>1, <2>3, Sizes DEF Position
    <3> HIDE DEF b
    <3>2. Before(ROM_NO', d, p)
      BY <1>1, <2>1, <3>1, BeforeStep
    <3> QED
      BY <3>1, <3>2
  <2> QED
    BY <2>2, <2>3
<1>12. round' = round /\ Wanted' = Wanted
  BY DEF Step, Wanted
<1> QED
  BY <1>10, <1>11, <1>12 DEF BeyondInv, LeftInv

(* In the first search of a round 0 is taken where devices differ, and     *)
(* after target_search the bits of the family code, to which every wanted  *)
(* device agrees.                                                          *)
LEMMA FirstStep ==
  ASSUME NEW cmp, Step(cmp), FirstInv, LeftInv
  PROVE  /\ LeftInv'
         /\ round.target \in Targets =>
              /\ \A i \in id_bit_number' .. RomBits : ROM_NO'[i] = TargetRom(round.target)[i]
              /\ Wanted # {} => \A i \in 1 .. FamilyBits : ROM_NO'[i] = round.target[i]
<1> DEFINE n == id_bit_number
           b == Direction(cmp)
           target == round.target
<1>1. /\ n \in Position /\ ROM_NO \in Code /\ ROM_NO' = [ROM_NO EXCEPT ![n] = b]
      /\ n' = n + 1 /\ last_zero \in 0 .. n - 1
  BY StepFacts
<1>2. n \in 1 .. RomBits
  BY <1>1 DEF Position
<1>3. CASE target \notin Targets
  <2>1. LastDiscrepancy = 0
    BY <1>3 DEF FirstInv, FirstPlace
  <2>2. id_bit = cmp => b = 0
    BY <1>2, <2>1, Sizes DEF Direction
  <2> QED
    BY <1>3, <2>2, LeftStep
<1>4. CASE target \in Targets
  <2>1. LastDiscrepancy = RomBits
    BY <1>4 DEF FirstInv, FirstPlace
  <2>2. \A d \in answering : d \in Devices /\ Agree(d, ROM_NO, n - 1)
    BY DEF Step, AnswerInv, SearchOK
  <2>3. id_bit = cmp => n < RomBits
    <3> SUFFICES ASSUME id_bit = cmp, n = RomBits PROVE FALSE
      BY <1>2, Sizes
    <3>1. PICK c \in answering : c[n] = 0
      BY StepFacts
    <3>2. PICK d \in answering : d[n] = 1
      BY StepFacts
    <3>3. c \in Devices /\ d \in ValidCodes /\ Agree(c, d, RomBits - 1)
      BY <2>2, SearchAssumption DEF Agree
    <3>4. d = c
      BY <3>3, LastBit
    <3> QED
      BY <3>1, <3>2, <3>4
  <2>4. n \in n .. RomBits
    BY <1>2, Sizes
  <2>5. id_bit = cmp => b = TargetRom(target)[n]
    <3>1. ROM_NO[n] = TargetRom(target)[n]
      BY <1>4, <2>4 DEF FirstInv
    <3> QED
      BY <2>1, <2>3, <3>1 DEF Direction
  <2>6. /\ n <= FamilyBits => TargetRom(target)[n] = target[n] /\ n \in 1 .. FamilyBits
        /\ ~(n <= FamilyBits) => TargetRom(target)[n] = 0
    BY <1>1, <1>2, Sizes DEF TargetRom
  <2>7. \A d \in Wanted : \A i \in 1 .. FamilyBits : d[i] = target[i]
    <3>1. \A d \in Wanted : Family(d) = target
      BY <1>4 DEF Wanted
    <3> QED
      BY <3>1 DEF Family
  <2>8. n <= FamilyBits => \A d \in Wanted : d \in answering
    <3> SUFFICES ASSUME n <= FamilyBits, NEW d \in Wanted, d \notin answering
                 PROVE  FALSE
      OBVIOUS
    <3>1. PICK p \in 1 .. last_zero : Before(ROM_NO, d, p)
      BY DEF LeftInv
    <3>2. p \in 1 .. FamilyBits
      BY <1>1, <1>2, Sizes
    <3>3. ROM_NO[p] = target[p]
      BY <1>4, <3>2 DEF FirstInv
    <3> QED
      BY <2>7, <3>1, <3>2, <3>3 DEF Before
  <2>9. n <= FamilyBits /\ Wanted # {} => b = target[n]
    <3> SUFFICES ASSUME n <= FamilyBits, NEW d \in Wanted PROVE b = target[n]
      OBVIOUS
    <3>1. CASE id_bit = cmp
      BY <2>5, <2>6, <3>1
    <3>2. CASE id_bit # cmp
      <4>1. d[n] = b
        BY <2>8, <3>2, StepFacts
      <4> QED
        BY <2>6, <2>7, <4>1
    <3> QED
      BY <3>1, <3>2
  <2>10. id_bit = cmp => b = 0 \/ \A d \in Wanted \cap answering : d[n] = b
    BY <2>5, <2>6, <2>7
  <2>11. LeftInv'
    BY <2>10, LeftStep
  <2>12. ASSUME NEW i \in n' .. RomBits
         PROVE  ROM_NO'[i] = TargetRom(target)[i]
    <3>1. i \in n .. RomBits /\ i \in Position /\ i # n
      BY <1>1, <1>2, Sizes DEF Position
    <3>2. ROM_NO[i] = TargetRom(target)[i]
      BY <1>4, <3>1 DEF FirstInv
    <3> HIDE DEF b
    <3> QED
      BY <1>1, <3>1, <3>2 DEF Code
  <2>13. ASSUME Wanted # {}, NEW i \in 1 .. FamilyBits
         PROVE  ROM_NO'[i] = target[i]
    <3>1. ROM_NO[i] = target[i] /\ i \in Position
      BY <1>4, <2>13, Sizes DEF FirstInv, Position
    <3>2. i = n => b = target[i]
      BY <2>9, <2>13, Sizes
    <3> HIDE DEF b
    <3> QED
      BY <1>1, <3>1, <3>2 DEF Code
  <2> QED
    BY <2>11, <2>12, <2>13
<1> QED
  BY <1>3, <1>4

(* A search that has come to the end has found one of the devices.         *)
LEMMA LastStep ==
  ASSUME NEW cmp, Step(cmp), id_bit_number = RomBits
  PROVE  /\ ROM_NO' \in polled /\ ROM_NO' \in answering'
         /\ \A d \in answering' : d = ROM_NO'
         /\ LastDiscrepancy' = last_zero' /\ (LastDeviceFlag' <=> last_zero' = 0)
         /\ at' = "report"
<1> DEFINE b == Direction(cmp)
<1>1. /\ ROM_NO \in Code /\ b \in {0, 1}
      /\ ROM_NO' = [ROM_NO EXCEPT ![id_bit_number] = b]
      /\ answering' # {}
      /\ answering' = {d \in polled : Agree(d, ROM_NO', RomBits)}
      /\ \A d \in polled : d \in Code
  BY StepFacts
<1>2. ROM_NO' \in Code
  <2> HIDE DEF b
  <2> QED
    BY <1>1 DEF Code
<1>3. \A d \in answering' : d = ROM_NO'
  BY <1>1, <1>2, AgreeAll
<1>4. ROM_NO' \in answering' /\ ROM_NO' \in polled
  BY <1>1, <1>3
<1>5. Family(ROM_NO') # Zero
  BY <1>4, SearchAssumption DEF Step, SearchOK
<1>6. Finish
  BY Sizes DEF Step, Select
<1> QED
  BY <1>3, <1>4, <1>5, <1>6 DEF Finish

(* At the last discrepancy of the last code, or behind it.                 *)
LEMMA PastStep ==
  ASSUME NEW cmp, Step(cmp), WalkInv, round.seen # {}, ~(id_bit_number < LastDiscrepancy)
  PROVE  BeyondInv' /\ LeftInv'
<1> DEFINE n == id_bit_number
<1>1. n \in Nat /\ LastDiscrepancy \in Nat
  BY StepFacts, Sizes DEF Step, SearchOK, Position
<1>2. CASE n = LastDiscrepancy
  BY <1>1, <1>2, TurnStep DEF WalkInv
<1>3. CASE n > LastDiscrepancy
  <2>1. BeyondInv /\ LeftInv
    BY <1>1, <1>3 DEF WalkInv
  <2>2. id_bit = cmp => Direction(cmp) = 0
    BY <1>1, <1>3 DEF Direction
  <2> QED
    BY <2>1, <2>2, BeyondStep, LeftStep
<1> QED
  BY <1>1, <1>2, <1>3

---------------------------------------------------------------------------
(* In the middle of a code the walk goes on.                               *)
LEMMA WalkStep ==
  ASSUME NEW cmp, Step(cmp), WalkInv, id_bit_number # RomBits
  PROVE  at' = "id" /\ WalkInv'
<1> DEFINE n == id_bit_number
<1>1. /\ n \in Position /\ n' = n + 1 /\ answering' # {}
      /\ answering' = {d \in polled : Agree(d, ROM_NO', n)}
  BY StepFacts
<1>2. n < RomBits /\ n' - 1 = n
  BY <1>1, Sizes DEF Position
<1>3. /\ at' = "id" /\ UNCHANGED <<LastDiscrepancy, LastDeviceFlag>>
      /\ UNCHANGED <<bus, polled, round, misreads, id_bit>>
  BY <1>2 DEF Step, Select
<1>4. Wanted' = Wanted
  BY <1>3 DEF Wanted
<1>5. AnswerInv'
  <2>1. last_zero' > 0 => \E d \in polled : Before(ROM_NO', d, last_zero')
    BY LastZeroStep
  <2>2. answering' = {d \in polled' : Agree(d, ROM_NO', n' - 1)}
    BY <1>1, <1>2, <1>3
  <2> QED
    BY <1>1, <1>3, <2>1, <2>2 DEF AnswerInv, Step
<1>6. CASE round.seen = {}
  <2>1. FirstInv /\ LeftInv
    BY <1>6 DEF WalkInv
  <2>2. LeftInv' /\ FirstInv'
    BY <1>3, <1>4, <2>1, FirstStep DEF FirstInv, FirstPlace
  <2> QED
    BY <1>3, <1>5, <1>6, <2>2 DEF WalkInv
<1>7. CASE round.seen # {} /\ n < LastDiscrepancy
  <2>1. FollowInv
    BY <1>7, <1>1 DEF WalkInv, Step, SearchOK
  <2>2. FollowInv'
    BY <1>3, <1>4, <1>7, <2>1, FollowStep DEF FollowInv, Resumable, SeenBefore
  <2>3. n' <= LastDiscrepancy'
    BY <1>1, <1>3, <1>7, Sizes DEF Position, Step, SearchOK
  <2> QED
    BY <1>3, <1>5, <1>7, <2>2, <2>3 DEF WalkInv
<1>8. CASE round.seen # {} /\ ~(n < LastDiscrepancy)
  <2>1. ~(n' <= LastDiscrepancy')
    BY <1>1, <1>3, <1>8, Sizes DEF Position, Step, SearchOK
  <2>2. BeyondInv' /\ LeftInv'
    BY <1>8, PastStep
  <2>3. LastDiscrepancy' > 0
    BY <1>3, <1>8 DEF WalkInv
  <2> QED
    BY <1>3, <1>5, <1>8, <2>1, <2>2, <2>3 DEF WalkInv
<1> QED
  BY <1>3, <1>6, <1>7, <1>8

(* At the end of a code it is reported (onewire.cpp 338-361).              *)
LEMMA EndStep ==
  ASSUME NEW cmp, Step(cmp), WalkInv, id_bit_number = RomBits
  PROVE  at' = "report" /\ ReportInv'
<1> DEFINE n == id_bit_number
<1>1. /\ ROM_NO' \in polled
      /\ \A d \in answering' : d = ROM_NO'
      /\ LastDiscrepancy' = last_zero' /\ (LastDeviceFlag' <=> last_zero' = 0)
      /\ at' = "report"
  BY LastStep
<1>2. UNCHANGED <<bus, polled, round>> /\ Wanted' = Wanted /\ polled \subseteq bus
  BY DEF Step, Wanted, AnswerInv
<1>3. n' = RomBits + 1
  BY StepFacts
<1>4. Resumable(bus)'
  BY <1>1, <1>2, LastZeroStep DEF Resumable
<1>5. LeftInv' /\ (round.seen # {} => BeyondInv')
  <2>1. CASE round.seen = {}
    BY <2>1, FirstStep DEF WalkInv
  <2>2. CASE round.seen # {}
    <3>1. ~(n < LastDiscrepancy)
      BY Sizes DEF Step, SearchOK
    <3> QED
      BY <2>2, <3>1, PastStep
  <2> QED
    BY <2>1, <2>2
<1>6. \A d \in Wanted : d = ROM_NO' \/ \E p \in 1 .. LastDiscrepancy' : Before(ROM_NO', d, p)
  BY <1>1, <1>2, <1>5 DEF LeftInv
<1>7. \A d \in round.seen : \E p \in Position : Before(d, ROM_NO', p)
  <2>1. 1 .. n' - 1 = Position
    BY <1>3, Sizes DEF Position
  <2> QED
    BY <1>2, <1>5, <2>1 DEF BeyondInv
<1>8. round.target \in Targets /\ round.seen = {} /\ Wanted # {} =>
        Family(ROM_NO') = round.target
  <2> SUFFICES ASSUME round.target \in Targets, round.seen = {}, Wanted # {}
               PROVE  Family(ROM_NO') = round.target
    OBVIOUS
  <2>1. \A i \in 1 .. FamilyBits : ROM_NO'[i] = round.target[i]
    BY FirstStep DEF WalkInv
  <2>2. round.target \in [1 .. FamilyBits -> {0, 1}]
    BY SearchAssumption
  <2> QED
    BY <2>1, <2>2 DEF Family
<1> QED
  BY <1>1, <1>2, <1>4, <1>6, <1>7, <1>8 DEF ReportInv

---------------------------------------------------------------------------
(* The actions of the main loop.  A step after which the round is whole    *)
(* read its bits right.                                                    *)
LEMMA ReadComplementRound ==
  ASSUME SearchOK, RoundInv, ReadComplement, round'.whole
  PROVE  RoundInv'
<1>1. PICK cmp \in {0, 1} : /\ Sample({1 - d[id_bit_number] : d \in answering}, cmp)
                            /\ IF id_bit = 1 /\ cmp = 1 THEN NobodyAnswers ELSE Select(cmp)
  BY DEF ReadComplement
<1>2. at = "cmp" /\ UNCHANGED <<bus, polled, id_bit>>
  BY DEF ReadComplement
<1>3. round.whole
  <2>1. round' \in {round, Disturbed}
    BY <1>1, SampleType
  <2> QED
    BY <2>1 DEF Disturbed
<1>4. cmp = Wire({1 - d[id_bit_number] : d \in answering}) /\ UNCHANGED <<misreads, round>>
  BY <1>1, <1>3, SampleType
<1>5. WalkInv /\ AnswerInv /\ round.owed \subseteq bus
  BY <1>2, <1>3 DEF RoundInv, InSearch, WalkInv
<1>6. ~(id_bit = 1 /\ cmp = 1)
  <2> SUFFICES ASSUME id_bit = 1, cmp = 1 PROVE FALSE
    OBVIOUS
  <2>1. \A d \in answering : d[id_bit_number] \in {0, 1}
    BY <1>2, DeviceBits DEF SearchOK
  <2>2. id_bit = Wire({d[id_bit_number] : d \in answering}) /\ answering # {}
    BY <1>2, <1>5 DEF AnswerInv
  <2> QED
    BY <1>4, <2>1, <2>2, WireBits
<1>7. Step(cmp)
  BY <1>1, <1>2, <1>4, <1>5, <1>6 DEF Step
<1>8. CASE id_bit_number # RomBits
  <2>1. at' = "id" /\ WalkInv'
    BY <1>5, <1>7, <1>8, WalkStep
  <2> QED
    BY <1>2, <1>4, <1>5, <2>1 DEF RoundInv
<1>9. CASE id_bit_number = RomBits
  <2>1. at' = "report" /\ ReportInv'
    BY <1>5, <1>7, <1>9, EndStep
  <2> QED
    BY <1>2, <1>4, <1>5, <2>1 DEF RoundInv, InSearch
<1> QED
  BY <1>8, <1>9

(* Reading the first bit (onewire.cpp 286).                                *)
LEMMA ReadBitRound ==
  ASSUME SearchOK, RoundInv, ReadBit, round'.whole
  PROVE  RoundInv'
<1>1. /\ at = "id" /\ at' = "cmp"
      /\ UNCHANGED <<bus, answering, ROM_NO, LastDiscrepancy, LastDeviceFlag,
                     id_bit_number, last_zero, polled>>
  BY DEF ReadBit, line, place
<1>2. Sample({d[id_bit_number] : d \in answering}, id_bit')
  BY DEF ReadBit
<1>3. round.whole
  <2>1. round' \in {round, Disturbed}
    BY <1>2, SampleType
  <2> QED
    BY <2>1 DEF Disturbed
<1>4. id_bit' = Wire({d[id_bit_number] : d \in answering}) /\ UNCHANGED <<misreads, round>>
  BY <1>2, <1>3, SampleType
<1>5. WalkInv /\ round.owed \subseteq bus
  BY <1>1, <1>3 DEF RoundInv, InSearch
<1>6. Wanted' = Wanted
  BY <1>4 DEF Wanted
<1>7. AnswerInv'
  BY <1>1, <1>4, <1>5 DEF WalkInv, AnswerInv
<1>8. (FirstInv => FirstInv') /\ (FollowInv => FollowInv')
  BY <1>1, <1>4, <1>6 DEF FirstInv, FirstPlace, FollowInv, Resumable, SeenBefore
<1>9. (BeyondInv => BeyondInv') /\ (LeftInv => LeftInv')
  BY <1>1, <1>4, <1>6 DEF BeyondInv, LeftInv
<1>10. WalkInv'
  BY <1>1, <1>4, <1>5, <1>7, <1>8, <1>9 DEF WalkInv
<1> QED
  BY <1>1, <1>4, <1>5, <1>10 DEF RoundInv

(* A search begins, the first of a round or a later one (onewire.cpp 256). *)
LEMMA BeginSearchRound ==
  ASSUME SearchOK, RoundInv, BeginSearch, round'.whole
  PROVE  RoundInv'
<1>1. /\ at = "idle" /\ ~LastDeviceFlag /\ bus # {}
      /\ answering' = bus /\ polled' = bus /\ id_bit_number' = 1 /\ last_zero' = 0
      /\ misreads' = 0 /\ at' = "id"
      /\ UNCHANGED <<bus, ROM_NO, LastDiscrepancy, LastDeviceFlag, round>>
  BY DEF BeginSearch, place
<1>2. IdleInv /\ round.owed \subseteq bus
  BY <1>1 DEF RoundInv
<1>3. Wanted' = Wanted
  BY <1>1 DEF Wanted
<1>4. \A d : Agree(d, ROM_NO', id_bit_number' - 1)
  BY <1>1 DEF Agree
<1>5. AnswerInv'
  BY <1>1, <1>2, <1>4 DEF AnswerInv
<1>6. CASE round.seen = {}
  <2>1. LeftInv'
    BY <1>1, <1>2, <1>3 DEF LeftInv, Wanted
  <2>2. FirstPlace /\ (round.target \in Targets => ROM_NO = TargetRom(round.target))
    BY <1>2, <1>6 DEF IdleInv
  <2>3. \A i \in 1 .. FamilyBits : i \in Position /\ i <= FamilyBits
    BY Sizes DEF Position
  <2>4. FirstInv'
    BY <1>1, <2>2, <2>3 DEF FirstInv, FirstPlace, TargetRom
  <2> QED
    BY <1>1, <1>2, <1>5, <1>6, <2>1, <2>4 DEF RoundInv, WalkInv
<1>7. CASE round.seen # {}
  <2>1. Resumable(bus) /\ SeenBefore /\ WantedBehind /\ LastDiscrepancy # 0
    BY <1>1, <1>2, <1>7 DEF IdleInv
  <2>2. LastDiscrepancy > 0 /\ 1 <= LastDiscrepancy
    BY <2>1, Sizes DEF SearchOK
  <2>3. \A p \in 1 .. LastDiscrepancy : ~(p < 1)
    BY Sizes DEF SearchOK
  <2>4. FollowInv'
    BY <1>1, <1>3, <2>1, <2>3 DEF FollowInv, Resumable, SeenBefore, WantedBehind
  <2> QED
    BY <1>1, <1>2, <1>5, <1>7, <2>2, <2>4 DEF RoundInv, WalkInv
<1> QED
  BY <1>6, <1>7

(* A code is reported; in a whole round it has the right check sum.        *)
LEMMA ReportRound ==
  ASSUME SearchOK, RoundInv, Report \/ BadCrc, round'.whole
  PROVE  RoundInv'
<1>1. /\ at = "report" /\ at' = "idle"
      /\ UNCHANGED <<bus, ROM_NO, LastDiscrepancy, LastDeviceFlag, polled>>
  BY DEF Report, BadCrc, line, place
<1>2. round.whole
  BY DEF Report, BadCrc
<1>3. ReportInv /\ round.owed \subseteq bus
  BY <1>1, <1>2 DEF RoundInv
<1>4. ROM_NO \in ValidCodes
  BY <1>3, SearchAssumption DEF ReportInv, SearchOK
<1>5. round' = Reported(ROM_NO)
  BY <1>2, <1>4 DEF Report, BadCrc
<1>6. /\ round'.seen = round.seen \cup {ROM_NO}
      /\ round'.owed = round.owed \ {ROM_NO}
      /\ round'.target = round.target
  BY <1>5 DEF Reported
<1>7. Wanted' \subseteq Wanted \ {ROM_NO}
  BY <1>6 DEF Wanted
<1>8. SeenBefore' /\ WantedBehind'
  BY <1>1, <1>3, <1>6, <1>7 DEF ReportInv, SeenBefore, WantedBehind
<1>9. Resumable(bus)'
  BY <1>1, <1>3 DEF ReportInv, Resumable
<1>10. IdleInv'
  BY <1>1, <1>3, <1>6, <1>8, <1>9 DEF IdleInv, ReportInv
<1> QED
  BY <1>1, <1>3, <1>6, <1>10 DEF RoundInv, InSearch

(* A new round begins (onewire.cpp 206-230).                               *)
LEMMA BeginningRound ==
  ASSUME SearchOK, RoundInv,
         reset_search \/ \E family \in Targets : target_search(family)
  PROVE  RoundInv'
<1>1. CASE reset_search
  <2>1. /\ at' = "idle" /\ LastDiscrepancy' = 0 /\ LastDeviceFlag' = FALSE
        /\ round' = Beginning(NoTarget) /\ bus' = bus
    BY <1>1 DEF reset_search, line
  <2>2. /\ round'.seen = {} /\ round'.owed = bus' /\ round'.target \notin Targets
    BY <2>1, SearchAssumption DEF Beginning
  <2> QED
    BY <2>1, <2>2 DEF RoundInv, InSearch, IdleInv, FirstPlace
<1>2. ASSUME NEW family \in Targets, target_search(family)
      PROVE  RoundInv'
  <2>1. /\ at' = "idle" /\ LastDiscrepancy' = RomBits /\ LastDeviceFlag' = FALSE
        /\ ROM_NO' = TargetRom(family)
        /\ round' = Beginning(family) /\ bus' = bus
    BY <1>2 DEF target_search, TargetRom, line
  <2>2. /\ round'.seen = {} /\ round'.owed = bus' /\ round'.target = family
    BY <2>1 DEF Beginning
  <2> QED
    BY <2>1, <2>2 DEF RoundInv, InSearch, IdleInv, FirstPlace
<1> QED
  BY <1>1, <1>2

(* search says that there are no more devices only when all were found.    *)
LEMMA NoneRound ==
  ASSUME SearchOK, RoundInv, AfterLastDevice \/ NoPresence, round'.whole
  PROVE  RoundInv'
<1>1. at = "idle" /\ at' = "none" /\ bus' = bus
  BY DEF AfterLastDevice, NoPresence, GiveUp, line
<1>2. round' = round /\ round.whole
  BY DEF AfterLastDevice, NoPresence, Disturbed
<1>3. IdleInv /\ round.owed \subseteq bus /\ Wanted' = Wanted
  BY <1>1, <1>2 DEF RoundInv, Wanted
<1>4. Wanted = {}
  <2>1. CASE AfterLastDevice
    <3>1. LastDeviceFlag
      BY <2>1 DEF AfterLastDevice
    <3>2. WantedBehind /\ LastDiscrepancy = 0
      BY <1>3, <3>1 DEF IdleInv
    <3> QED
      BY <3>2 DEF WantedBehind
  <2>2. CASE NoPresence
    <3>1. bus = {}
      BY <2>2 DEF NoPresence, Disturbed
    <3> QED
      BY <1>3, <3>1 DEF Wanted
  <2> QED
    BY <2>1, <2>2
<1> QED
  BY <1>1, <1>2, <1>3, <1>4 DEF RoundInv, InSearch

(* A device that is added changes neither the place nor what is owed.      *)
LEMMA PlugRound ==
  ASSUME SearchOK, RoundInv, NEW d \in Devices, Plug(d), round'.whole
  PROVE  RoundInv'
<1>1. /\ bus \subseteq bus'
      /\ UNCHANGED <<answering, calm, ROM_NO, LastDiscrepancy, LastDeviceFlag,
                     id_bit_number, last_zero, id_bit, at, misreads, polled, round>>
  BY DEF Plug, place, locals
<1>2. /\ Wanted' = Wanted /\ (Resumable(bus) => Resumable(bus)')
      /\ (SeenBefore => SeenBefore') /\ (WantedBehind => WantedBehind')
  <2>1. Wanted' = Wanted
    BY <1>1 DEF Wanted
  <2> QED
    BY <1>1, <2>1 DEF Resumable, SeenBefore, WantedBehind
<1>3. IdleInv => IdleInv'
  BY <1>1, <1>2 DEF IdleInv, FirstPlace
<1>4. ReportInv => ReportInv'
  BY <1>1, <1>2 DEF ReportInv
<1>5. AnswerInv => AnswerInv'
  BY <1>1 DEF AnswerInv
<1>6. (FirstInv => FirstInv') /\ (FollowInv => FollowInv')
  BY <1>1, <1>2 DEF FirstInv, FirstPlace, FollowInv, Resumable
<1>7. (BeyondInv => BeyondInv') /\ (LeftInv => LeftInv')
  BY <1>1, <1>2 DEF BeyondInv, LeftInv
<1>8. WalkInv => WalkInv'
  BY <1>1, <1>5, <1>6, <1>7 DEF WalkInv
<1> QED
  BY <1>1, <1>2, <1>3, <1>4, <1>8 DEF RoundInv, InSearch

(* Initially a round begins (onewire.cpp 17-25).                           *)
LEMMA RoundInit == Init => RoundInv
<1> SUFFICES ASSUME Init PROVE RoundInv
  OBVIOUS
<1>1. round.seen = {} /\ round.owed = bus /\ round.target \notin Targets
  BY SearchAssumption DEF Init, Beginning
<1> QED
  BY <1>1 DEF Init, RoundInv, InSearch, IdleInv, FirstPlace

(* Every step keeps RoundInv.                                              *)
LEMMA RoundNext ==
  ASSUME SearchOK, RoundInv, [Next]_vars
  PROVE  RoundInv'
<1> SUFFICES ASSUME round'.whole PROVE RoundInv'
  BY DEF RoundInv
<1>1. CASE search
  BY <1>1, NoneRound, BeginSearchRound, ReadBitRound, ReadComplementRound DEF search
<1>2. CASE Report \/ BadCrc
  BY <1>2, ReportRound
<1>3. CASE reset_search \/ \E family \in Targets : target_search(family)
  BY <1>3, BeginningRound
<1>4. ASSUME NEW d \in Devices, Plug(d)
      PROVE  RoundInv'
  BY <1>4, PlugRound
<1>5. ASSUME NEW d \in Devices, Unplug(d)
      PROVE  RoundInv'
  BY <1>5 DEF Unplug, Disturbed
<1>6. CASE CalmDown \/ UNCHANGED vars
  <2>1. UNCHANGED <<bus, answering, place, locals, at, misreads, polled, round>>
    BY <1>6 DEF CalmDown, vars, line
  <2> QED
    BY <2>1 DEF RoundInv, InSearch, IdleInv, FirstPlace, ReportInv, Resumable, SeenBefore,
                WantedBehind, Wanted, WalkInv, AnswerInv, FirstInv, FollowInv, BeyondInv,
                LeftInv, place, locals
<1> QED
  BY <1>1, <1>2, <1>3, <1>4, <1>5, <1>6 DEF Next, MainLoop

---------------------------------------------------------------------------
(* RoundInv is an invariant.                                               *)
LEMMA RoundSafety == Spec => [](SearchOK /\ RoundInv)
<1>1. Init => SearchOK /\ RoundInv
  BY TypeInit, RoundInit
<1>2. SearchOK /\ RoundInv /\ [Next]_vars => (SearchOK /\ RoundInv)'
  BY TypeNext, RoundNext
<1> QED
  BY <1>1, <1>2, PTL DEF Spec

(* No code lies before itself: what was reported is not reported again     *)
(* (onewire.cpp 300-308).                                                  *)
THEOREM SearchFindsNoneTwice == Spec => []NoneTwice
<1>1. RoundInv => NoneTwice
  <2> SUFFICES ASSUME RoundInv, at = "report", round.whole, ROM_NO \in round.seen
               PROVE  FALSE
    BY DEF NoneTwice
  <2>1. \E p \in Position : Before(ROM_NO, ROM_NO, p)
    BY DEF RoundInv, ReportInv
  <2> QED
    BY <2>1 DEF Before
<1> QED
  BY <1>1, RoundSafety, PTL

(* The codes of a round come in ascending order, the first bit counting    *)
(* most, whatever is added to the bus meanwhile: each search goes beyond   *)
(* all that came before it, and there are but finitely many codes, which   *)
(* is why a round ends at all (onewire.cpp 300-308).                       *)
CodesAscend ==
  at = "report" /\ round.whole => \A d \in round.seen : \E p \in Position : Before(d, ROM_NO, p)

THEOREM SearchAscends == Spec => []CodesAscend
<1>1. RoundInv => CodesAscend
  BY DEF RoundInv, ReportInv, CodesAscend
<1> QED
  BY <1>1, RoundSafety, PTL

(* When search says that there are no more devices, all that were there    *)
(* from the beginning of the round, or all of the family asked for, were   *)
(* found (onewire.cpp 221-230, 337-345).                                   *)
THEOREM SearchMissesNone == Spec => []NoneMissed
<1>1. RoundInv => NoneMissed
  BY DEF RoundInv, Wanted, NoneMissed
<1> QED
  BY <1>1, RoundSafety, PTL

(* The first device found after target_search has the family asked for if  *)
(* such a device is there (onewire.cpp 218-219).                           *)
THEOREM TargetIsFirst == Spec => []TargetFirst
<1>1. RoundInv => TargetFirst
  <2> SUFFICES ASSUME RoundInv, at = "report", round.whole, round.target \in Targets,
                      round.seen = {}, NEW d \in round.owed, Family(d) = round.target
               PROVE  Family(ROM_NO) = round.target
    BY DEF TargetFirst
  <2>1. d \in Wanted
    BY DEF Wanted
  <2> QED
    BY <2>1 DEF RoundInv, ReportInv
<1> QED
  BY <1>1, RoundSafety, PTL

---------------------------------------------------------------------------
(* The search implements Enumeration, for codes of every length: what      *)
(* Sensor assumes of search is what the walk down the tree of codes does.  *)

Inv == SearchOK /\ NoPhantoms /\ RoundInv

(* It holds in every state reached.                                        *)
LEMMA Invariant == Spec => []Inv
<1>1. Spec => []NoPhantoms
  BY SearchFindsNoPhantoms
<1>2. Spec => [](SearchOK /\ RoundInv)
  BY RoundSafety
<1> QED
  BY <1>1, <1>2, PTL DEF Inv

(* The initial states are initial states of Enumeration.                   *)
LEMMA InitMaps == Init => Promise!EnumerationInit
BY DEF Init, Promise!EnumerationInit, CallOf, CodeOf, Beginning, Promise!Beginning

(* Sampling a bit disturbs the round or leaves it alone.                   *)
LEMMA SampleMaps ==
  ASSUME NEW bits, NEW value, Sample(bits, value)
  PROVE  Promise!PerhapsDisturbed /\ (round' = round \/ ~round'.whole)
BY DEF Sample, Promise!PerhapsDisturbed, Disturbed, Promise!Disturbed

(* Search returns false.                                                   *)
LEMMA NoneMaps ==
  ASSUME Inv', at \in {"idle", "id", "cmp"}, at' = "none",
         UNCHANGED <<bus, calm, polled>>,
         Promise!PerhapsDisturbed, round' = round \/ ~round'.whole
  PROVE  Promise!NoMore
<1>1. CallOf \in {"idle", "search"} /\ CallOf' = "none" /\ CodeOf' = CodeOf
  BY DEF CallOf, CodeOf
<1>2. ASSUME round'.whole, round.target = NoTarget PROVE round.owed = {}
  <2>1. round' = round /\ Wanted' = {}
    BY <1>2 DEF Inv, RoundInv
  <2>2. NoTarget \notin Targets
    BY SearchAssumption
  <2> QED
    BY <1>2, <2>1, <2>2 DEF Wanted
<1> QED
  BY <1>1, <1>2 DEF Promise!NoMore

(* Search returns true.                                                    *)
LEMMA FoundMaps ==
  ASSUME Inv', at \in {"id", "cmp"}, at' = "report",
         UNCHANGED <<bus, calm, polled>>,
         Promise!PerhapsDisturbed, round' = round \/ ~round'.whole
  PROVE  \E c \in Code : Promise!Found(c)
<1>1. CallOf = "search" /\ CallOf' = "report" /\ CodeOf' = ROM_NO'
  BY DEF CallOf, CodeOf
<1>2. ROM_NO' \in Code /\ (ROM_NO' \in ValidCodes => ROM_NO' \in polled)
  BY DEF Inv, SearchOK, NoPhantoms
<1>3. ASSUME round'.whole PROVE ROM_NO' \in polled \ round.seen
  <2>1. round' = round /\ ReportInv'
    BY <1>3 DEF Inv, RoundInv
  <2>2. ROM_NO' \in polled /\ \A d \in round.seen : \E p \in Position : Before(d, ROM_NO', p)
    BY <2>1 DEF ReportInv, Before, Agree
  <2>3. \A p \in Position : ~Before(ROM_NO', ROM_NO', p)
    BY DEF Before
  <2> QED
    BY <2>2, <2>3
<1>4. Promise!Found(ROM_NO')
  BY <1>1, <1>2, <1>3 DEF Promise!Found
<1> QED
  BY <1>2, <1>4

(* The steps of a search.                                                  *)
LEMMA SearchMaps ==
  ASSUME Inv, Inv', search
  PROVE  Promise!EnumerationNext
<1> USE DEF Promise!EnumerationNext
<1>1. CASE AfterLastDevice
  BY <1>1, NoneMaps DEF AfterLastDevice, GiveUp, line, Promise!PerhapsDisturbed
<1>2. CASE NoPresence
  <2>1. at = "idle" /\ at' = "none" /\ UNCHANGED <<bus, calm, polled>>
    BY <1>2 DEF NoPresence, GiveUp, line
  <2>2. Promise!PerhapsDisturbed /\ (round' = round \/ ~round'.whole)
    BY <1>2 DEF NoPresence, Promise!PerhapsDisturbed, Disturbed, Promise!Disturbed
  <2> QED
    BY <2>1, <2>2, NoneMaps
<1>3. CASE BeginSearch
  BY <1>3 DEF BeginSearch, Promise!Begin, CallOf, CodeOf
<1>4. CASE ReadBit
  <2>1. at = "id" /\ at' = "cmp" /\ UNCHANGED <<bus, calm, polled>>
    BY <1>4 DEF ReadBit, line
  <2>2. Promise!PerhapsDisturbed
    BY <1>4, SampleMaps DEF ReadBit
  <2> QED
    BY <2>1, <2>2 DEF Promise!Misread, CallOf, CodeOf
<1>5. CASE ReadComplement
  <2>1. PICK cmp \in {0, 1} : /\ Sample({1 - d[id_bit_number] : d \in answering}, cmp)
                              /\ IF id_bit = 1 /\ cmp = 1 THEN NobodyAnswers ELSE Select(cmp)
    BY <1>5 DEF ReadComplement
  <2>2. at = "cmp" /\ UNCHANGED <<bus, calm, polled>>
    BY <1>5 DEF ReadComplement
  <2>3. Promise!PerhapsDisturbed /\ (round' = round \/ ~round'.whole)
    BY <2>1, SampleMaps
  <2>4. at' \in {"id", "report", "none"}
    BY <2>1 DEF NobodyAnswers, GiveUp, Select, Finish
  <2>5. CASE at' = "id"
    BY <2>2, <2>3, <2>5 DEF Promise!Misread, CallOf, CodeOf
  <2>6. CASE at' = "report"
    BY <2>2, <2>3, <2>6, FoundMaps
  <2>7. CASE at' = "none"
    BY <2>2, <2>3, <2>7, NoneMaps
  <2> QED
    BY <2>4, <2>5, <2>6, <2>7
<1> QED
  BY <1>1, <1>2, <1>3, <1>4, <1>5 DEF search

(* What the main loop does between two calls.                              *)
LEMMA TakeMaps ==
  ASSUME Report \/ BadCrc
  PROVE  Promise!Take
<1>1. /\ at = "report" /\ at' = "idle" /\ UNCHANGED <<bus, calm, polled>>
      /\ CodeOf = ROM_NO /\ CodeOf' = NoCode
  BY DEF Report, BadCrc, CodeOf, line
<1>2. round' = IF ROM_NO \in ValidCodes /\ round.whole THEN Reported(ROM_NO) ELSE round
  BY DEF Report, BadCrc
<1> QED
  BY <1>1, <1>2 DEF Promise!Take, CallOf, Reported, Promise!Reported

(* Every step is a step of Enumeration or a stutter.                       *)
LEMMA StepMaps ==
  ASSUME Inv, Inv', [Next]_vars
  PROVE  [Promise!EnumerationNext]_(Promise!enumeration)
<1> USE DEF Promise!EnumerationNext
<1>1. CASE search
  BY <1>1, SearchMaps
<1>2. CASE Report \/ BadCrc
  BY <1>2, TakeMaps
<1>3. CASE reset_search
  BY <1>3 DEF reset_search, Promise!NewRound, CallOf, CodeOf, line, Beginning, Promise!Beginning
<1>4. ASSUME NEW family \in Targets, target_search(family)
      PROVE  Promise!EnumerationNext
  BY <1>4 DEF target_search, Promise!Retarget, CallOf, CodeOf, line, Beginning, Promise!Beginning
<1>5. ASSUME NEW d \in Devices, Plug(d) PROVE Promise!EnumerationNext
  BY <1>5 DEF Plug, Promise!Plugged, CallOf, CodeOf, place
<1>6. ASSUME NEW d \in Devices, Unplug(d) PROVE Promise!EnumerationNext
  BY <1>6 DEF Unplug, Promise!Unplugged, CallOf, CodeOf, place, Disturbed, Promise!Disturbed
<1>7. CASE CalmDown
  BY <1>7 DEF CalmDown, Promise!Calmed, CallOf, CodeOf, place
<1>8. CASE UNCHANGED vars
  BY <1>8 DEF vars, line, place, Promise!enumeration, CallOf, CodeOf
<1> QED
  BY <1>1, <1>2, <1>3, <1>4, <1>5, <1>6, <1>7, <1>8 DEF Next, MainLoop

(* Every behaviour of the search is one of Enumeration (onewire.cpp        *)
(* 206-230, 248-362, main.cpp 112-127).                                    *)
THEOREM SearchImplementsEnumeration == Spec => ImplementsEnumeration
<1>1. Inv /\ Inv' /\ [Next]_vars => [Promise!EnumerationNext]_(Promise!enumeration)
  BY StepMaps
<1> QED
  BY <1>1, InitMaps, Invariant, PTL DEF Spec, ImplementsEnumeration, Promise!EnumerationSpec

============================================================================
