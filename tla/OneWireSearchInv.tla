-------------------------- MODULE OneWireSearchInv --------------------------
(***************************************************************************)
(* The inductive invariants behind the theorems about OneWireSearch.       *)
(***************************************************************************)
EXTENDS OneWireSearch

InSearch == at \in {"id", "cmp"}

(* The first n bits are the same; c leaves d at p with a 0, d with a 1.    *)
Agree(c, d, n)  == \A i \in 1 .. n : c[i] = d[i]
Before(c, d, p) == Agree(c, d, p - 1) /\ c[p] = 0 /\ d[p] = 1

(* The bits a search has chosen so far are those of a device that was      *)
(* asked.                                                                  *)
OnTrack == \E d \in polled : Agree(d, ROM_NO, id_bit_number - 1)

(* A search that goes wrong has seen the misread bit, and then nobody      *)
(* answers it.                                                             *)
PhantomInv ==
  /\ answering \subseteq polled
  /\ InSearch =>
       /\ \A d \in answering : Agree(d, ROM_NO, id_bit_number - 1)
       /\ misreads = 0 => OnTrack
  /\ at = "cmp" =>
       /\ ~OnTrack => id_bit = 1
       /\ misreads = 0 /\ id_bit = 0 =>
            \E d \in polled : /\ Agree(d, ROM_NO, id_bit_number - 1)
                              /\ d[id_bit_number] = 0
  /\ NoPhantoms

---------------------------------------------------------------------------
(* A round.  What is said of it is said as long as it is whole.            *)

TargetRom(family) == [i \in Position |-> IF i <= FamilyBits THEN family[i] ELSE 0]

(* What the round has to find.                                             *)
Wanted == {d \in round.owed : round.target \notin Targets \/ Family(d) = round.target}

(* The last code found is that of one of the devices, and another one of   *)
(* them leaves it at the last discrepancy.                                 *)
Resumable(devices) ==
  /\ ROM_NO \in devices
  /\ LastDiscrepancy > 0 => \E d \in devices : Before(ROM_NO, d, LastDiscrepancy)

(* All that was reported lies before the last code, all that is wanted     *)
(* leaves it at the last discrepancy or earlier.                           *)
SeenBefore == \A d \in round.seen : d = ROM_NO \/ \E p \in Position : Before(d, ROM_NO, p)
WantedBehind == \A d \in Wanted : \E p \in 1 .. LastDiscrepancy : Before(ROM_NO, d, p)

(* Before the first search of the round.                                   *)
FirstPlace ==
  IF round.target \in Targets THEN LastDiscrepancy = RomBits ELSE LastDiscrepancy = 0

IdleInv ==
  IF round.seen = {}
  THEN /\ FirstPlace /\ ~LastDeviceFlag
       /\ round.target \in Targets => ROM_NO = TargetRom(round.target)
  ELSE /\ Resumable(bus) /\ SeenBefore /\ WantedBehind
       /\ LastDeviceFlag <=> LastDiscrepancy = 0

ReportInv ==
  /\ Resumable(bus)
  /\ ROM_NO \in polled
  /\ \A d \in round.seen : \E p \in Position : Before(d, ROM_NO, p)
  /\ \A d \in Wanted : d = ROM_NO \/ \E p \in 1 .. LastDiscrepancy : Before(ROM_NO, d, p)
  /\ LastDeviceFlag <=> LastDiscrepancy = 0
  /\ round.target \in Targets /\ round.seen = {} /\ Wanted # {} => Family(ROM_NO) = round.target

(* Those that answer are those that agree with the bits chosen so far.     *)
AnswerInv ==
  /\ misreads = 0 /\ ~LastDeviceFlag
  /\ polled \subseteq bus /\ round.owed \subseteq polled
  /\ answering = {d \in polled : Agree(d, ROM_NO, id_bit_number - 1)}
  /\ answering # {}
  /\ at = "cmp" => id_bit = Wire({d[id_bit_number] : d \in answering})
  /\ last_zero > 0 => \E d \in polled : Before(ROM_NO, d, last_zero)

(* The first search of a round, with or without a target.                  *)
FirstInv ==
  /\ FirstPlace
  /\ round.target \in Targets =>
       /\ \A i \in id_bit_number .. RomBits : ROM_NO[i] = TargetRom(round.target)[i]
       /\ Wanted # {} => \A i \in 1 .. FamilyBits : ROM_NO[i] = round.target[i]

(* A later one, up to the last discrepancy: it follows the last code.      *)
FollowInv ==
  /\ Resumable(polled) /\ SeenBefore
  /\ \A d \in Wanted : \E p \in 1 .. LastDiscrepancy :
       Before(ROM_NO, d, p) /\ (p < id_bit_number => p <= last_zero)

(* ... and behind it.                                                      *)
BeyondInv == \A d \in round.seen : \E p \in 1 .. id_bit_number - 1 : Before(d, ROM_NO, p)

LeftInv == \A d \in Wanted : d \in answering \/ \E p \in 1 .. last_zero : Before(ROM_NO, d, p)

WalkInv ==
  /\ AnswerInv
  /\ IF round.seen = {} THEN FirstInv /\ LeftInv
     ELSE /\ LastDiscrepancy > 0
          /\ IF id_bit_number <= LastDiscrepancy THEN FollowInv ELSE BeyondInv /\ LeftInv

RoundInv ==
  round.whole =>
    /\ round.owed \subseteq bus
    /\ at = "idle" => IdleInv
    /\ InSearch => WalkInv
    /\ at = "report" => ReportInv
    /\ at = "none" => Wanted = {}

============================================================================
