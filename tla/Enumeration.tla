---------------------------- MODULE Enumeration ----------------------------
(***************************************************************************)
(* What OneWire::search promises the main loop, without codes, bits or the *)
(* place a search has reached: a call ends with the code of a device, with *)
(* a code whose check sum is wrong, or with none, and the calls between    *)
(* two "none" form a round, which takes every device once unless the bus   *)
(* was disturbed.                                                          *)
(***************************************************************************)
EXTENDS Integers

CONSTANTS
  Devices,     (* the devices that may be plugged in                         *)
  ValidCodes,  (* the codes with the right check sum                         *)
  Codes,       (* all codes                                                  *)
  NoCode,      (* none of them                                               *)
  Targets,     (* the families that a round may be begun with                *)
  NoTarget

ASSUME EnumerationAssumption ==
  Devices \subseteq ValidCodes /\ ValidCodes \subseteq Codes /\ NoCode \notin Codes

VARIABLES
  bus,      (* the devices on the bus                                        *)
  calm,     (* nothing disturbs the bus any more                             *)
  call,     (* of search: idle, search, report (true) or none (false)        *)
  code,     (* the code it returned                                          *)
  polled,   (* the devices that were there when it was called                *)
  round     (* what the calls of this round found                            *)

enumeration == <<bus, calm, call, code, polled, round>>

Beginning(target) == [seen |-> {}, owed |-> bus, whole |-> TRUE, target |-> target]
Reported(c)       == [seen |-> round.seen \cup {c}, owed |-> round.owed \ {c},
                      whole |-> TRUE, target |-> round.target]
Disturbed         == [seen |-> {}, owed |-> {}, whole |-> FALSE, target |-> NoTarget]

(* A bit is misread, or a presence pulse is not seen.                      *)
PerhapsDisturbed == round' = round \/ (~calm /\ round' = Disturbed)

EnumerationInit ==
  /\ bus \in SUBSET Devices /\ calm = FALSE
  /\ call = "idle" /\ code = NoCode /\ polled = {}
  /\ round = Beginning(NoTarget)

Begin ==
  /\ call = "idle" /\ bus # {}
  /\ call' = "search"
  /\ polled' = bus
  /\ UNCHANGED <<bus, calm, code, round>>

Misread ==
  /\ call = "search"
  /\ PerhapsDisturbed
  /\ UNCHANGED <<bus, calm, call, code, polled>>

Found(c) ==
  /\ call = "search"
  /\ call' = "report" /\ code' = c
  /\ PerhapsDisturbed
  /\ c \in ValidCodes => c \in polled
  /\ round'.whole => c \in polled \ round.seen
  /\ UNCHANGED <<bus, calm, polled>>

NoMore ==
  /\ call \in {"idle", "search"}
  /\ call' = "none"
  /\ PerhapsDisturbed
  /\ round'.whole /\ round.target = NoTarget => round.owed = {}
  /\ UNCHANGED <<bus, calm, code, polled>>

Take ==
  /\ call = "report"
  /\ call' = "idle" /\ code' = NoCode
  /\ round' = IF code \in ValidCodes /\ round.whole
              THEN Reported(code) ELSE round
  /\ UNCHANGED <<bus, calm, polled>>

NewRound ==
  /\ call = "none"
  /\ call' = "idle"
  /\ round' = Beginning(NoTarget)
  /\ UNCHANGED <<bus, calm, code, polled>>

Retarget ==
  /\ call = "idle" /\ ~calm
  /\ \E target \in Targets : round' = Beginning(target)
  /\ UNCHANGED <<bus, calm, call, code, polled>>

Plugged ==
  /\ \E d \in Devices \ bus : bus' = bus \cup {d}
  /\ UNCHANGED <<calm, call, code, polled, round>>

Unplugged ==
  /\ ~calm
  /\ \E d \in bus : bus' = bus \ {d}
  /\ round' = Disturbed
  /\ UNCHANGED <<calm, call, code, polled>>

Calmed ==
  /\ calm' = TRUE
  /\ UNCHANGED <<bus, call, code, polled, round>>

EnumerationNext ==
  \/ Begin \/ Misread \/ NoMore \/ Take \/ NewRound \/ Retarget
  \/ \E c \in Codes : Found(c)
  \/ Plugged \/ Unplugged \/ Calmed

EnumerationSpec == EnumerationInit /\ [][EnumerationNext]_enumeration

============================================================================
