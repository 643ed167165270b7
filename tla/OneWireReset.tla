---------------------------- MODULE OneWireReset ----------------------------
(***************************************************************************)
(* OneWire::reset: wait until the wire is free, pull it low, let it go and *)
(* wait for a presence pulse, with one budget of polls for the four waits. *)
(* Times are microseconds.  m_delayMsecClbk is ets_delay_us and waits at   *)
(* least as long as it is asked to: from one poll of the wire to the next  *)
(* it takes longer by the callbacks' own time and by what interrupts take, *)
(* which stay on (the callback that main.cpp 52 installs does nothing).    *)
(***************************************************************************)
EXTENDS Integers

CONSTANTS
  ResetPulseUs, ResetTimeUs, ResetStepUs,  (* 500, 1200 - 500, 10            *)
  PollUs,    (* the delay of the waits after the pulse: 2                    *)
  Busy,      (* how long the wire may stay low before the pulse              *)
  Rises,     (* how long it may stay low after it                            *)
  Begins,    (* when after the pulse devices pull it low                     *)
  Ends,      (* and when they let it go                                      *)
  Overruns,  (* by how much the way from one poll to the next may be late    *)
  MaxOverrun (* bound: by how much the polls of a wait are late together     *)

(* The wire is up before a device answers.                                 *)
ASSUME ResetAssumption ==
  /\ ResetPulseUs \in Nat /\ ResetTimeUs \in Nat /\ ResetStepUs <= ResetTimeUs
  /\ ResetStepUs \in Nat \ {0} /\ PollUs \in Nat \ {0}
  /\ Busy \subseteq Nat /\ Rises \subseteq Nat /\ Begins \subseteq Nat /\ Ends \subseteq Nat
  /\ Overruns \subseteq Nat /\ MaxOverrun \in Nat
  /\ 0 \in Overruns
  /\ \A rise \in Rises, begin \in Begins, end \in Ends : rise < begin /\ begin < end

MaxRetries == ResetTimeUs \div ResetStepUs

VARIABLES
  wait,      (* idle, free, pulse, rise, presence, end, settle, yes, no      *)
  retries,
  now,       (* the time since the call began, after the pulse since it ended *)
  wire,      (* when it is low: before rise, and from begin to end           *)
  polls,     (* history: polls of the first wait                             *)
  over,      (* history: by how much delays were late, since now was 0       *)
  longest    (* history: and the longest of them                             *)

resetvars == <<wait, retries, now, wire, polls, over, longest>>

Returned == wait \in {"yes", "no"}

(* The devices' pulses overlap, and so there is one pulse, or none.        *)
Quiet       == [rise |-> 0, begin |-> 0, end |-> 0]
Wires(rise) == {[rise |-> r, begin |-> 0, end |-> 0] : r \in rise}
Present     == {[rise |-> r, begin |-> b, end |-> e] : r \in Rises, b \in Begins, e \in Ends}
Answers     == wire.begin < wire.end

High(t) == t >= wire.rise /\ ~(wire.begin <= t /\ t < wire.end)

ResetInit ==
  /\ wait = "idle" /\ retries = 0 /\ now = 0 /\ polls = 0 /\ over = 0 /\ longest = 0
  /\ wire = Quiet

CallReset ==
  /\ wait = "idle" \/ Returned
  /\ wait' = "free" /\ retries' = MaxRetries /\ now' = 0 /\ polls' = 0
  /\ over' = 0 /\ longest' = 0
  /\ wire' \in Wires(Busy)

(* One iteration of a wait that ends when the level is the one wanted: the *)
(* budget first, then the delay, then the pin.                             *)
Poll(step, high, next) ==
  /\ retries' = retries - 1
  /\ IF retries' = 0
     THEN wait' = "no" /\ UNCHANGED <<now, over, longest>>
     ELSE \E late \in Overruns :
            /\ over' = over + late /\ over' <= MaxOverrun
            /\ longest' = IF late > longest THEN late ELSE longest
            /\ now' = now + step + late
            /\ wait' = IF High(now') = high THEN next ELSE wait
  /\ UNCHANGED wire

WaitFree ==
  /\ wait = "free"
  /\ Poll(ResetStepUs, TRUE, "pulse")
  /\ polls' = polls + 1

(* The wire is low for ResetPulseUs; then the devices answer, or nobody    *)
(* does, or it never rises.                                                *)
Pulse ==
  /\ wait = "pulse"
  /\ wait' = "rise" /\ now' = 0 /\ over' = 0 /\ longest' = 0
  /\ wire' \in Present \cup Wires(Rises) \cup Wires({PollUs * MaxRetries + MaxOverrun})
  /\ UNCHANGED <<retries, polls>>

(* A slip: the wire is taken for high at once.                             *)
NoWaitRise == wait = "rise" /\ wait' = "presence" /\ UNCHANGED <<retries, now, wire, polls, over, longest>>

WaitRise == wait = "rise" /\ Poll(PollUs, TRUE, "presence") /\ UNCHANGED polls

(* A slip: the polls of a wire that stays high do not count.               *)
WaitPresenceUncounted ==
  /\ wait = "presence"
  /\ IF Answers THEN Poll(PollUs, FALSE, "end") ELSE UNCHANGED <<wait, retries, now, wire, over, longest>>
  /\ UNCHANGED polls

WaitPresence == wait = "presence" /\ Poll(PollUs, FALSE, "end") /\ UNCHANGED polls

WaitEnd == wait = "end" /\ Poll(PollUs, TRUE, "settle") /\ UNCHANGED polls

Settle ==
  /\ wait = "settle"
  /\ wait' = "yes" /\ now' = now + ResetStepUs * retries
  /\ UNCHANGED <<retries, wire, polls, over, longest>>

reset     == WaitFree \/ Pulse \/ WaitRise \/ WaitPresence \/ WaitEnd \/ Settle
ResetNext == CallReset \/ reset

ResetSpec == ResetInit /\ [][ResetNext]_resetvars /\ WF_resetvars(reset)

---------------------------------------------------------------------------
(* When a presence pulse has to end for the polls left to see it, if every *)
(* poll is in time.                                                        *)
Budget == PollUs * (MaxRetries - 1 - polls)

(* No delay was so late that the wire came up and went down again, or a    *)
(* pulse went by, between two polls.                                       *)
Visible ==
  /\ wire.rise + PollUs + longest < wire.begin
  /\ wire.begin + PollUs + longest <= wire.end

(* reset returns true only if a device pulled the wire low after it had    *)
(* been high, and false only if none did, or the wire was low before, or   *)
(* the pulse lasted longer than the polls that the first wait left over    *)
(* (onewire.cpp 36-72): one budget is shared by all waits.  It counts      *)
(* polls, not time, and so a late poll gives the pulse longer, unless it   *)
(* is so late that it misses it.                                           *)
ResetTells ==
  /\ wait = "yes" => Answers /\ wire.end <= Budget + over
  /\ wait = "no" /\ Answers /\ Visible => wire.end > Budget + over

(* Every call returns, also if the wire is shorted (onewire.cpp 42-67).    *)
ResetReturns == wait = "free" ~> Returned

============================================================================
