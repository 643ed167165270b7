---------------------------- MODULE DeviceProofs ----------------------------
(***************************************************************************)
(* Proofs about the units under the main loop: what reset returns, for any *)
(* delays, any state of the wire and any presence pulse; what a sensor     *)
(* reads, for every temperature of 16 bits; that no device is spoken to    *)
(* while it converts; that bytes cross the wire; and that the check sums   *)
(* show one wrong bit, or two.                                             *)
(***************************************************************************)
EXTENDS OneWireReset, OneWireSlots, Sensor, Crc, TLAPS

Waiting == {"rise", "presence", "end", "settle"}

ResetOK ==
  /\ wait \in {"idle", "free", "pulse", "yes", "no"} \cup Waiting
  /\ retries \in Nat /\ now \in Nat /\ polls \in Nat
  /\ over \in Nat /\ longest \in Nat
  /\ wire \in [rise : Nat, begin : Nat, end : Nat]

(* Before the pulse only the first wait has used the budget.               *)
Before == polls + retries = MaxRetries /\ retries >= 1 /\ ~Answers

(* After it the polls are a clock that is slow by what the delays overran. *)
After ==
  /\ retries >= 1
  /\ now = PollUs * (MaxRetries - polls - retries) + over
  /\ over <= now

ResetInv ==
  /\ ResetOK
  /\ wait \in {"free", "pulse"} => Before
  /\ wait \in Waiting => After
  /\ wait = "rise" /\ Answers /\ Visible => now <= wire.rise
  /\ wait = "presence" => now >= wire.rise /\ (Answers /\ Visible => now < wire.begin)
  /\ wait = "end" => wire.rise <= now /\ wire.begin <= now /\ now < wire.end
  /\ wait = "settle" => Answers /\ wire.end <= now
  /\ ResetTells

---------------------------------------------------------------------------
(* Arithmetic, with the product kept out of the way.                       *)
LEMMA OneMore == \A u, n \in Int : u * (n + 1) = u * n + u
OBVIOUS

(* A product grows with its factor.                                        *)
LEMMA Monotone ==
  ASSUME NEW u \in Nat, NEW m \in Int, NEW n \in Int, m <= n
  PROVE  u * m <= u * n
OBVIOUS

(* No product with a negative factor is a natural number.                  *)
LEMMA NegativeProduct ==
  ASSUME NEW u \in Nat \ {0}, NEW m \in Int, u * m \in Nat
  PROVE  m >= 0
<1> SUFFICES ASSUME m < 0 PROVE FALSE
  OBVIOUS
<1>1. u * m < 0
  OBVIOUS
<1> QED
  BY <1>1

(* The budget of retries is a positive number.                             *)
LEMMA BudgetPositive == MaxRetries \in Nat /\ MaxRetries >= 1
BY ResetAssumption DEF MaxRetries

(* The initial states, and then one lemma for each kind of step.           *)
LEMMA ResetStarts == ResetInit => ResetInv
BY DEF ResetInit, ResetInv, ResetOK, ResetTells, Waiting, Quiet

(* One iteration of a wait after the pulse: the budget is used up, at a    *)
(* time that ResetTells calls Budget, or the clock goes on by PollUs.      *)
LEMMA Iteration ==
  ASSUME ResetInv, wait \in Waiting, UNCHANGED polls,
         NEW high \in BOOLEAN, NEW next, Poll(PollUs, high, next)
  PROVE  /\ retries' \in Nat /\ wire' = wire
         /\ retries' = 0 => /\ wait' = "no" /\ now = Budget + over
                            /\ UNCHANGED <<now, over, longest>>
         /\ retries' # 0 =>
              \E late \in Nat :
                /\ now' = now + PollUs + late /\ over' = over + late
                /\ longest' \in Nat /\ late <= longest' /\ longest <= longest'
                /\ wait' = IF High(now') = high THEN next ELSE wait
                /\ After'
<1> USE DEF ResetInv, ResetOK, After, Poll, Waiting
<1>1. retries' \in Nat /\ wire' = wire /\ retries' = retries - 1 /\ PollUs \in Nat
  BY ResetAssumption
<1>2. CASE retries' = 0
  <2>1. retries = 1
    BY <1>1, <1>2
  <2>2. MaxRetries - polls - retries = MaxRetries - 1 - polls
    BY <2>1, BudgetPositive
  <2>3. now = Budget + over
    BY <2>2 DEF Budget
  <2> QED
    BY <1>1, <1>2, <2>3
<1>3. CASE retries' # 0
  <2> DEFINE n == MaxRetries - polls - retries
  <2>1. n \in Int /\ MaxRetries - polls - retries' = n + 1
    BY <1>1, BudgetPositive
  <2>2. PollUs * (n + 1) = PollUs * n + PollUs
    BY <2>1, <1>1, OneMore
  <2>3. PICK late \in Overruns :
          /\ over' = over + late
          /\ longest' = IF late > longest THEN late ELSE longest
          /\ now' = now + PollUs + late
          /\ wait' = IF High(now') = high THEN next ELSE wait
    BY <1>3
  <2>4. late \in Nat /\ PollUs * n \in Int
    BY <2>1, <1>1, ResetAssumption
  <2>5. now' = PollUs * (MaxRetries - polls' - retries') + over'
    <3>1. now = PollUs * n + over /\ over \in Nat
      OBVIOUS
    <3>2. now' = PollUs * (n + 1) + over'
      BY <3>1, <2>2, <2>3, <2>4, <1>1
    <3>3. MaxRetries - polls' - retries' = n + 1
      BY <2>1
    <3> QED
      BY <3>2, <3>3
  <2>6. longest' \in Nat /\ late <= longest' /\ longest <= longest'
    BY <2>3, <2>4
  <2>7. After'
    BY <1>1, <1>3, <2>3, <2>4, <2>5
  <2> QED
    BY <1>1, <1>3, <2>3, <2>4, <2>6, <2>7
<1> QED
  BY <1>2, <1>3

(* Waiting for the line to rise after the pulse.                           *)
LEMMA RiseStep == ResetInv /\ WaitRise => ResetInv'
<1> SUFFICES ASSUME ResetInv, WaitRise PROVE ResetInv'
  OBVIOUS
<1>1. wait = "rise" /\ Poll(PollUs, TRUE, "presence") /\ UNCHANGED polls
  BY DEF WaitRise
<1>2. /\ retries' \in Nat /\ wire' = wire
      /\ retries' = 0 => wait' = "no" /\ now = Budget + over /\ UNCHANGED <<now, over, longest>>
      /\ retries' # 0 =>
           \E late \in Nat :
             /\ now' = now + PollUs + late /\ over' = over + late
             /\ longest' \in Nat /\ late <= longest' /\ longest <= longest'
             /\ wait' = IF High(now') = TRUE THEN "presence" ELSE wait
             /\ After'
  BY <1>1, Iteration DEF Waiting
<1>3. CASE retries' = 0
  BY <1>1, <1>2, <1>3, ResetAssumption
     DEF ResetInv, ResetOK, ResetTells, Waiting, After, Answers, Budget, Visible
<1>4. CASE retries' # 0
  <2>1. PICK late \in Nat :
          /\ now' = now + PollUs + late /\ over' = over + late
          /\ longest' \in Nat /\ late <= longest' /\ longest <= longest'
          /\ wait' = IF High(now') = TRUE THEN "presence" ELSE wait
          /\ After'
    BY <1>2, <1>4
  <2>2. /\ now' \in Nat /\ over' \in Nat /\ PollUs \in Nat /\ wire \in [rise : Nat, begin : Nat, end : Nat]
        /\ now' >= now /\ polls' \in Nat
    BY <1>1, <2>1, ResetAssumption DEF ResetInv, ResetOK
  <2>3. Answers' /\ Visible' => now' < wire.begin
    <3> SUFFICES ASSUME Answers', Visible' PROVE now' < wire.begin
      OBVIOUS
    <3>1. Answers /\ Visible
      BY <1>2, <2>1, <2>2 DEF Answers, Visible, ResetInv, ResetOK
    <3>2. now <= wire.rise
      BY <1>1, <3>1 DEF ResetInv
    <3> QED
      BY <1>2, <2>1, <2>2, <3>2 DEF Visible, ResetInv, ResetOK
  <2>4. CASE High(now')
    BY <1>1, <1>2, <2>1, <2>2, <2>3, <2>4 DEF ResetInv, ResetOK, ResetTells, Waiting, Answers, High
  <2>5. CASE ~High(now')
    BY <1>1, <1>2, <2>1, <2>2, <2>3, <2>5 DEF ResetInv, ResetOK, ResetTells, Waiting, Answers, High
  <2> QED
    BY <2>4, <2>5
<1> QED
  BY <1>3, <1>4

(* Waiting for a device to pull the line.                                  *)
LEMMA PresenceStep == ResetInv /\ WaitPresence => ResetInv'
<1> SUFFICES ASSUME ResetInv, WaitPresence PROVE ResetInv'
  OBVIOUS
<1>1. wait = "presence" /\ Poll(PollUs, FALSE, "end") /\ UNCHANGED polls
  BY DEF WaitPresence
<1>2. /\ retries' \in Nat /\ wire' = wire
      /\ retries' = 0 => wait' = "no" /\ now = Budget + over /\ UNCHANGED <<now, over, longest>>
      /\ retries' # 0 =>
           \E late \in Nat :
             /\ now' = now + PollUs + late /\ over' = over + late
             /\ longest' \in Nat /\ late <= longest' /\ longest <= longest'
             /\ wait' = IF High(now') = FALSE THEN "end" ELSE wait
             /\ After'
  BY <1>1, Iteration DEF Waiting
<1>3. CASE retries' = 0
  BY <1>1, <1>2, <1>3, ResetAssumption
     DEF ResetInv, ResetOK, ResetTells, Waiting, After, Answers, Budget, Visible
<1>4. CASE retries' # 0
  <2>1. PICK late \in Nat :
          /\ now' = now + PollUs + late /\ over' = over + late
          /\ longest' \in Nat /\ late <= longest' /\ longest <= longest'
          /\ wait' = IF High(now') = FALSE THEN "end" ELSE wait
          /\ After'
    BY <1>2, <1>4
  <2>2. /\ now' \in Nat /\ over' \in Nat /\ PollUs \in Nat /\ wire \in [rise : Nat, begin : Nat, end : Nat]
        /\ now' >= now /\ polls' \in Nat
    BY <1>1, <2>1, ResetAssumption DEF ResetInv, ResetOK
  <2>3. now' >= wire.rise /\ (Answers' /\ Visible' => now' < wire.end)
    <3>1. now' >= wire.rise
      BY <1>1, <2>2 DEF ResetInv, ResetOK
    <3> SUFFICES ASSUME Answers', Visible' PROVE now' < wire.end
      BY <3>1
    <3>2. Answers /\ Visible
      BY <1>2, <2>1, <2>2 DEF Answers, Visible, ResetInv, ResetOK
    <3>3. now < wire.begin
      BY <1>1, <3>2 DEF ResetInv
    <3> QED
      BY <1>2, <2>1, <2>2, <3>3 DEF Visible, ResetInv, ResetOK
  <2>4. CASE High(now')
    BY <1>1, <1>2, <2>1, <2>2, <2>3, <2>4 DEF ResetInv, ResetOK, ResetTells, Waiting, Answers, High
  <2>5. CASE ~High(now')
    BY <1>1, <1>2, <2>1, <2>2, <2>3, <2>5 DEF ResetInv, ResetOK, ResetTells, Waiting, Answers, High
  <2> QED
    BY <2>4, <2>5
<1> QED
  BY <1>3, <1>4

(* Waiting for the device to let the line go.                              *)
LEMMA EndStep == ResetInv /\ WaitEnd => ResetInv'
<1> SUFFICES ASSUME ResetInv, WaitEnd PROVE ResetInv'
  OBVIOUS
<1>1. wait = "end" /\ Poll(PollUs, TRUE, "settle") /\ UNCHANGED polls
  BY DEF WaitEnd
<1>2. /\ retries' \in Nat /\ wire' = wire
      /\ retries' = 0 => wait' = "no" /\ now = Budget + over /\ UNCHANGED <<now, over, longest>>
      /\ retries' # 0 =>
           \E late \in Nat :
             /\ now' = now + PollUs + late /\ over' = over + late
             /\ longest' \in Nat /\ late <= longest' /\ longest <= longest'
             /\ wait' = IF High(now') = TRUE THEN "settle" ELSE wait
             /\ After'
  BY <1>1, Iteration DEF Waiting
<1>3. CASE retries' = 0
  BY <1>1, <1>2, <1>3, ResetAssumption
     DEF ResetInv, ResetOK, ResetTells, Waiting, After, Answers, Budget, Visible
<1>4. CASE retries' # 0
  <2>1. PICK late \in Nat :
          /\ now' = now + PollUs + late /\ over' = over + late
          /\ longest' \in Nat /\ late <= longest' /\ longest <= longest'
          /\ wait' = IF High(now') = TRUE THEN "settle" ELSE wait
          /\ After'
    BY <1>2, <1>4
  <2>2. /\ now' \in Nat /\ over' \in Nat /\ PollUs \in Nat /\ wire \in [rise : Nat, begin : Nat, end : Nat]
        /\ now' >= now /\ polls' \in Nat
    BY <1>1, <2>1, ResetAssumption DEF ResetInv, ResetOK
  <2>3. Answers /\ now' >= wire.begin /\ now' >= wire.rise
    BY <1>1, <2>2 DEF ResetInv, ResetOK, Answers
  <2>4. CASE High(now')
    BY <1>1, <1>2, <2>1, <2>2, <2>3, <2>4 DEF ResetInv, ResetOK, ResetTells, Waiting, Answers, High
  <2>5. CASE ~High(now')
    BY <1>1, <1>2, <2>1, <2>2, <2>3, <2>5 DEF ResetInv, ResetOK, ResetTells, Waiting, Answers, High
  <2> QED
    BY <2>4, <2>5
<1> QED
  BY <1>3, <1>4

(* The rest of the presence slot.                                          *)
LEMMA SettleStep == ResetInv /\ Settle => ResetInv'
<1> SUFFICES ASSUME ResetInv, Settle PROVE ResetInv'
  OBVIOUS
<1>1. /\ wait = "settle" /\ wait' = "yes" /\ UNCHANGED <<retries, wire, polls, over, longest>>
      /\ now' = now + ResetStepUs * retries
  BY DEF Settle
<1>2. ResetStepUs * retries \in Nat
  BY ResetAssumption DEF ResetInv, ResetOK
<1>3. now <= Budget + over
  <2>1. MaxRetries - polls - retries <= MaxRetries - 1 - polls
    BY <1>1, BudgetPositive DEF ResetInv, ResetOK, Waiting, After
  <2>2. PollUs * (MaxRetries - polls - retries) <= Budget
    BY <1>1, <2>1, Monotone, ResetAssumption, BudgetPositive
       DEF ResetInv, ResetOK, Waiting, Budget
  <2>3. /\ PollUs * (MaxRetries - polls - retries) \in Int /\ Budget \in Int
        /\ now = PollUs * (MaxRetries - polls - retries) + over /\ over \in Nat
    BY <1>1, ResetAssumption, BudgetPositive DEF ResetInv, ResetOK, Waiting, After, Budget
  <2> QED
    BY <2>2, <2>3
<1>4. Answers /\ wire.end <= now
  BY <1>1 DEF ResetInv
<1>5. Budget \in Int
  BY ResetAssumption, BudgetPositive DEF Budget, ResetInv, ResetOK
<1> QED
  BY <1>1, <1>2, <1>3, <1>4, <1>5 DEF ResetInv, ResetOK, ResetTells, Waiting, Answers, Budget

(* The call, the wait for a free line, and the pulse.                      *)
LEMMA FirstSteps == ResetInv /\ (CallReset \/ WaitFree \/ Pulse) => ResetInv'
<1> SUFFICES ASSUME ResetInv, CallReset \/ WaitFree \/ Pulse PROVE ResetInv'
  OBVIOUS
<1>1. CASE CallReset
  BY <1>1, BudgetPositive, ResetAssumption
     DEF CallReset, ResetInv, ResetOK, ResetTells, Waiting, Before, Answers, Wires
<1>2. CASE WaitFree
  <2>1. /\ wait = "free" /\ retries' = retries - 1 /\ polls' = polls + 1 /\ wire' = wire
        /\ IF retries' = 0 THEN wait' = "no" /\ UNCHANGED <<now, over, longest>>
           ELSE now' \in Nat /\ over' \in Nat /\ longest' \in Nat /\ wait' \in {"pulse", "free"}
    BY <1>2, ResetAssumption DEF WaitFree, Poll, ResetInv, ResetOK
  <2> QED
    BY <2>1, ResetAssumption DEF ResetInv, ResetOK, ResetTells, Waiting, Before, Answers
<1>3. CASE Pulse
  <2>1. /\ wait = "pulse" /\ wait' = "rise" /\ now' = 0 /\ over' = 0 /\ longest' = 0
        /\ UNCHANGED <<retries, polls>>
        /\ wire' \in Present \cup Wires(Rises) \cup Wires({PollUs * MaxRetries + MaxOverrun})
    BY <1>3 DEF Pulse
  <2>2. PollUs * MaxRetries + MaxOverrun \in Nat /\ PollUs * 0 = 0
    BY ResetAssumption, BudgetPositive
  <2>3. wire' \in [rise : Nat, begin : Nat, end : Nat]
    BY <2>1, <2>2, ResetAssumption DEF Present, Wires
  <2>4. MaxRetries - polls - retries = 0
    BY <2>1, BudgetPositive DEF ResetInv, ResetOK, Before
  <2>5. now' = PollUs * (MaxRetries - polls' - retries') + over'
    BY <2>1, <2>2, <2>4
  <2>6. After'
    BY <2>1, <2>5 DEF After, ResetInv, Before
  <2> QED
    BY <2>1, <2>3, <2>6, ResetAssumption DEF ResetInv, ResetOK, ResetTells, Waiting
<1> QED
  BY <1>1, <1>2, <1>3

(* All the steps of a call.                                                *)
LEMMA ResetInvNext == ResetInv /\ [ResetNext]_resetvars => ResetInv'
<1> SUFFICES ASSUME ResetInv, [ResetNext]_resetvars PROVE ResetInv'
  OBVIOUS
<1>1. CASE UNCHANGED resetvars
  BY <1>1 DEF resetvars, ResetInv, ResetOK, ResetTells, Waiting, Before, After, Answers, Budget, Visible
<1> QED
  BY <1>1, FirstSteps, RiseStep, PresenceStep, EndStep, SettleStep DEF ResetNext, reset

(* reset returns true only for a presence pulse, and false only if there   *)
(* was none, or the wire was low before, or the budget of polls did not    *)
(* reach its end (onewire.cpp 36-72): for all delays and every wire.       *)
THEOREM ResetIsRight == ResetSpec => []ResetTells
<1>1. ResetInv => ResetTells
  BY DEF ResetInv
<1> QED
  BY ResetStarts, ResetInvNext, <1>1, PTL DEF ResetSpec

(* How many steps a call of reset may still take: the polls it has left,   *)
(* the pulse and the end.                                                  *)
StepsLeft ==
  IF wait = "idle" \/ Returned THEN 0
  ELSE retries + (IF wait \in {"free", "pulse"} THEN 2 ELSE 1)

CountsDown == reset => StepsLeft' < StepsLeft

(* A call of reset takes at most MaxRetries + 2 steps, also if the wire is *)
(* shorted: every one of them uses up one that was left.  With the         *)
(* fairness of reset that is ResetReturns (onewire.cpp 42-67).             *)
THEOREM ResetCountsDown ==
  ResetSpec => /\ [](StepsLeft \in 0 .. MaxRetries + 2)
               /\ [][CountsDown]_resetvars
<1>1. ResetInv => StepsLeft \in Nat
  BY DEF ResetInv, ResetOK, StepsLeft
<1>2. ResetInv => StepsLeft \in 0 .. MaxRetries + 2
  <2> SUFFICES ASSUME ResetInv PROVE StepsLeft \in Nat /\ StepsLeft <= MaxRetries + 2
    BY BudgetPositive
  <2>1. CASE wait \in {"free", "pulse"}
    BY <2>1, BudgetPositive DEF ResetInv, ResetOK, Before, StepsLeft, Returned
  <2>2. CASE wait \in Waiting
    <3>1. /\ now = PollUs * (MaxRetries - polls - retries) + over /\ over <= now
          /\ now \in Nat /\ polls \in Nat /\ over \in Nat
          /\ retries \in Nat /\ PollUs \in Nat \ {0}
      BY <2>2, ResetAssumption DEF ResetInv, ResetOK, After
    <3>2. MaxRetries - polls - retries >= 0
      BY <3>1, BudgetPositive, NegativeProduct
    <3> QED
      BY <2>2, <3>1, <3>2, BudgetPositive DEF Waiting, StepsLeft, Returned
  <2>3. CASE wait \in {"idle", "yes", "no"}
    BY <2>3, BudgetPositive DEF StepsLeft, Returned
  <2> QED
    BY <2>1, <2>2, <2>3 DEF ResetInv, ResetOK
<1>3. ResetInv /\ [ResetNext]_resetvars => ResetInv'
  BY ResetInvNext
<1>4. ResetInv /\ [ResetNext]_resetvars => [CountsDown]_resetvars
  <2> SUFFICES ASSUME ResetInv, reset PROVE StepsLeft' < StepsLeft
    BY DEF CountsDown
  <2>1. retries \in Nat /\ retries >= 0
    BY DEF ResetInv, ResetOK
  <2>2. CASE WaitFree
    BY <2>1, <2>2 DEF WaitFree, Poll, StepsLeft, Returned
  <2>3. CASE Pulse
    BY <2>1, <2>3 DEF Pulse, StepsLeft, Returned
  <2>4. CASE WaitRise
    BY <2>1, <2>4 DEF WaitRise, Poll, StepsLeft, Returned
  <2>5. CASE WaitPresence
    BY <2>1, <2>5 DEF WaitPresence, Poll, StepsLeft, Returned
  <2>6. CASE WaitEnd
    BY <2>1, <2>6 DEF WaitEnd, Poll, StepsLeft, Returned
  <2>7. CASE Settle
    BY <2>1, <2>7 DEF Settle, StepsLeft, Returned
  <2> QED
    BY <2>2, <2>3, <2>4, <2>5, <2>6, <2>7 DEF reset
<1> QED
  BY <1>2, <1>3, <1>4, ResetStarts, PTL DEF ResetSpec

---------------------------------------------------------------------------
(* A value that fits into the register survives it.                        *)
LEMMA WordAndBack ==
  ASSUME NEW value, Fits(value)
  PROVE  Int16(AsWord(value)) = value
<1>1. value \in Int /\ -32768 <= value /\ value < 32768
  BY DEF Fits
<1>2. CASE value >= 0
  <2>1. value % 65536 = value
    BY <1>1, <1>2
  <2> QED
    BY <1>1, <2>1 DEF Int16, AsWord
<1>3. CASE value < 0
  <2>1. value % 65536 = value + 65536
    BY <1>1, <1>3
  <2>2. ~(value + 65536 < 32768) /\ (value + 65536) - 65536 = value
    BY <1>1
  <2> QED
    BY <2>1, <2>2 DEF Int16, AsWord
<1> QED
  BY <1>1, <1>2, <1>3

(* The units that the resolutions leave.                                   *)
LEMMA UnitOf == \A resolution \in 9 .. 12 : Unit(resolution) \in {1, 2, 4, 8}
BY DEF Unit

(* Bits below the unit do not matter.                                      *)
LEMMA ClearNoise ==
  ASSUME NEW value, Fits(value), NEW unit \in {1, 2, 4, 8}, NEW noise \in 0 .. unit - 1
  PROVE  /\ Fits(ClearLow(value, unit) + noise)
         /\ ClearLow(ClearLow(value, unit) + noise, unit) = ClearLow(value, unit)
<1> DEFINE q == value \div unit
<1>1. CASE unit = 1
  BY <1>1 DEF ClearLow, Fits
<1>2. CASE unit = 2
  <2>1. q \in Int /\ value = 2 * q + (value % 2) /\ value % 2 \in 0 .. 1
    BY <1>2 DEF Fits
  <2>2. (2 * q + noise) % 2 = noise
    BY <1>2, <2>1
  <2> QED
    BY <1>2, <2>1, <2>2 DEF ClearLow, Fits
<1>3. CASE unit = 4
  <2>1. q \in Int /\ value = 4 * q + (value % 4) /\ value % 4 \in 0 .. 3
    BY <1>3 DEF Fits
  <2>2. (4 * q + noise) % 4 = noise
    BY <1>3, <2>1
  <2> QED
    BY <1>3, <2>1, <2>2 DEF ClearLow, Fits
<1>4. CASE unit = 8
  <2>1. q \in Int /\ value = 8 * q + (value % 8) /\ value % 8 \in 0 .. 7
    BY <1>4 DEF Fits
  <2>2. (8 * q + noise) % 8 = noise
    BY <1>4, <2>1
  <2> QED
    BY <1>4, <2>1, <2>2 DEF ClearLow, Fits
<1> QED
  BY <1>1, <1>2, <1>3, <1>4

(* A DS18B20 or DS1822 is reported with the temperature it measured,       *)
(* rounded down to its resolution, whatever the undefined bits are         *)
(* (TemperatureSensor.cpp 64-78).                                          *)
THEOREM CelsiusOfB20 ==
  ASSUME NEW temperature, Fits(temperature), NEW resolution \in 9 .. 12,
         NEW noise \in 0 .. Unit(resolution) - 1
  PROVE  getCelsius(DS18B20, PadB20(temperature, resolution, noise))
           = ClearLow(temperature, Unit(resolution))
<1> DEFINE unit  == Unit(resolution)
           value == ClearLow(temperature, unit) + noise
           pad   == PadB20(temperature, resolution, noise)
<1>1. unit \in {1, 2, 4, 8}
  BY UnitOf
<1>2. Fits(value) /\ ClearLow(value, unit) = ClearLow(temperature, unit)
  BY <1>1, ClearNoise
<1>3. Int16(AsWord(value)) = value
  BY <1>2, WordAndBack
<1>4. pad.word = AsWord(value) /\ pad.resolution = resolution
  BY DEF PadB20
<1>5. getCelsius(DS18B20, pad) = ClearLow(Int16(pad.word), Unit(pad.resolution))
  BY DEF getCelsius, CelsiusB20, DS18B20, DS18S20
<1> QED
  BY <1>2, <1>3, <1>4, <1>5

(* A DS18S20 is reported to the sixteenth of a degree, from its half       *)
(* degrees and the count that remains (TemperatureSensor.cpp 80-93); the   *)
(* sum is reduced to 16 bits twice on the way.                             *)
THEOREM CelsiusOfS20 ==
  ASSUME NEW temperature, Fits(temperature), Fits(temperature + 4), NEW half \in {0, 1}
  PROVE  getCelsius(DS18S20, PadS20(temperature, half)) = temperature
<1> DEFINE degree == (temperature + 4) \div 16
           word   == 2 * degree + half
           raw    == 16 * degree + 8 * half
           pad    == PadS20(temperature, half)
<1>1. /\ degree \in Int
      /\ 16 * degree <= temperature + 4 /\ temperature + 4 < 16 * degree + 16
  BY DEF Fits
<1>2. Fits(word) /\ Fits(raw) /\ 8 * word = raw
  BY <1>1 DEF Fits
<1>3. Int16(AsWord(word)) = word /\ Int16(AsWord(raw)) = raw
  BY <1>2, WordAndBack
<1>4. ClearLow(AsWord(raw), 16) = AsWord(16 * degree)
  <2> HIDE DEF degree
  <2>1. CASE degree >= 0
    <3>1. raw % 65536 = raw /\ (16 * degree) % 65536 = 16 * degree
      BY <1>1, <1>2, <2>1 DEF Fits
    <3>2. raw % 16 = 8 * half
      BY <1>1
    <3> QED
      BY <1>1, <3>1, <3>2 DEF ClearLow, AsWord
  <2>2. CASE degree < 0
    <3>1. raw % 65536 = raw + 65536 /\ (16 * degree) % 65536 = 16 * degree + 65536
      BY <1>1, <1>2, <2>2 DEF Fits
    <3>2. (raw + 65536) % 16 = 8 * half
      BY <1>1
    <3> QED
      BY <1>1, <3>1, <3>2 DEF ClearLow, AsWord
  <2> QED
    BY <1>1, <2>1, <2>2
<1>5. AsWord(AsWord(16 * degree) + 12 - (16 * degree + 12 - temperature)) = AsWord(temperature)
  <2> HIDE DEF degree
  <2>1. CASE degree >= 0
    <3>1. (16 * degree) % 65536 = 16 * degree
      BY <1>1, <2>1 DEF Fits
    <3> QED
      BY <1>1, <3>1 DEF AsWord, Fits
  <2>2. CASE degree < 0
    <3>1. (16 * degree) % 65536 = 16 * degree + 65536
      BY <1>1, <2>2 DEF Fits
    <3>2. (temperature + 65536) % 65536 = temperature % 65536
      BY DEF Fits
    <3> QED
      BY <1>1, <3>1, <3>2 DEF AsWord, Fits
  <2> QED
    BY <1>1, <2>1, <2>2
<1>6. pad.word = AsWord(word) /\ pad.perDegree = 16 /\ pad.remain = 16 * degree + 12 - temperature
  BY DEF PadS20
<1>7. CelsiusS20(pad) = Int16(AsWord(ClearLow(AsWord(raw), 16) + 12 - pad.remain))
  BY <1>2, <1>3, <1>6 DEF CelsiusS20
<1>8. Int16(AsWord(temperature)) = temperature
  BY WordAndBack
<1>9. CelsiusS20(pad) = temperature
  BY <1>4, <1>5, <1>6, <1>7, <1>8
<1> QED
  BY <1>9 DEF getCelsius

---------------------------------------------------------------------------
Measurable == Temperatures \cup {PowerOn}

(* Only devices are found, and only sensors are measured.                  *)
SensorOK ==
  /\ bus \subseteq Devices /\ polled \subseteq Devices
  /\ stored \in [Devices -> Measurable]
  /\ call = "report" /\ code \in ValidCodes => code \in Devices
  /\ at # "search" => sensor \in Devices

(* What was read came from the sensor, or from a wire held low.            *)
Genuine ==
  at = "send" =>
    \/ meant = NoTemperature /\ m_data = EmptyPad
    \/ meant \in Measurable /\ m_data \in Pads(sensor, meant)

SensorInv == SensorOK /\ Genuine

(* What a sensor measures fits into the word it stores.                    *)
LEMMA MeasurableFits ==
  \A t \in Measurable : Fits(t) /\ Fits(t + 4) /\ t # NoTemperature
BY SensorAssumption DEF Measurable, Fits, PowerOn

(* A scratchpad read from a sensor means what it stored, rounded down.     *)
LEMMA PadsMean ==
  ASSUME NEW d \in Devices, NEW t \in Measurable, NEW pad \in Pads(d, t)
  PROVE  getCelsius(KindOf(FamilyCode[d]), pad)
           = t - (t % (IF KindOf(FamilyCode[d]) = DS18S20 THEN 1 ELSE Unit(Resolution[d])))
<1>1. Fits(t) /\ Fits(t + 4)
  BY MeasurableFits
<1>2. CASE KindOf(FamilyCode[d]) = DS18S20
  <2>1. PICK half \in {0, 1} : pad = PadS20(t, half)
    BY <1>2 DEF Pads
  <2>2. getCelsius(DS18S20, pad) = t
    BY <1>1, <2>1, CelsiusOfS20
  <2>3. t % 1 = 0
    BY <1>1 DEF Fits
  <2> QED
    BY <1>1, <1>2, <2>2, <2>3 DEF Fits
<1>3. CASE KindOf(FamilyCode[d]) # DS18S20
  <2>1. Resolution[d] \in 9 .. 12 /\ Unit(Resolution[d]) \in {1, 2, 4, 8}
    BY SensorAssumption, UnitOf
  <2>2. PICK noise \in {0, Unit(Resolution[d]) - 1} : pad = PadB20(t, Resolution[d], noise)
    BY <1>3 DEF Pads
  <2>3. noise \in 0 .. Unit(Resolution[d]) - 1
    BY <2>1, <2>2
  <2>4. getCelsius(DS18B20, pad) = ClearLow(t, Unit(Resolution[d]))
    BY <1>1, <2>1, <2>2, <2>3, CelsiusOfB20
  <2>5. getCelsius(KindOf(FamilyCode[d]), pad) = getCelsius(DS18B20, pad)
    BY <1>3 DEF getCelsius, DS18S20, DS18B20
  <2> QED
    BY <1>3, <2>4, <2>5 DEF ClearLow
<1> QED
  BY <1>2, <1>3

(* An empty scratchpad means zero.                                         *)
LEMMA ZerosMean == \A kind : getCelsius(kind, EmptyPad) = 0
<1>1. Int16(0) = 0 /\ AsWord(0) = 0 /\ 8 * 0 = 0
  BY DEF Int16, AsWord
<1>2. CelsiusS20(EmptyPad) = 0
  BY <1>1 DEF CelsiusS20, EmptyPad
<1>3. CelsiusB20(EmptyPad) = 0
  <2>1. ClearLow(0, 8) = 0
    BY DEF ClearLow
  <2> QED
    BY <1>1, <2>1 DEF CelsiusB20, EmptyPad, Unit
<1> QED
  BY <1>2, <1>3 DEF getCelsius

(* What is sent is what the device that it is sent for stored.             *)
LEMMA GenuineIsTrue == SensorInv => ReportsTruth
<1> SUFFICES ASSUME SensorInv, at = "send" PROVE ReportsTruth
  BY DEF ReportsTruth
<1>1. sensor \in Devices
  BY DEF SensorInv, SensorOK
<1>2. CASE meant = NoTemperature /\ m_data = EmptyPad
  BY <1>2, ZerosMean DEF ReportsTruth
<1>3. CASE meant \in Measurable /\ m_data \in Pads(sensor, meant)
  <2>1. meant # NoTemperature
    BY <1>3, MeasurableFits
  <2> QED
    BY <1>1, <1>3, <2>1, PadsMean DEF ReportsTruth
<1> QED
  BY <1>2, <1>3 DEF SensorInv, Genuine

---------------------------------------------------------------------------
(* A step that leaves the measurement alone.                               *)
LEMMA Continues ==
  ASSUME Continue, SensorOK, bus' \subseteq Devices, polled' \subseteq Devices,
         stored' \in [Devices -> Measurable],
         call' = "report" /\ code' \in ValidCodes => code' \in Devices
  PROVE  SensorInv'
BY DEF Continue, SensorInv, SensorOK, Genuine

(* What is stored stays measurable while time goes by.                     *)
LEMMA Elapses ==
  ASSUME NEW ms, Elapse(ms), stored \in [Devices -> Measurable]
  PROVE  stored' \in [Devices -> Measurable]
<1>1. PICK ticks \in {msecToSysTick(ms) - 1, msecToSysTick(ms)} :
        \E t \in [{d \in Devices : due[d] \in 1 .. ticks} -> Temperatures] :
          stored' = [d \in Devices |-> IF d \in {e \in Devices : due[e] \in 1 .. ticks}
                                      THEN t[d] ELSE stored[d]]
  BY DEF Elapse
<1> QED
  BY <1>1 DEF Measurable

(* The steps of the search.                                                *)
LEMMA SearchSteps ==
  ASSUME SensorInv, CallSearch \/ SearchFinds \/ SearchEnds \/ reset_search
  PROVE  SensorInv'
<1> USE DEF SensorInv, SensorOK, Genuine, object, devices
<1>1. CASE CallSearch
  BY <1>1, Elapses DEF CallSearch, Pause, Begin, NoMore
<1>2. CASE SearchFinds
  <2>1. PICK c \in Codes : Found(c)
    BY <1>2 DEF SearchFinds
  <2>2. UNCHANGED <<bus, polled>> /\ code' = c /\ (c \in ValidCodes => c \in polled)
    BY <2>1 DEF Found
  <2>3. UNCHANGED <<at, object, devices>>
    BY <1>2 DEF SearchFinds
  <2> QED
    BY <2>2, <2>3
<1>3. CASE SearchEnds
  BY <1>3 DEF SearchEnds, NoMore
<1>4. CASE reset_search
  BY <1>4 DEF reset_search, NewRound
<1> QED
  BY <1>1, <1>2, <1>3, <1>4

(* Taking a device that was found.                                         *)
LEMMA TakeStep == SensorInv /\ TakeDevice => SensorInv'
<1> SUFFICES ASSUME SensorInv, TakeDevice PROVE SensorInv'
  OBVIOUS
<1>1. call = "report" /\ call' = "idle" /\ UNCHANGED <<bus, polled, devices>>
  BY DEF TakeDevice, Take
<1>2. CASE IsSensor(code)
  BY <1>1, <1>2 DEF TakeDevice, IsSensor, SensorInv, SensorOK, Genuine, devices
<1>3. CASE ~IsSensor(code)
  BY <1>1, <1>3, Continues DEF TakeDevice, SensorInv, SensorOK, devices
<1> QED
  BY <1>2, <1>3

(* Measuring and sending.                                                  *)
LEMMA MeasureSteps == SensorInv /\ (measureTemperature \/ Send) => SensorInv'
<1> SUFFICES ASSUME SensorInv, measureTemperature \/ Send PROVE SensorInv'
  OBVIOUS
<1> USE DEF SensorInv, SensorOK, Genuine, enumeration, object, devices
<1>1. ASSUME NEW from \in {"reset1", "reset2"}, NEW to \in {"convert", "read"}, Reset(from, to)
      PROVE  SensorInv'
  <2>1. CASE Continue
    BY <1>1, <2>1, Continues DEF Reset
  <2>2. CASE at' = to /\ UNCHANGED sensor
    BY <1>1, <2>2 DEF Reset
  <2> QED
    BY <1>1, <2>1, <2>2 DEF Reset
<1>2. CASE StartConversion
  BY <1>2 DEF StartConversion
<1>3. CASE Delay
  BY <1>3, Elapses DEF Delay
<1>4. CASE ReadScratchpad
  <2>1. at = "read" /\ UNCHANGED <<enumeration, devices>> /\ sensor \in Devices
    BY <1>4 DEF ReadScratchpad
  <2>2. CASE ReadZeros
    BY <2>1, <2>2 DEF ReadZeros
  <2>3. CASE ReadBad
    BY <2>1, <2>3, Continues DEF ReadBad
  <2>4. ASSUME NEW pad \in Pads(sensor, stored[sensor]), ReadGood(pad)
        PROVE  SensorInv'
    BY <2>1, <2>4 DEF ReadGood
  <2> QED
    BY <1>4, <2>2, <2>3, <2>4 DEF ReadScratchpad
<1>5. CASE Send
  BY <1>5, Continues DEF Send
<1> QED
  BY <1>1, <1>2, <1>3, <1>4, <1>5 DEF measureTemperature

(* Devices come and go, and bits are misread.                              *)
LEMMA DisturbStep == SensorInv /\ Disturb => SensorInv'
<1> SUFFICES ASSUME SensorInv, Disturb PROVE SensorInv'
  OBVIOUS
<1> USE DEF SensorInv, SensorOK, Genuine, object, devices
<1>1. CASE Plugged /\ UNCHANGED <<at, object, devices>>
  BY <1>1 DEF Plugged
<1>2. CASE Unplugged
  <2>1. /\ bus' \subseteq Devices /\ UNCHANGED <<call, code, polled>>
        /\ UNCHANGED <<at, sensor, m_data, meant>>
        /\ stored' = [d \in Devices |-> IF d \in bus' THEN stored[d] ELSE PowerOn]
    BY <1>2 DEF Disturb, Unplugged, Plugged, Misread, Calmed
  <2> QED
    BY <2>1 DEF Measurable
<1>3. CASE (Misread \/ Calmed) /\ UNCHANGED <<at, object, devices>>
  BY <1>3 DEF Misread, Calmed
<1> QED
  BY <1>1, <1>2, <1>3 DEF Disturb

(* Only devices are found and measured, in every state.                    *)
LEMMA SensorAlways == SensorSpec => []SensorInv
<1>1. SensorInit => SensorInv
  BY SensorAssumption
     DEF SensorInit, EnumerationInit, SensorInv, SensorOK, Genuine, Measurable
<1>2. SensorInv /\ [SensorNext]_vars => SensorInv'
  <2> SUFFICES ASSUME SensorInv, [SensorNext]_vars PROVE SensorInv'
    OBVIOUS
  <2>1. CASE UNCHANGED vars
    BY <2>1 DEF vars, enumeration, object, devices, SensorInv, SensorOK, Genuine
  <2> QED
    BY <2>1, SearchSteps, TakeStep, MeasureSteps, DisturbStep DEF SensorNext, MainLoop
<1> QED
  BY <1>1, <1>2, PTL DEF SensorSpec

(* What is sent is the temperature that was on the scratchpad of the       *)
(* sensor whose id is sent, rounded down to its resolution, or 0 degrees   *)
(* if the wire was held low while it was read (TemperatureSensor.cpp       *)
(* 46-92, main.cpp 138-156): for any devices, times and temperatures.      *)
THEOREM SensorIsTruthful == SensorSpec => []ReportsTruth
  BY SensorAlways, GenuineIsTrue, PTL

(* What the sensor's module adds to Enumeration restricts it and never     *)
(* goes beyond it: each step of the main loop or of the bus is one that    *)
(* Enumeration allows, or leaves the enumeration as it is.  So what is     *)
(* proved of the sensors rests on the promise that the search was proved   *)
(* to keep (SearchImplementsEnumeration), and on no other (main.cpp        *)
(* 112-127).                                                               *)
THEOREM SensorKeepsPromise == SensorSpec => EnumerationSpec
<1>1. SensorInit => EnumerationInit
  BY DEF SensorInit
<1>2. [SensorNext]_vars => [EnumerationNext]_enumeration
  <2> SUFFICES ASSUME SensorNext PROVE EnumerationNext \/ UNCHANGED enumeration
    BY DEF vars
  <2>1. CASE CallSearch \/ SearchFinds \/ SearchEnds \/ reset_search \/ TakeDevice
    BY <2>1 DEF CallSearch, SearchFinds, SearchEnds, reset_search, TakeDevice, EnumerationNext
  <2>2. CASE measureTemperature \/ Send
    BY <2>2 DEF measureTemperature, Reset, StartConversion, Delay, ReadScratchpad, Send
  <2>3. CASE Disturb
    BY <2>3 DEF Disturb, EnumerationNext
  <2> QED
    BY <2>1, <2>2, <2>3 DEF SensorNext, MainLoop
<1> QED
  BY <1>1, <1>2, PTL DEF SensorSpec, EnumerationSpec

---------------------------------------------------------------------------
(* A sensor is left alone until it is done.                                 *)

(* The ticks that pass for sure in the pause at the head of the loop.       *)
PauseTicks == msecToSysTick(500) - 1

(* No conversion takes longer than two such pauses.                         *)
Cools == \A ticks \in Conversions : ticks <= 2 * PauseTicks

(* The ticks that a sensor may still need: two pauses where it was just     *)
(* started; one once a call of search has been paused for, or once the      *)
(* round has not come to it yet; none if both.                              *)
Due(d) ==
  /\ due[d] <= 2 * PauseTicks
  /\ call # "idle" => due[d] <= PauseTicks
  /\ round.whole /\ d \notin round.seen => due[d] <= PauseTicks
  /\ round.whole /\ d \notin round.seen /\ call # "idle" => due[d] = 0

CoolInv ==
  /\ due \in [Devices -> Nat]
  /\ heard \subseteq bus /\ \A d \in Devices \ bus : due[d] = 0
  /\ \A d \in Devices : Due(d)
  /\ call # "idle" => at = "search"
  /\ call = "report" /\ round.whole => code \notin round.seen
  /\ at # "search" /\ round.whole => sensor \in round.seen
  /\ at \in {"reset1", "convert"} /\ round.whole => due[sensor] = 0

(* A pause of 10 ms is a number of ticks, and one of 500 ms a larger one.   *)
LEMMA Ticks ==
  /\ PauseTicks \in Nat /\ PauseTicks >= 1
  /\ msecToSysTick(10) - 1 \in Nat
<1>1. PortTick \in 1 .. 10
  BY SensorAssumption
<1>2. 10 \div PortTick \in Nat /\ 10 \div PortTick >= 1
  BY <1>1
<1>3. 500 \div PortTick \in Nat /\ 500 \div PortTick >= 2
  BY <1>1
<1> QED
  BY <1>2, <1>3 DEF PauseTicks, msecToSysTick

(* In a pause of at least so many ticks a sensor gets that much closer.     *)
LEMMA Cooling ==
  ASSUME NEW ms, NEW least \in Nat, msecToSysTick(ms) \in Int, msecToSysTick(ms) - 1 >= least,
         due \in [Devices -> Nat], Elapse(ms)
  PROVE  /\ due' \in [Devices -> Nat]
         /\ \A d \in Devices : due'[d] = 0 \/ due'[d] + least <= due[d]
<1>1. PICK ticks \in {msecToSysTick(ms) - 1, msecToSysTick(ms)} :
        due' = [d \in Devices |-> IF due[d] <= ticks THEN 0 ELSE due[d] - ticks]
  BY DEF Elapse
<1>2. ticks \in Nat /\ ticks >= least
  BY <1>1
<1>3. \A d \in Devices : due'[d] = IF due[d] <= ticks THEN 0 ELSE due[d] - ticks
  BY <1>1
<1>4. \A d \in Devices : due'[d] \in Nat /\ (due'[d] = 0 \/ due'[d] + least <= due[d])
  BY <1>2, <1>3
<1> QED
  BY <1>1, <1>4

(* A call of search begins with a pause.                                    *)
LEMMA CallCools == SensorInv /\ CoolInv /\ CallSearch => CoolInv'
<1> SUFFICES ASSUME SensorInv, CoolInv, CallSearch PROVE CoolInv'
  OBVIOUS
<1>1. /\ at = "search" /\ call = "idle" /\ call' \in {"search", "none"}
      /\ UNCHANGED <<bus, code, at, sensor, heard>>
      /\ round' = round \/ ~round'.whole
  BY DEF CallSearch, Begin, NoMore, PerhapsDisturbed, Disturbed, object
<1>2. /\ due' \in [Devices -> Nat] /\ due \in [Devices -> Nat] /\ PauseTicks \in Nat
      /\ \A d \in Devices : due'[d] = 0 \/ due'[d] + PauseTicks <= due[d]
  <2>1. Elapse(500) /\ due \in [Devices -> Nat]
    BY DEF CallSearch, Pause, CoolInv
  <2>2. msecToSysTick(500) \in Int /\ msecToSysTick(500) - 1 >= PauseTicks
    BY SensorAssumption DEF PauseTicks, msecToSysTick
  <2> QED
    BY <2>1, <2>2, Ticks, Cooling
<1>3. ASSUME NEW d \in Devices PROVE Due(d)'
  <2>1. due[d] <= 2 * PauseTicks /\ (round.whole /\ d \notin round.seen => due[d] <= PauseTicks)
    BY DEF CoolInv, Due
  <2>2. due'[d] \in Nat /\ due[d] \in Nat /\ (due'[d] = 0 \/ due'[d] + PauseTicks <= due[d])
    BY <1>2
  <2>3. due'[d] <= PauseTicks /\ (due[d] <= PauseTicks => due'[d] = 0)
    BY <1>2, <2>1, <2>2
  <2>4. PauseTicks' = PauseTicks
    BY DEF PauseTicks, msecToSysTick
  <2> QED
    BY <1>1, <1>2, <2>1, <2>3, <2>4 DEF Due
<1>4. heard' \subseteq bus' /\ \A d \in Devices \ bus' : due'[d] = 0
  <2>1. ASSUME NEW d \in Devices \ bus PROVE due'[d] = 0
    <3>1. due[d] = 0 /\ due'[d] \in Nat /\ (due'[d] = 0 \/ due'[d] + PauseTicks <= due[d])
      BY <1>2 DEF CoolInv
    <3> QED
      BY <1>2, <3>1
  <2> QED
    BY <1>1, <2>1 DEF CoolInv
<1> QED
  BY <1>1, <1>2, <1>3, <1>4 DEF CoolInv

(* Search finds a device that the round has not come to.                    *)
LEMMA SearchCools ==
  SensorInv /\ CoolInv /\ (SearchFinds \/ SearchEnds \/ reset_search) => CoolInv'
<1> SUFFICES ASSUME SensorInv, CoolInv, SearchFinds \/ SearchEnds \/ reset_search PROVE CoolInv'
  OBVIOUS
<1>1. UNCHANGED <<bus, at, sensor, heard, due>>
  BY DEF SearchFinds, SearchEnds, reset_search, Found, NoMore, NewRound, object, devices
<1>2. PauseTicks' = PauseTicks
  BY DEF PauseTicks, msecToSysTick
<1>3. CASE SearchFinds
  <2>1. PICK c \in Codes : Found(c)
    BY <1>3 DEF SearchFinds
  <2>2. /\ call = "search" /\ call' = "report" /\ code' = c
        /\ round' = round \/ ~round'.whole
        /\ round'.whole => c \notin round.seen
    BY <2>1 DEF Found, PerhapsDisturbed, Disturbed
  <2> QED
    BY <1>1, <1>2, <2>2 DEF CoolInv, Due
<1>4. CASE SearchEnds
  <2>1. /\ call = "search" /\ call' = "none" /\ code' = code
        /\ round' = round \/ ~round'.whole
    BY <1>4 DEF SearchEnds, NoMore, PerhapsDisturbed, Disturbed
  <2> QED
    BY <1>1, <1>2, <2>1 DEF CoolInv, Due
<1>5. CASE reset_search
  <2>1. call = "none" /\ call' = "idle" /\ code' = code /\ round'.seen = {}
    BY <1>5 DEF reset_search, NewRound, Beginning
  <2> QED
    BY <1>1, <1>2, <2>1 DEF CoolInv, Due
<1> QED
  BY <1>3, <1>4, <1>5

(* The round has then come to it.                                           *)
LEMMA TakeCools == SensorInv /\ CoolInv /\ TakeDevice => CoolInv'
<1> SUFFICES ASSUME SensorInv, CoolInv, TakeDevice PROVE CoolInv'
  OBVIOUS
<1>1. /\ call = "report" /\ call' = "idle" /\ UNCHANGED <<bus, stored, due>> /\ at = "search"
      /\ round' = IF code \in ValidCodes /\ round.whole THEN Reported(code) ELSE round
  BY DEF TakeDevice, Take, devices, CoolInv
<1>2. PauseTicks' = PauseTicks
  BY DEF PauseTicks, msecToSysTick
<1>3. round'.whole => round.whole /\ round.seen \subseteq round'.seen
  BY <1>1 DEF Reported
<1>4. heard' \subseteq bus'
  BY <1>1 DEF TakeDevice, Continue, CoolInv
<1>5. \A d \in Devices : Due(d)'
  BY <1>1, <1>2, <1>3 DEF CoolInv, Due
<1>6. CASE IsSensor(code)
  <2>1. code \in ValidCodes /\ code \in Devices /\ at' = "reset1" /\ sensor' = code
    BY <1>1, <1>6 DEF IsSensor, TakeDevice, SensorInv, SensorOK
  <2>2. round'.whole => sensor' \in round'.seen /\ due[code] = 0
    BY <1>1, <1>3, <2>1 DEF Reported, CoolInv, Due
  <2> QED
    BY <1>1, <1>4, <1>5, <2>1, <2>2 DEF CoolInv
<1>7. CASE ~IsSensor(code)
  BY <1>1, <1>4, <1>5, <1>7 DEF TakeDevice, Continue, CoolInv
<1> QED
  BY <1>6, <1>7

(* Only the sensor that is measured is started.                             *)
LEMMA MeasureCools ==
  Cools /\ SensorInv /\ CoolInv /\ (measureTemperature \/ Send) => CoolInv'
<1> SUFFICES ASSUME Cools, SensorInv, CoolInv, measureTemperature \/ Send PROVE CoolInv'
  OBVIOUS
<1>1. PauseTicks' = PauseTicks
  BY DEF PauseTicks, msecToSysTick
<1>2. at # "search" /\ call = "idle" /\ UNCHANGED <<bus, call, code, round>> /\ sensor \in Devices
  BY DEF measureTemperature, Reset, StartConversion, Delay, ReadScratchpad, Send, enumeration,
         CoolInv, SensorInv, SensorOK
<1>3. ASSUME Continue, due' = due PROVE CoolInv'
  BY <1>1, <1>2, <1>3 DEF Continue, CoolInv, Due
<1>4. ASSUME at' # "search", UNCHANGED <<sensor, due>>, heard' = heard \/ heard' = bus,
             at' = "convert" => at = "reset1", at' # "reset1"
      PROVE  CoolInv'
  BY <1>1, <1>2, <1>4 DEF CoolInv, Due
<1>5. ASSUME NEW from, NEW to, <<from, to>> \in {<<"reset1", "convert">>, <<"reset2", "read">>},
             Reset(from, to)
      PROVE  CoolInv'
  BY <1>3, <1>4, <1>5 DEF Reset, devices
<1>6. CASE StartConversion
  <2>1. at = "convert" /\ at' = "delay" /\ UNCHANGED <<sensor, heard>>
    BY <1>6 DEF StartConversion, object
  <2>2. CASE due' = due
    BY <1>4, <2>1, <2>2
  <2>3. ASSUME NEW ticks \in Conversions, due' = [due EXCEPT ![sensor] = ticks], sensor \in heard
        PROVE  CoolInv'
    <3>1. ticks \in Nat /\ ticks <= 2 * PauseTicks
      BY SensorAssumption DEF Cools
    <3>2. due' \in [Devices -> Nat] /\ due'[sensor] = ticks
          /\ \A d \in Devices : d # sensor => due'[d] = due[d]
      BY <1>2, <2>3, <3>1 DEF CoolInv
    <3>3. ASSUME NEW d \in Devices PROVE Due(d)'
      <4>1. CASE d = sensor
        BY <1>1, <1>2, <2>1, <3>1, <3>2, <4>1 DEF CoolInv, Due
      <4>2. CASE d # sensor
        BY <1>1, <1>2, <3>2, <4>2 DEF CoolInv, Due
      <4> QED
        BY <4>1, <4>2
    <3>4. \A d \in Devices \ bus' : due'[d] = 0
      BY <1>2, <2>3, <3>2 DEF CoolInv
    <3> QED
      BY <1>2, <2>1, <3>2, <3>3, <3>4 DEF CoolInv
  <2> QED
    BY <1>6, <2>2, <2>3 DEF StartConversion
<1>7. CASE Delay
  <2>1. at' = "reset2" /\ UNCHANGED <<sensor, heard>> /\ Elapse(10)
    BY <1>7 DEF Delay, object
  <2>2. due' \in [Devices -> Nat] /\ \A d \in Devices : due'[d] = 0 \/ due'[d] + 0 <= due[d]
    <3>1. msecToSysTick(10) \in Int /\ msecToSysTick(10) - 1 >= 0
      BY Ticks, SensorAssumption DEF msecToSysTick
    <3> QED
      BY <2>1, <3>1, Cooling DEF CoolInv
  <2>3. \A d \in Devices : due'[d] \in Nat /\ due[d] \in Nat /\ due'[d] <= due[d]
    BY <2>2 DEF CoolInv
  <2>4. ASSUME NEW d \in Devices PROVE Due(d)'
    <3>1. due'[d] \in Nat /\ due[d] \in Nat /\ due'[d] <= due[d] /\ PauseTicks \in Nat /\ Due(d)
      BY <2>3, Ticks DEF CoolInv
    <3> QED
      BY <1>1, <1>2, <3>1 DEF Due
  <2>5. \A d \in Devices \ bus : due'[d] = 0
    BY <2>3 DEF CoolInv
  <2> QED
    BY <1>2, <2>1, <2>2, <2>4, <2>5 DEF CoolInv
<1>8. CASE ReadScratchpad
  <2>1. due' = due /\ at = "read"
    BY <1>8 DEF ReadScratchpad, devices
  <2>2. CASE ReadBad
    BY <1>3, <2>1, <2>2 DEF ReadBad
  <2>3. CASE at' = "send" /\ UNCHANGED <<sensor, heard>>
    BY <1>4, <2>1, <2>3
  <2> QED
    BY <1>8, <2>2, <2>3 DEF ReadScratchpad, ReadZeros, ReadGood
<1>9. CASE Send
  BY <1>3, <1>9 DEF Send, devices
<1> QED
  BY <1>5, <1>6, <1>7, <1>8, <1>9 DEF measureTemperature

(* A device that is plugged in is not converting.                           *)
LEMMA DisturbCools == SensorInv /\ CoolInv /\ Disturb => CoolInv'
<1> SUFFICES ASSUME SensorInv, CoolInv, Disturb PROVE CoolInv'
  OBVIOUS
<1>1. PauseTicks' = PauseTicks /\ PauseTicks \in Nat
  BY Ticks DEF PauseTicks, msecToSysTick
<1>2. CASE Plugged /\ UNCHANGED <<at, object, devices>>
  BY <1>1, <1>2 DEF Plugged, object, devices, CoolInv, Due
<1>3. CASE Unplugged /\ UNCHANGED at
  <2>1. /\ bus' \subseteq bus /\ ~round'.whole /\ call' = call /\ heard' = heard \cap bus'
        /\ due' = [d \in Devices |-> IF d \in bus' THEN due[d] ELSE 0]
    BY <1>3 DEF Disturb, Unplugged, Disturbed, Plugged, Misread, Calmed
  <2>2. due' \in [Devices -> Nat] /\ \A d \in Devices : due'[d] = 0 \/ (due'[d] = due[d] /\ d \in bus')
    BY <2>1 DEF CoolInv
  <2>3. \A d \in Devices : Due(d)'
    BY <1>1, <2>1, <2>2 DEF CoolInv, Due
  <2> QED
    BY <1>3, <2>1, <2>2, <2>3 DEF CoolInv
<1>4. CASE (Misread \/ Calmed) /\ UNCHANGED <<at, object, devices>>
  <2>1. UNCHANGED <<bus, call, code, at, sensor, heard, due>> /\ (round' = round \/ ~round'.whole)
    BY <1>4 DEF Misread, Calmed, PerhapsDisturbed, Disturbed, object, devices
  <2> QED
    BY <1>1, <2>1 DEF CoolInv, Due
<1> QED
  BY <1>2, <1>3, <1>4 DEF Disturb

(* While nothing disturbs the round, no sensor is told to convert before it *)
(* is done with the last time (main.cpp 113, TemperatureSensor.cpp 40-42),  *)
(* whatever else is on the bus, if no conversion takes longer than two      *)
(* pauses of the main loop, a tick less each: 980 ms.                       *)
THEOREM SensorsAreLeftAlone == Cools /\ SensorSpec => []NeverBusy
<1> SUFFICES ASSUME Cools PROVE SensorSpec => []NeverBusy
  OBVIOUS
<1>1. SensorInit => CoolInv
  <2> SUFFICES ASSUME SensorInit PROVE CoolInv
    OBVIOUS
  <2>1. due \in [Devices -> Nat] /\ (\A d \in Devices : due[d] = 0) /\ heard = {} /\ at = "search"
        /\ call = "idle"
    BY DEF SensorInit, EnumerationInit
  <2> QED
    BY <2>1, Ticks DEF CoolInv, Due
<1>2. SensorInv /\ CoolInv /\ [SensorNext]_vars => CoolInv'
  <2> SUFFICES ASSUME SensorInv, CoolInv, [SensorNext]_vars PROVE CoolInv'
    OBVIOUS
  <2>1. CASE UNCHANGED vars
    BY <2>1 DEF vars, enumeration, object, devices, CoolInv, Due, PauseTicks, msecToSysTick
  <2> QED
    BY <2>1, CallCools, SearchCools, TakeCools, MeasureCools, DisturbCools
       DEF SensorNext, MainLoop
<1>3. CoolInv => NeverBusy
  BY DEF CoolInv, NeverBusy
<1> QED
  BY <1>1, <1>2, <1>3, SensorAlways, PTL DEF SensorSpec

---------------------------------------------------------------------------
(* Bytes cross the wire, for all times at which a device looks at it or    *)
(* lets it go, and however late the slots are.                             *)

(* The powers that the bits of a byte are worth.                           *)
LEMMA Powers ==
  /\ 2 ^ 0 = 1 /\ 2 ^ 1 = 2 /\ 2 ^ 2 = 4 /\ 2 ^ 3 = 8 /\ 2 ^ 4 = 16
  /\ 2 ^ 5 = 32 /\ 2 ^ 6 = 64 /\ 2 ^ 7 = 128 /\ 2 ^ 8 = 256
OBVIOUS

(* A bit is 0 or 1.                                                        *)
LEMMA BitIsBinary == \A n \in Nat, i \in 0 .. 7 : Bit(n, i) \in {0, 1}
<1> TAKE n \in Nat, i \in 0 .. 7
<1> DEFINE IsBit(k) == Bit(n, k) \in {0, 1}
<1>1. IsBit(0) /\ IsBit(1) /\ IsBit(2) /\ IsBit(3)
  BY Powers DEF Bit
<1>2. IsBit(4) /\ IsBit(5) /\ IsBit(6) /\ IsBit(7)
  BY Powers DEF Bit
<1>3. i \in {0, 1, 2, 3, 4, 5, 6, 7}
  OBVIOUS
<1> HIDE DEF IsBit
<1>4. IsBit(i)
  BY <1>1, <1>2, <1>3
<1> QED BY <1>4 DEF IsBit

(* A bit put in front of the bits below m leaves them as they are.         *)
InFront(n, m) ==
  /\ 2 ^ m \in Nat /\ n + 2 ^ m < 2 ^ (m + 1)
  /\ Bit(n, m) = 0 /\ Bit(n + 2 ^ m, m) = 1
  /\ \A i \in 0 .. m - 1 : Bit(n + 2 ^ m, i) = Bit(n, i)

LEMMA BitsStay == \A m \in 0 .. 7, n \in Nat : n < 2 ^ m => InFront(n, m)
<1> DEFINE Stay(m) == \A n \in Nat : n < 2 ^ m => InFront(n, m)
<1>0. Stay(0)
  BY Powers DEF InFront, Bit
<1>1. Stay(1)
  <2> TAKE n \in Nat
  <2> HAVE n < 2 ^ 1
  <2>0. n < 2
    BY Powers
  <2>1. n + 2 < 4 /\ (n \div 2) % 2 = 0 /\ ((n + 2) \div 2) % 2 = 1
    BY <2>0
  <2>2. ((n + 2) \div 1) % 2 = (n \div 1) % 2
    OBVIOUS
  <2> QED BY <2>1, <2>2, Powers DEF InFront, Bit
<1>2. Stay(2)
  <2> TAKE n \in Nat
  <2> HAVE n < 2 ^ 2
  <2>0. n < 4
    BY Powers
  <2>1. n + 4 < 8 /\ (n \div 4) % 2 = 0 /\ ((n + 4) \div 4) % 2 = 1
    BY <2>0
  <2>2. ((n + 4) \div 1) % 2 = (n \div 1) % 2
    OBVIOUS
  <2>3. ((n + 4) \div 2) % 2 = (n \div 2) % 2
    OBVIOUS
  <2> QED BY <2>1, <2>2, <2>3, Powers DEF InFront, Bit
<1>3. Stay(3)
  <2> TAKE n \in Nat
  <2> HAVE n < 2 ^ 3
  <2>0. n < 8
    BY Powers
  <2>1. n + 8 < 16 /\ (n \div 8) % 2 = 0 /\ ((n + 8) \div 8) % 2 = 1
    BY <2>0
  <2>2. ((n + 8) \div 1) % 2 = (n \div 1) % 2
    OBVIOUS
  <2>3. ((n + 8) \div 2) % 2 = (n \div 2) % 2
    OBVIOUS
  <2>4. ((n + 8) \div 4) % 2 = (n \div 4) % 2
    OBVIOUS
  <2> QED BY <2>1, <2>2, <2>3, <2>4, Powers DEF InFront, Bit
<1>4. Stay(4)
  <2> TAKE n \in Nat
  <2> HAVE n < 2 ^ 4
  <2>0. n < 16
    BY Powers
  <2>1. n + 16 < 32 /\ (n \div 16) % 2 = 0 /\ ((n + 16) \div 16) % 2 = 1
    BY <2>0
  <2>2. ((n + 16) \div 1) % 2 = (n \div 1) % 2
    OBVIOUS
  <2>3. ((n + 16) \div 2) % 2 = (n \div 2) % 2
    OBVIOUS
  <2>4. ((n + 16) \div 4) % 2 = (n \div 4) % 2
    OBVIOUS
  <2>5. ((n + 16) \div 8) % 2 = (n \div 8) % 2
    OBVIOUS
  <2> QED BY <2>1, <2>2, <2>3, <2>4, <2>5, Powers DEF InFront, Bit
<1>5. Stay(5)
  <2> TAKE n \in Nat
  <2> HAVE n < 2 ^ 5
  <2>0. n < 32
    BY Powers
  <2>1. n + 32 < 64 /\ (n \div 32) % 2 = 0 /\ ((n + 32) \div 32) % 2 = 1
    BY <2>0
  <2>2. ((n + 32) \div 1) % 2 = (n \div 1) % 2
    OBVIOUS
  <2>3. ((n + 32) \div 2) % 2 = (n \div 2) % 2
    OBVIOUS
  <2>4. ((n + 32) \div 4) % 2 = (n \div 4) % 2
    OBVIOUS
  <2>5. ((n + 32) \div 8) % 2 = (n \div 8) % 2
    OBVIOUS
  <2>6. ((n + 32) \div 16) % 2 = (n \div 16) % 2
    OBVIOUS
  <2> QED BY <2>1, <2>2, <2>3, <2>4, <2>5, <2>6, Powers DEF InFront, Bit
<1>6. Stay(6)
  <2> TAKE n \in Nat
  <2> HAVE n < 2 ^ 6
  <2>0. n < 64
    BY Powers
  <2>1. n + 64 < 128 /\ (n \div 64) % 2 = 0 /\ ((n + 64) \div 64) % 2 = 1
    BY <2>0
  <2>2. ((n + 64) \div 1) % 2 = (n \div 1) % 2
    OBVIOUS
  <2>3. ((n + 64) \div 2) % 2 = (n \div 2) % 2
    OBVIOUS
  <2>4. ((n + 64) \div 4) % 2 = (n \div 4) % 2
    OBVIOUS
  <2>5. ((n + 64) \div 8) % 2 = (n \div 8) % 2
    OBVIOUS
  <2>6. ((n + 64) \div 16) % 2 = (n \div 16) % 2
    OBVIOUS
  <2>7. ((n + 64) \div 32) % 2 = (n \div 32) % 2
    OBVIOUS
  <2> QED BY <2>1, <2>2, <2>3, <2>4, <2>5, <2>6, <2>7, Powers DEF InFront, Bit
<1>7. Stay(7)
  <2> TAKE n \in Nat
  <2> HAVE n < 2 ^ 7
  <2>0. n < 128
    BY Powers
  <2>1. n + 128 < 256 /\ (n \div 128) % 2 = 0 /\ ((n + 128) \div 128) % 2 = 1
    BY <2>0
  <2>2. ((n + 128) \div 1) % 2 = (n \div 1) % 2
    OBVIOUS
  <2>3. ((n + 128) \div 2) % 2 = (n \div 2) % 2
    OBVIOUS
  <2>4. ((n + 128) \div 4) % 2 = (n \div 4) % 2
    OBVIOUS
  <2>5. ((n + 128) \div 8) % 2 = (n \div 8) % 2
    OBVIOUS
  <2>6. ((n + 128) \div 16) % 2 = (n \div 16) % 2
    OBVIOUS
  <2>7. ((n + 128) \div 32) % 2 = (n \div 32) % 2
    OBVIOUS
  <2>8. ((n + 128) \div 64) % 2 = (n \div 64) % 2
    OBVIOUS
  <2> QED BY <2>1, <2>2, <2>3, <2>4, <2>5, <2>6, <2>7, <2>8, Powers DEF InFront, Bit
<1>8. \A m \in 0 .. 7 : Stay(m)
  <2> TAKE m \in 0 .. 7
  <2>1. m \in {0, 1, 2, 3, 4, 5, 6, 7}
    OBVIOUS
  <2> HIDE DEF Stay
  <2> QED BY <1>0, <1>1, <1>2, <1>3, <1>4, <1>5, <1>6, <1>7, <2>1
<1> QED BY <1>8

(* What the theorem needs: the program works on bytes, and a device looks  *)
(* at the wire before a 0 is over.                                         *)
SlotsFit ==
  /\ WordBits = 8
  /\ \A t \in Samples : t < LowUs(0)

SlotsSpec == SlotsInit /\ [][SlotsNext]_slotvars

(* The bits that have crossed are those of the byte, but for the late ones.*)
Sent(i) ==
  \/ received[i] = Bit(byte, i - 1)
  \/ received[i] = 0 /\ LateToSend(lates[i])

ReadAlike(i) ==
  \/ Bit(r, i) = Bit(byte, i)
  \/ Bit(r, i) = 1 /\ LateToRead(lates[i + 1])

SlotsInv ==
  /\ calls \in Seq({"write", "power", "depower", "read"})
  /\ byte \in Nat /\ mask \in 0 .. 8 /\ r \in Nat
  /\ received \in Seq({0, 1}) /\ lates \in Seq(Nat)
  /\ DOMAIN pin = {"mode", "value"}
  /\ Len(lates) = IF Calling({"write", "power", "read"}) THEN mask ELSE 0
  /\ Calling({"write", "power"}) =>
       Len(received) = mask /\ \A i \in 1 .. mask : Sent(i)
  /\ Calling({"read"}) =>
       /\ r < 2 ^ mask /\ \A i \in 0 .. mask - 1 : ReadAlike(i)
       /\ mask > 0 => pin.mode = INPUT

(* The next call begins with nothing sent and nothing received.            *)
LEMMA CallBegins ==
  ASSUME SlotsInv, calls # <<>>, NextCall(Tail(calls)), DOMAIN pin' = {"mode", "value"}
  PROVE  SlotsInv'
<1>1. calls' \in Seq({"write", "power", "depower", "read"})
  BY DEF SlotsInv, NextCall
<1>2. byte' \in Nat
  BY SlotsAssumption DEF NextCall
<1>3. r' < 2 ^ mask'
  BY Powers DEF NextCall
<1> QED BY <1>1, <1>2, <1>3 DEF SlotsInv, NextCall, Calling

(* A slot carries the bit it was meant to carry, or is late.               *)
LEMMA BitSent ==
  ASSUME SlotsFit, SlotsInv, write_bit
  PROVE  SlotsInv'
<1>1. mask \in 0 .. 7 /\ byte \in Nat /\ Calling({"write", "power"})
  BY DEF SlotsInv, SlotsFit, write_bit
<1>0. PICK n \in 0 .. 7 : n = mask
  BY <1>1
<1>2. PICK t \in Samples, late \in Late :
        /\ SlotIsLate(late)
        /\ received' = Append(received, IF LowUs(Bit(byte, mask)) + late <= t THEN 1 ELSE 0)
  BY DEF write_bit
<1>3. /\ t \in Nat /\ late \in Nat /\ t < LowUs(0)
      /\ LowUs(0) = 65 /\ LowUs(1) = 10
  BY SlotsAssumption DEF SlotsFit, LowUs
<1>4. ~Calling({"read"})' /\ Calling({"write", "power"})' /\ Len(lates) = mask
  BY <1>1 DEF write_bit, Calling, SlotsInv
<1>5. lates' = Append(lates, late) /\ lates' \in Seq(Nat) /\ Len(lates') = mask + 1
  BY <1>2, <1>3, <1>4 DEF SlotIsLate, SlotsInv
<1>6. received' \in Seq({0, 1}) /\ Len(received') = mask + 1 /\ Len(received) = mask
  BY <1>1, <1>2 DEF SlotsInv
<1>7. Sent(n + 1)'
  <2>1. lates'[n + 1] = late /\ byte' = byte
    BY <1>0, <1>4, <1>5 DEF write_bit, SlotsInv
  <2>2. received'[n + 1] = IF LowUs(Bit(byte, mask)) + late <= t THEN 1 ELSE 0
    BY <1>0, <1>2, <1>6 DEF SlotsInv
  <2>3. CASE Bit(byte, mask) = 0
    BY <2>1, <2>2, <2>3, <1>0, <1>1, <1>3 DEF Sent
  <2>4. CASE Bit(byte, mask) = 1
    <3>1. CASE LowUs(1) + late <= t
      BY <2>1, <2>2, <2>4, <3>1, <1>0, <1>1 DEF Sent
    <3>2. CASE ~(LowUs(1) + late <= t)
      <4>1. LateToSend(late)
        BY <3>2, <1>3 DEF LateToSend
      <4> QED BY <4>1, <2>1, <2>2, <2>4, <3>2, <1>0, <1>1 DEF Sent
    <3> QED BY <3>1, <3>2
  <2> QED BY <2>3, <2>4, <1>1, BitIsBinary
<1>8. \A i \in 1 .. n : Sent(i)'
  <2> TAKE i \in 1 .. n
  <2>1. Sent(i) /\ byte' = byte
    BY <1>0, <1>1 DEF SlotsInv, write_bit
  <2>2. received'[i] = received[i] /\ lates'[i] = lates[i]
    BY <1>0, <1>1, <1>2, <1>4, <1>5, <1>6, SMTT(20) DEF SlotsInv
  <2> QED BY <2>1, <2>2 DEF Sent
<1>9. \A i \in 1 .. mask' : Sent(i)'
  <2> TAKE i \in 1 .. mask'
  <2>1. i = n + 1 \/ i \in 1 .. n
    BY <1>0, <1>1 DEF write_bit
  <2> QED BY <2>1, <1>7, <1>8
<1>10. /\ calls' = calls /\ byte' = byte /\ mask' = mask + 1 /\ r' = r
       /\ pin' = [mode |-> OUTPUT, value |-> TRUE]
  BY DEF write_bit
<1>11. Len(lates') = IF Calling({"write", "power", "read"})' THEN mask' ELSE 0
  BY <1>1, <1>5, <1>10 DEF Calling
<1> QED BY <1>1, <1>4, <1>5, <1>6, <1>9, <1>10, <1>11 DEF SlotsInv

(* The other way: the next bit is put in its place.                        *)
LEMMA BitRead ==
  ASSUME SlotsFit, SlotsInv, read_bit
  PROVE  SlotsInv'
<1>1. mask \in 0 .. 7 /\ Calling({"read"}) /\ byte \in Nat /\ r \in Nat /\ r < 2 ^ mask
  BY DEF SlotsInv, SlotsFit, read_bit
<1>0. PICK n \in 0 .. 7 : n = mask
  BY <1>1
<1>2. PICK t \in Holds, late \in Late :
        SlotIsLate(late) /\ r' = r + Level(t, late) * 2 ^ mask
  BY DEF read_bit
<1>3. t \in Nat /\ late \in Nat /\ SampleUs \in Nat /\ Level(t, late) \in {0, 1}
  BY SlotsAssumption DEF SampleUs, Level
<1>4. /\ calls' = calls /\ byte' = byte /\ mask' = mask + 1 /\ received' = received
      /\ pin' = [mode |-> INPUT, value |-> FALSE]
  BY DEF read_bit
<1>5. Calling({"read"})' /\ ~Calling({"write", "power"})' /\ Len(lates) = mask
  BY <1>1, <1>4 DEF Calling, SlotsInv
<1>6. lates' = Append(lates, late) /\ lates' \in Seq(Nat) /\ Len(lates') = mask + 1
  BY <1>2, <1>3, <1>5 DEF SlotIsLate, SlotsInv
<1>7. InFront(r, mask) /\ 2 ^ mask \in Nat
  BY <1>1, BitsStay DEF InFront
<1>8. r' = IF Level(t, late) = 1 THEN r + 2 ^ mask ELSE r
  BY <1>2, <1>3, <1>7, <1>1
<1>9. r' \in Nat /\ r' < 2 ^ mask' /\ Bit(r', mask) = Level(t, late)
  BY <1>1, <1>3, <1>4, <1>7, <1>8 DEF InFront
<1>10. \A i \in 0 .. mask - 1 : Bit(r', i) = Bit(r, i)
  BY <1>7, <1>8 DEF InFront
<1>11. ReadAlike(n)'
  <2>1. lates'[n + 1] = late
    BY <1>0, <1>5, <1>6 DEF SlotsInv
  <2>2. CASE Level(t, late) = Bit(byte, mask)
    BY <2>2, <1>0, <1>4, <1>9 DEF ReadAlike
  <2>3. CASE Level(t, late) # Bit(byte, mask)
    <3>1. Bit(byte, mask) \in {0, 1}
      BY <1>1, BitIsBinary
    <3>2. Level(t, late) = 1 /\ SampleUs + late >= t
      BY <2>3, <3>1, <1>3 DEF Level
    <3>3. LateToRead(late)
      BY <3>2 DEF LateToRead
    <3> QED BY <3>2, <3>3, <2>1, <1>0, <1>9 DEF ReadAlike
  <2> QED BY <2>2, <2>3
<1>12. \A i \in 0 .. n - 1 : ReadAlike(i)'
  <2> TAKE i \in 0 .. n - 1
  <2>1. ReadAlike(i)
    BY <1>0, <1>1 DEF SlotsInv
  <2>2. lates'[i + 1] = lates[i + 1]
    BY <1>0, <1>1, <1>3, <1>5, <1>6, SMTT(20) DEF SlotsInv
  <2> QED BY <2>1, <2>2, <1>0, <1>4, <1>10 DEF ReadAlike
<1>13. \A i \in 0 .. mask' - 1 : ReadAlike(i)'
  <2> TAKE i \in 0 .. mask' - 1
  <2>1. i = n \/ i \in 0 .. n - 1
    BY <1>0, <1>1, <1>4
  <2> QED BY <2>1, <1>11, <1>12
<1>14. Len(lates') = IF Calling({"write", "power", "read"})' THEN mask' ELSE 0
  BY <1>1, <1>4, <1>6 DEF Calling
<1> QED BY <1>1, <1>4, <1>5, <1>6, <1>9, <1>13, <1>14 DEF SlotsInv

(* A byte arrives as it was sent, in either direction, whichever it is and *)
(* however often, but for the bits whose slots are too late (write and     *)
(* read, onewire.cpp 79-166).                                              *)
THEOREM BytesArrive == SlotsFit /\ SlotsSpec => []BytesCross
<1> SUFFICES ASSUME SlotsFit PROVE SlotsSpec => []BytesCross
  OBVIOUS
<1>1. SlotsInit => SlotsInv
  <2> SUFFICES ASSUME SlotsInit PROVE SlotsInv
    OBVIOUS
  <2>1. byte \in Nat
    BY SlotsAssumption DEF SlotsInit
  <2>2. r < 2 ^ mask
    BY Powers DEF SlotsInit
  <2> QED BY <2>1, <2>2, SlotsAssumption DEF SlotsInit, SlotsInv
<1>2. SlotsInv /\ [SlotsNext]_slotvars => SlotsInv'
  <2> SUFFICES ASSUME SlotsInv, [SlotsNext]_slotvars PROVE SlotsInv'
    OBVIOUS
  <2>1. CASE write_bit
    BY <2>1, BitSent
  <2>2. CASE write
    BY <2>2, CallBegins DEF write, Calling, SlotsInv
  <2>3. CASE depower
    BY <2>3, CallBegins DEF depower, Calling, SlotsInv
  <2>4. CASE read_bit
    BY <2>4, BitRead
  <2>5. CASE read
    BY <2>5, CallBegins DEF read, Calling, SlotsInv
  <2>6. CASE UNCHANGED slotvars
    BY <2>6 DEF slotvars, SlotsInv, Calling, Sent, ReadAlike
  <2> QED BY <2>1, <2>2, <2>3, <2>4, <2>5, <2>6 DEF SlotsNext
<1>3. SlotsInv => BytesCross
  <2> SUFFICES ASSUME SlotsInv PROVE BytesCross
    OBVIOUS
  <2>1. mask = WordBits /\ Calling({"write", "power"}) => \A i \in 1 .. WordBits : Sent(i)
    BY DEF SlotsInv
  <2>2. mask = WordBits /\ Calling({"read"}) =>
          r < 2 ^ WordBits /\ \A i \in 1 .. WordBits : ReadAlike(i - 1)
    BY DEF SlotsInv, SlotsFit
  <2>3. \A i \in 1 .. WordBits : (i - 1) + 1 = i
    OBVIOUS
  <2> QED BY <2>1, <2>2, <2>3 DEF SlotsInv, BytesCross, Sent, ReadAlike
<1> QED BY <1>1, <1>2, <1>3, PTL DEF SlotsSpec

---------------------------------------------------------------------------
(* The check sums.  What a wrong bit does to the program's check sum and   *)
(* to the device's register does not depend on the data: their difference  *)
(* is a register of its own, and goes on by itself (ShiftIsLinear).        *)

Register(type)  == [1 .. Width(type) -> Binary]
Zeros(type)     == [i \in 1 .. Width(type) |-> 0]
Single(type, j) == [i \in 1 .. Width(type) |-> IF i = j THEN 1 ELSE 0]

Difference(type, one, other) == [i \in 1 .. Width(type) |-> Xor(one[i], other[i])]

(* A register as a number, and what one place further makes of a number.   *)
Number8(p1, p2, p3, p4, p5, p6, p7, p8) ==
  p1 + 2 * p2 + 4 * p3 + 8 * p4 + 16 * p5 + 32 * p6 + 64 * p7 + 128 * p8

Number16(p1, p2, p3, p4, p5, p6, p7, p8, p9, p10, p11, p12, p13, p14, p15, p16) ==
  Number8(p1, p2, p3, p4, p5, p6, p7, p8) + 256 * Number8(p9, p10, p11, p12, p13, p14, p15, p16)

Next8(n) ==
  LET h == n \div 2
  IN  IF n % 2 = 0 THEN h ELSE h + 140 - 8 * ((h \div 4) % 4)

Next16(n) ==
  LET h == n \div 2
  IN  IF n % 2 = 0 THEN h ELSE h + 40961 - 2 * (h % 2) - 16384 * ((h \div 8192) % 2)

(* The difference that a wrong bit leaves, after 1, 2, ... 88 places.      *)
Orbit8 ==
  <<140, 70, 35, 157, 194, 97, 188, 94, 47, 155, 193, 236, 118, 59, 145, 196,
    98, 49, 148, 74, 37, 158, 79, 171, 217, 224, 112, 56, 28, 14, 7, 143,
    203, 233, 248, 124, 62, 31, 131, 205, 234, 117, 182, 91, 161, 220, 110, 55,
    151, 199, 239, 251, 241, 244, 122, 61, 146, 73, 168, 84, 42, 21, 134, 67,
    173, 218, 109, 186, 93, 162, 81, 164, 82, 41, 152, 76, 38, 19, 133, 206,
    103, 191, 211, 229, 254, 127, 179, 213>>

Orbit16 ==
  <<40961, 61441, 55297, 52225, 50689, 49921, 49537, 49345, 49249, 49201, 49177,
    49165, 49159, 49154, 24577, 36865, 59393, 54273, 51713, 50433, 49793, 49473,
    49313, 49233, 49193, 49173, 49163, 49156, 24578, 12289, 47105, 64513, 56833,
    52993, 51073, 50113, 49633, 49393, 49273, 49213, 49183, 49166, 24583, 36866,
    18433, 33793, 57857, 53505, 51329, 50241, 49697, 49425, 49289, 49221, 49187,
    49168, 24584, 12292, 6146, 3073, 42497, 62209, 55681, 52417, 50785, 49969,
    49561, 49357, 49255, 49202, 24601, 36877, 59399, 54274, 27137, 38145, 60033,
    54593, 51873, 50513, 49833, 49493, 49323, 49236, 24618, 12309, 47115, 64516>>

Number(type, g) ==
  IF type = "crc8" THEN Number8(g[1], g[2], g[3], g[4], g[5], g[6], g[7], g[8])
  ELSE Number16(g[1], g[2], g[3], g[4], g[5], g[6], g[7], g[8],
                g[9], g[10], g[11], g[12], g[13], g[14], g[15], g[16])
Orbit(type, k)  == IF type = "crc8" THEN Orbit8[k] ELSE Orbit16[k]

(* The difference d once n bits of the data have arrived: none before the  *)
(* first wrong bit, then that of one wrong bit, and after the second not   *)
(* none.                                                                   *)
Differs(type, n, d) ==
  /\ d \in Register(type)
  /\ (\A e \in errors : e > n) => d = Zeros(type)
  /\ \A e \in errors :
       e <= n /\ (\A f \in errors : f # e => f > n) => Number(type, d) = Orbit(type, n - e + 1)
  /\ \A e, f \in errors : e < f /\ f <= n => d # Zeros(type)

CrcOK ==
  /\ check \in {"crc8", "crc16"}
  /\ data \in Seq(Byte) /\ Len(data) <= LongestFrame
  /\ len \in 0 .. Len(data)
  /\ register \in Register(check) /\ crc \in Register(check)
  /\ \E i, j \in Places(check, data) : errors \in {{}, {i, j}}

CrcInv == CrcOK /\ Differs(check, Place(len, 0), Difference(check, crc, register))

---------------------------------------------------------------------------
(* A sum of two bits without a carry, whatever the order.                  *)
LEMMA XorOfBits ==
  ASSUME NEW p \in Binary, NEW q \in Binary
  PROVE  /\ Xor(p, q) \in Binary /\ Xor(p, q) = Xor(q, p)
         /\ Xor(p, p) = 0 /\ Xor(p, 0) = p /\ Xor(0, p) = p
         /\ Xor(p, q) = 0 <=> p = q
BY DEF Binary, Xor

(* Sums of bits swap their terms.                                          *)
LEMMA XorSwaps ==
  ASSUME NEW p \in Binary, NEW q \in Binary, NEW u \in Binary, NEW v \in Binary
  PROVE  Xor(Xor(p, q), Xor(u, v)) = Xor(Xor(p, u), Xor(q, v))
BY DEF Binary, Xor

(* Each bit of a register that went on by a place.                         *)
LEMMA ShiftIsRegister ==
  ASSUME NEW type, NEW reg \in Register(type), NEW bit \in Binary
  PROVE  /\ Shift(type, reg, bit) \in Register(type)
         /\ \A i \in 1 .. Width(type) :
              Shift(type, reg, bit)[i]
                = Xor(IF i < Width(type) THEN reg[i + 1] ELSE 0,
                      IF i \in Taps(type) THEN Xor(reg[1], bit) ELSE 0)
<1>1. Width(type) \in {8, 16}
  BY DEF Width
<1>2. \A i \in 1 .. Width(type) : reg[i] \in Binary
  BY DEF Register
<1>3. Xor(reg[1], bit) \in Binary
  BY <1>1, <1>2, XorOfBits
<1>4. \A i \in 1 .. Width(type) : i < Width(type) => reg[i + 1] \in Binary
  BY <1>1, <1>2
<1>5. \A i \in 1 .. Width(type) :
        Xor(IF i < Width(type) THEN reg[i + 1] ELSE 0,
            IF i \in Taps(type) THEN Xor(reg[1], bit) ELSE 0) \in Binary
  BY <1>3, <1>4 DEF Binary, Xor
<1> QED
  BY <1>5 DEF Register, Shift

(* The difference of two registers goes on like a register that is sent    *)
(* the difference of the bits.                                             *)
LEMMA ShiftIsLinear ==
  ASSUME NEW type, NEW one \in Register(type), NEW other \in Register(type),
         NEW bit \in Binary, NEW hit \in Binary
  PROVE  /\ Difference(type, one, other) \in Register(type)
         /\ Difference(type, Shift(type, one, Xor(bit, hit)), Shift(type, other, bit))
              = Shift(type, Difference(type, one, other), hit)
<1> DEFINE w == Width(type)
           d == Difference(type, one, other)
<1>1. w \in {8, 16}
  BY DEF Width
<1>2. \A i \in 1 .. w : one[i] \in Binary /\ other[i] \in Binary
  BY DEF Register
<1>3. d \in Register(type) /\ \A i \in 1 .. w : d[i] = Xor(one[i], other[i])
  BY <1>2, XorOfBits DEF Register, Difference
<1>4. Xor(bit, hit) \in Binary
  BY XorOfBits
<1>5. Xor(Xor(one[1], Xor(bit, hit)), Xor(other[1], bit)) = Xor(d[1], hit)
  BY <1>1, <1>2, <1>3 DEF Binary, Xor
<1>6. ASSUME NEW i \in 1 .. w
      PROVE  Xor(Shift(type, one, Xor(bit, hit))[i], Shift(type, other, bit)[i])
               = Shift(type, d, hit)[i]
  <2> DEFINE next(g) == IF i < w THEN g[i + 1] ELSE 0
             back(g, out) == IF i \in Taps(type) THEN Xor(g[1], out) ELSE 0
  <2>1. /\ Shift(type, one, Xor(bit, hit))[i] = Xor(next(one), back(one, Xor(bit, hit)))
        /\ Shift(type, other, bit)[i] = Xor(next(other), back(other, bit))
        /\ Shift(type, d, hit)[i] = Xor(next(d), back(d, hit))
    BY <1>3, <1>4, ShiftIsRegister
  <2>2. /\ next(one) \in Binary /\ next(other) \in Binary
        /\ next(d) = Xor(next(one), next(other))
    BY <1>1, <1>2, <1>3 DEF Binary, Xor
  <2>3. /\ back(one, Xor(bit, hit)) \in Binary /\ back(other, bit) \in Binary
        /\ back(d, hit) = Xor(back(one, Xor(bit, hit)), back(other, bit))
    BY <1>1, <1>2, <1>4, <1>5, XorOfBits DEF Binary, Xor
  <2> QED
    BY <2>1, <2>2, <2>3, XorSwaps
<1> QED
  BY <1>3, <1>6 DEF Difference, Shift

(* No difference is equality.                                              *)
LEMMA NoDifference ==
  ASSUME NEW type, NEW one \in Register(type), NEW other \in Register(type)
  PROVE  Difference(type, one, other) = Zeros(type) <=> one = other
<1>1. \A i \in 1 .. Width(type) : one[i] \in Binary /\ other[i] \in Binary
  BY DEF Register
<1>2. \A i \in 1 .. Width(type) : Xor(one[i], other[i]) = 0 <=> one[i] = other[i]
  BY <1>1, XorOfBits
<1>3. one = other <=> \A i \in 1 .. Width(type) : one[i] = other[i]
  <2>1. one = [i \in 1 .. Width(type) |-> one[i]] /\ other = [i \in 1 .. Width(type) |-> other[i]]
    BY DEF Register
  <2> QED
    BY <2>1
<1> QED
  BY <1>2, <1>3 DEF Difference, Zeros

(* Without a difference none appears.                                      *)
LEMMA ZerosStay ==
  ASSUME NEW type
  PROVE  Zeros(type) \in Register(type) /\ Shift(type, Zeros(type), 0) = Zeros(type)
BY DEF Zeros, Register, Width, Shift, Binary, Xor

(* A difference goes away only where a wrong bit meets a lowest bit alone. *)
LEMMA OnlyOneVanishes ==
  ASSUME NEW type, NEW d \in Register(type), NEW hit \in Binary,
         Shift(type, d, hit) = Zeros(type)
  PROVE  IF hit = 0 THEN d = Zeros(type) ELSE d = Single(type, 1)
<1> DEFINE w == Width(type)
<1>1. w \in {8, 16} /\ w \in Taps(type)
  BY DEF Width, Taps
<1>2. \A i \in 1 .. w : d[i] \in Binary
  BY DEF Register
<1>3. \A i \in 1 .. w :
        Xor(IF i < w THEN d[i + 1] ELSE 0, IF i \in Taps(type) THEN Xor(d[1], hit) ELSE 0) = 0
  <2>1. \A i \in 1 .. w : Shift(type, d, hit)[i] = 0
    BY DEF Zeros
  <2> QED
    BY <2>1, ShiftIsRegister
<1>4. Xor(0, Xor(d[1], hit)) = 0
  BY <1>1, <1>3
<1>5. d[1] = hit
  BY <1>1, <1>2, <1>4, XorOfBits
<1>6. Xor(d[1], hit) = 0
  BY <1>5, XorOfBits
<1>7. ASSUME NEW i \in 1 .. w, i > 1 PROVE d[i] = 0
  <2>1. i - 1 \in 1 .. w /\ i - 1 < w /\ (i - 1) + 1 = i
    BY <1>1, <1>7
  <2>2. Xor(d[i], IF i - 1 \in Taps(type) THEN Xor(d[1], hit) ELSE 0) = 0
    BY <1>3, <2>1
  <2> QED
    BY <1>2, <1>6, <2>2, XorOfBits
<1>8. \A i \in 1 .. w : d[i] = IF i = 1 THEN hit ELSE 0
  BY <1>1, <1>5, <1>7
<1> QED
  BY <1>8 DEF Register, Zeros, Single, Binary

(* One place further, as numbers.                                          *)
AreBits(p1, p2, p3, p4, p5, p6, p7, p8) ==
  /\ p1 \in Binary /\ p2 \in Binary /\ p3 \in Binary /\ p4 \in Binary
  /\ p5 \in Binary /\ p6 \in Binary /\ p7 \in Binary /\ p8 \in Binary

(* Number8 of a register that goes on by a place, without a data bit.      *)
LEMMA NextOfBits8 ==
  ASSUME NEW p1, NEW p2, NEW p3, NEW p4, NEW p5, NEW p6, NEW p7, NEW p8,
         AreBits(p1, p2, p3, p4, p5, p6, p7, p8)
  PROVE  Next8(Number8(p1, p2, p3, p4, p5, p6, p7, p8))
           = Number8(p2, p3, Xor(p4, p1), Xor(p5, p1), p6, p7, p8, p1)
<1>1. CASE p1 = 0
  BY <1>1 DEF AreBits, Binary, Xor, Next8, Number8
<1>2. CASE p1 = 1
  BY <1>2 DEF AreBits, Binary, Xor, Next8, Number8
<1> QED
  BY <1>1, <1>2 DEF AreBits, Binary

(* The same for Number16.                                                  *)
LEMMA NextOfBits16 ==
  ASSUME NEW p1, NEW p2, NEW p3, NEW p4, NEW p5, NEW p6, NEW p7, NEW p8,
         NEW p9, NEW p10, NEW p11, NEW p12, NEW p13, NEW p14, NEW p15, NEW p16,
         AreBits(p1, p2, p3, p4, p5, p6, p7, p8),
         AreBits(p9, p10, p11, p12, p13, p14, p15, p16)
  PROVE  Next16(Number16(p1, p2, p3, p4, p5, p6, p7, p8,
                         p9, p10, p11, p12, p13, p14, p15, p16))
           = Number16(Xor(p2, p1), p3, p4, p5, p6, p7, p8, p9,
                      p10, p11, p12, p13, p14, Xor(p15, p1), p16, p1)
<1> DEFINE low == p3 + 2 * p4 + 4 * p5 + 8 * p6 + 16 * p7 + 32 * p8 + 64 * p9
                  + 128 * p10 + 256 * p11 + 512 * p12 + 1024 * p13
           h   == p2 + 2 * low + 4096 * p14 + 8192 * p15 + 16384 * p16
           n   == Number16(p1, p2, p3, p4, p5, p6, p7, p8,
                           p9, p10, p11, p12, p13, p14, p15, p16)
           m   == Number16(Xor(p2, p1), p3, p4, p5, p6, p7, p8, p9,
                           p10, p11, p12, p13, p14, Xor(p15, p1), p16, p1)
<1>1. low \in 0 .. 2047
  <2> DEFINE first == p3 + 2 * p4 + 4 * p5 + 8 * p6
             next  == p7 + 2 * p8 + 4 * p9 + 8 * p10
             last  == p11 + 2 * p12 + 4 * p13
  <2>1. first \in 0 .. 15 /\ next \in 0 .. 15 /\ last \in 0 .. 7
    BY DEF AreBits, Binary
  <2>2. low = first + 16 * next + 256 * last
    BY DEF AreBits, Binary
  <2> HIDE DEF first, next, last, low
  <2> QED
    BY <2>1, <2>2
<1>2. n = p1 + 2 * p2 + 4 * low + 8192 * p14 + 16384 * p15 + 32768 * p16
  BY DEF AreBits, Binary, Number16, Number8
<1>3. m = Xor(p2, p1) + 2 * low + 4096 * p14 + 8192 * Xor(p15, p1) + 16384 * p16 + 32768 * p1
  BY DEF AreBits, Binary, Xor, Number16, Number8
<1> HIDE DEF low, n, m
<1>4. h % 2 = p2 /\ (h \div 8192) % 2 = p15
  BY <1>1 DEF AreBits, Binary
<1>5. n % 2 = p1 /\ n \div 2 = h
  BY <1>1, <1>2 DEF AreBits, Binary
<1>6. Next16(n) = IF p1 = 0 THEN h ELSE h + 40961 - 2 * p2 - 16384 * p15
  BY <1>4, <1>5 DEF Next16
<1>7. Next16(n) = m
  BY <1>1, <1>3, <1>6 DEF AreBits, Binary, Xor
<1> QED
  BY <1>7 DEF n, m

(* Both for the registers themselves.                                      *)
LEMMA NextPlace8 ==
  ASSUME NEW d \in Register("crc8")
  PROVE  Number("crc8", Shift("crc8", d, 0)) = Next8(Number("crc8", d))
<1> DEFINE g == Shift("crc8", d, 0)
<1>1. Width("crc8") = 8 /\ Taps("crc8") = {3, 4, 8}
  BY DEF Width, Taps
<1>2. \A i \in 1 .. 8 : d[i] \in Binary
  BY <1>1 DEF Register
<1>3. Xor(d[1], 0) = d[1]
  BY <1>2, XorOfBits
<1>4. \A i \in 1 .. 8 :
        g[i] = Xor(IF i < 8 THEN d[i + 1] ELSE 0, IF i \in {3, 4, 8} THEN d[1] ELSE 0)
  BY <1>1, <1>3, ShiftIsRegister DEF Binary
<1>5. /\ g[1] = d[2] /\ g[2] = d[3] /\ g[3] = Xor(d[4], d[1]) /\ g[4] = Xor(d[5], d[1])
      /\ g[5] = d[6] /\ g[6] = d[7] /\ g[7] = d[8] /\ g[8] = d[1]
  BY <1>2, <1>4, XorOfBits DEF Xor, Binary
<1> HIDE DEF g
<1>6. AreBits(d[1], d[2], d[3], d[4], d[5], d[6], d[7], d[8])
  BY <1>2 DEF AreBits
<1>7. Next8(Number8(d[1], d[2], d[3], d[4], d[5], d[6], d[7], d[8]))
        = Number8(d[2], d[3], Xor(d[4], d[1]), Xor(d[5], d[1]), d[6], d[7], d[8], d[1])
  BY <1>6, NextOfBits8
<1>8. Number8(g[1], g[2], g[3], g[4], g[5], g[6], g[7], g[8])
        = Next8(Number8(d[1], d[2], d[3], d[4], d[5], d[6], d[7], d[8]))
  BY <1>5, <1>7
<1> QED
  BY <1>8 DEF Number, g

(* And for 16 bits.                                                        *)
LEMMA NextPlace16 ==
  ASSUME NEW d \in Register("crc16")
  PROVE  Number("crc16", Shift("crc16", d, 0)) = Next16(Number("crc16", d))
<1> DEFINE g == Shift("crc16", d, 0)
<1>1. Width("crc16") = 16 /\ Taps("crc16") = {1, 14, 16}
  BY DEF Width, Taps
<1>2. \A i \in 1 .. 16 : d[i] \in Binary
  BY <1>1 DEF Register
<1>3. Xor(d[1], 0) = d[1]
  BY <1>2, XorOfBits
<1>4. \A i \in 1 .. 16 :
        g[i] = Xor(IF i < 16 THEN d[i + 1] ELSE 0, IF i \in {1, 14, 16} THEN d[1] ELSE 0)
  BY <1>1, <1>3, ShiftIsRegister DEF Binary
<1>5. \A i \in 2 .. 13 : g[i] = d[i + 1]
  BY <1>2, <1>4, XorOfBits
<1>6. g[1] = Xor(d[2], d[1]) /\ g[14] = Xor(d[15], d[1]) /\ g[15] = d[16] /\ g[16] = d[1]
  BY <1>2, <1>4, XorOfBits DEF Xor, Binary
<1>7. g[2] = d[3] /\ g[3] = d[4] /\ g[4] = d[5] /\ g[5] = d[6] /\ g[6] = d[7] /\ g[7] = d[8]
  BY <1>5
<1>8. /\ g[8] = d[9] /\ g[9] = d[10] /\ g[10] = d[11] /\ g[11] = d[12] /\ g[12] = d[13]
      /\ g[13] = d[14]
  BY <1>5
<1> HIDE DEF g
<1>9. /\ AreBits(d[1], d[2], d[3], d[4], d[5], d[6], d[7], d[8])
      /\ AreBits(d[9], d[10], d[11], d[12], d[13], d[14], d[15], d[16])
  BY <1>2 DEF AreBits
<1>10. Next16(Number16(d[1], d[2], d[3], d[4], d[5], d[6], d[7], d[8],
                       d[9], d[10], d[11], d[12], d[13], d[14], d[15], d[16]))
         = Number16(Xor(d[2], d[1]), d[3], d[4], d[5], d[6], d[7], d[8], d[9],
                    d[10], d[11], d[12], d[13], d[14], Xor(d[15], d[1]), d[16], d[1])
  BY <1>9, NextOfBits16
<1>11. Number16(g[1], g[2], g[3], g[4], g[5], g[6], g[7], g[8],
                g[9], g[10], g[11], g[12], g[13], g[14], g[15], g[16])
         = Next16(Number16(d[1], d[2], d[3], d[4], d[5], d[6], d[7], d[8],
                           d[9], d[10], d[11], d[12], d[13], d[14], d[15], d[16]))
  BY <1>6, <1>7, <1>8, <1>10
<1> QED
  BY <1>11 DEF Number, g

(* The numbers of one bit alone.                                           *)
PowersOf2 == {1, 2, 4, 8, 16, 32, 64, 128, 256, 512, 1024, 2048, 4096, 8192, 16384, 32768}

(* The tables are what they are said to be.                                *)
LEMMA OrbitsGoOn ==
  \A k \in 1 .. 87 : Orbit8[k + 1] = Next8(Orbit8[k]) /\ Orbit16[k + 1] = Next16(Orbit16[k])
<1>1. \A k \in 1 .. 87 : Orbit8[k + 1] = Next8(Orbit8[k])
  BY SMTT(60) DEF Orbit8, Next8
<1>2. \A k \in 1 .. 87 : Orbit16[k + 1] = Next16(Orbit16[k])
  BY SMTT(60) DEF Orbit16, Next16
<1> QED
  BY <1>1, <1>2

(* None of their differences is a bit alone, and none is zero.             *)
LEMMA OrbitsAreNotSingle ==
  \A k \in 1 .. 88 : Orbit8[k] \notin PowersOf2 \cup {0} /\ Orbit16[k] \notin PowersOf2 \cup {0}
<1>1. \A k \in 1 .. 88 : Orbit8[k] \notin PowersOf2 \cup {0}
  BY SMTT(60) DEF Orbit8, PowersOf2
<1>2. \A k \in 1 .. 88 : Orbit16[k] \notin PowersOf2 \cup {0}
  BY SMTT(60) DEF Orbit16, PowersOf2
<1> QED
  BY <1>1, <1>2

(* What a wrong bit leaves at once, and after each place more.             *)
LEMMA WrongBitLeaves ==
  ASSUME NEW type
  PROVE  Number(type, Shift(type, Zeros(type), 1)) = Orbit(type, 1)
<1>1. CASE type = "crc8"
  <2> DEFINE g == Shift("crc8", Zeros("crc8"), 1)
  <2>1. \A i \in 1 .. 8 : g[i] = IF i \in {3, 4, 8} THEN 1 ELSE 0
    BY DEF Shift, Zeros, Width, Taps, Xor
  <2>2. /\ g[1] = 0 /\ g[2] = 0 /\ g[3] = 1 /\ g[4] = 1
        /\ g[5] = 0 /\ g[6] = 0 /\ g[7] = 0 /\ g[8] = 1
    BY <2>1
  <2>3. Orbit8[1] = 140
    BY DEF Orbit8
  <2> HIDE DEF g
  <2>4. Number("crc8", g) = Number8(0, 0, 1, 1, 0, 0, 0, 1)
    BY <2>2 DEF Number
  <2> QED
    BY <1>1, <2>3, <2>4 DEF Number8, Orbit, g
<1>2. CASE type # "crc8"
  <2> DEFINE g == Shift(type, Zeros(type), 1)
  <2>1. \A i \in 1 .. 16 : g[i] = IF i \in {1, 14, 16} THEN 1 ELSE 0
    BY <1>2 DEF Shift, Zeros, Width, Taps, Xor
  <2>2. /\ g[1] = 1 /\ g[2] = 0 /\ g[3] = 0 /\ g[4] = 0
        /\ g[5] = 0 /\ g[6] = 0 /\ g[7] = 0 /\ g[8] = 0
    BY <2>1
  <2>3. /\ g[9] = 0 /\ g[10] = 0 /\ g[11] = 0 /\ g[12] = 0
        /\ g[13] = 0 /\ g[14] = 1 /\ g[15] = 0 /\ g[16] = 1
    BY <2>1
  <2>4. Orbit16[1] = 40961
    BY DEF Orbit16
  <2> HIDE DEF g
  <2>5. Number(type, g) = Number16(1, 0, 0, 0, 0, 0, 0, 0, 0, 0, 0, 0, 0, 1, 0, 1)
    BY <1>2, <2>2, <2>3 DEF Number
  <2> QED
    BY <1>2, <2>4, <2>5 DEF Number16, Number8, Orbit, g
<1> QED
  BY <1>1, <1>2

(* Each place more takes it to the next entry of the table.                *)
LEMMA WrongBitGoesOn ==
  ASSUME NEW type \in {"crc8", "crc16"}, NEW d \in Register(type), NEW k \in 1 .. 87,
         Number(type, d) = Orbit(type, k)
  PROVE  Number(type, Shift(type, d, 0)) = Orbit(type, k + 1)
<1>1. CASE type = "crc8"
  BY <1>1, NextPlace8, OrbitsGoOn DEF Orbit
<1>2. CASE type = "crc16"
  BY <1>2, NextPlace16, OrbitsGoOn DEF Orbit
<1> QED
  BY <1>1, <1>2

(* A bit alone is a power of two.                                          *)
LEMMA SingleIsPower ==
  ASSUME NEW type \in {"crc8", "crc16"}, NEW j \in 1 .. Width(type)
  PROVE  Number(type, Single(type, j)) \in PowersOf2
<1> DEFINE g == Single(type, j)
<1>1. CASE type = "crc8"
  <2>1. /\ j \in 1 .. 8 /\ \A i \in 1 .. 8 : g[i] = IF i = j THEN 1 ELSE 0
    BY <1>1 DEF Single, Width
  <2>2. Number(type, g) = Number8(g[1], g[2], g[3], g[4], g[5], g[6], g[7], g[8])
    BY <1>1 DEF Number
  <2> HIDE DEF g
  <2>3. /\ j = 1 => Number(type, g) = Number8(1, 0, 0, 0, 0, 0, 0, 0)
        /\ j = 2 => Number(type, g) = Number8(0, 1, 0, 0, 0, 0, 0, 0)
        /\ j = 3 => Number(type, g) = Number8(0, 0, 1, 0, 0, 0, 0, 0)
        /\ j = 4 => Number(type, g) = Number8(0, 0, 0, 1, 0, 0, 0, 0)
        /\ j = 5 => Number(type, g) = Number8(0, 0, 0, 0, 1, 0, 0, 0)
        /\ j = 6 => Number(type, g) = Number8(0, 0, 0, 0, 0, 1, 0, 0)
        /\ j = 7 => Number(type, g) = Number8(0, 0, 0, 0, 0, 0, 1, 0)
        /\ j = 8 => Number(type, g) = Number8(0, 0, 0, 0, 0, 0, 0, 1)
    BY <2>1, <2>2
  <2> QED
    BY <2>1, <2>3 DEF Number8, PowersOf2, g
<1>2. CASE type = "crc16"
  <2>1. /\ j \in 1 .. 16 /\ \A i \in 1 .. 16 : g[i] = IF i = j THEN 1 ELSE 0
    BY <1>2 DEF Single, Width
  <2>2. Number(type, g) = Number16(g[1], g[2], g[3], g[4], g[5], g[6], g[7], g[8],
                                   g[9], g[10], g[11], g[12], g[13], g[14], g[15], g[16])
    BY <1>2 DEF Number
  <2> HIDE DEF g
  <2>3. /\ j = 1 => Number(type, g) = Number16(1, 0, 0, 0, 0, 0, 0, 0, 0, 0, 0, 0, 0, 0, 0, 0)
        /\ j = 2 => Number(type, g) = Number16(0, 1, 0, 0, 0, 0, 0, 0, 0, 0, 0, 0, 0, 0, 0, 0)
        /\ j = 3 => Number(type, g) = Number16(0, 0, 1, 0, 0, 0, 0, 0, 0, 0, 0, 0, 0, 0, 0, 0)
        /\ j = 4 => Number(type, g) = Number16(0, 0, 0, 1, 0, 0, 0, 0, 0, 0, 0, 0, 0, 0, 0, 0)
        /\ j = 5 => Number(type, g) = Number16(0, 0, 0, 0, 1, 0, 0, 0, 0, 0, 0, 0, 0, 0, 0, 0)
        /\ j = 6 => Number(type, g) = Number16(0, 0, 0, 0, 0, 1, 0, 0, 0, 0, 0, 0, 0, 0, 0, 0)
        /\ j = 7 => Number(type, g) = Number16(0, 0, 0, 0, 0, 0, 1, 0, 0, 0, 0, 0, 0, 0, 0, 0)
        /\ j = 8 => Number(type, g) = Number16(0, 0, 0, 0, 0, 0, 0, 1, 0, 0, 0, 0, 0, 0, 0, 0)
    BY <2>1, <2>2
  <2>4. /\ j = 9 => Number(type, g) = Number16(0, 0, 0, 0, 0, 0, 0, 0, 1, 0, 0, 0, 0, 0, 0, 0)
        /\ j = 10 => Number(type, g) = Number16(0, 0, 0, 0, 0, 0, 0, 0, 0, 1, 0, 0, 0, 0, 0, 0)
        /\ j = 11 => Number(type, g) = Number16(0, 0, 0, 0, 0, 0, 0, 0, 0, 0, 1, 0, 0, 0, 0, 0)
        /\ j = 12 => Number(type, g) = Number16(0, 0, 0, 0, 0, 0, 0, 0, 0, 0, 0, 1, 0, 0, 0, 0)
        /\ j = 13 => Number(type, g) = Number16(0, 0, 0, 0, 0, 0, 0, 0, 0, 0, 0, 0, 1, 0, 0, 0)
        /\ j = 14 => Number(type, g) = Number16(0, 0, 0, 0, 0, 0, 0, 0, 0, 0, 0, 0, 0, 1, 0, 0)
        /\ j = 15 => Number(type, g) = Number16(0, 0, 0, 0, 0, 0, 0, 0, 0, 0, 0, 0, 0, 0, 1, 0)
        /\ j = 16 => Number(type, g) = Number16(0, 0, 0, 0, 0, 0, 0, 0, 0, 0, 0, 0, 0, 0, 0, 1)
    BY <2>1, <2>2
  <2> QED
    BY <2>1, <2>3, <2>4 DEF Number16, Number8, PowersOf2, g
<1> QED
  BY <1>1, <1>2

(* So one wrong bit leaves neither nothing nor a bit alone.                *)
LEMMA OneWrongBit ==
  ASSUME NEW type \in {"crc8", "crc16"}, NEW d \in Register(type), NEW k \in 1 .. 88,
         Number(type, d) = Orbit(type, k)
  PROVE  d # Zeros(type) /\ \A j \in 1 .. Width(type) : d # Single(type, j)
<1>1. Orbit(type, k) \notin PowersOf2 \cup {0}
  BY OrbitsAreNotSingle DEF Orbit
<1>2. Number(type, Zeros(type)) = 0
  BY DEF Number, Number8, Number16, Zeros, Width
<1> QED
  BY <1>1, <1>2, SingleIsPower

---------------------------------------------------------------------------
(* At most two bits of the frame are wrong.                                *)
TwoWrong == errors \in {{}} \cup {{i, j} : i, j \in Nat \ {0}}

(* Each bit of the data takes the difference on.                           *)
LEMMA NextDifference ==
  ASSUME TwoWrong, NEW type \in {"crc8", "crc16"}, NEW n \in 0 .. 87, NEW d, Differs(type, n, d)
  PROVE  Differs(type, n + 1, Shift(type, d, Hit(n + 1)))
<1> DEFINE hit == Hit(n + 1)
           g   == Shift(type, d, hit)
<1>1. d \in Register(type) /\ hit \in Binary /\ g \in Register(type)
  BY ShiftIsRegister DEF Differs, Hit, Binary
<1>2. \A e \in errors : e \in Nat /\ e >= 1
  BY DEF TwoWrong
<1>3. \A e, f, h \in errors : e = f \/ e = h \/ f = h
  BY DEF TwoWrong
<1>4. hit = IF n + 1 \in errors THEN 1 ELSE 0
  BY DEF Hit
<1>5. (\A e \in errors : e > n + 1) => g = Zeros(type)
  <2> SUFFICES ASSUME \A e \in errors : e > n + 1 PROVE g = Zeros(type)
    OBVIOUS
  <2>1. n + 1 \notin errors /\ \A e \in errors : e > n
    BY <1>2
  <2>2. hit = 0 /\ d = Zeros(type)
    BY <1>4, <2>1 DEF Differs
  <2> QED
    BY <2>2, ZerosStay
<1>6. ASSUME NEW e \in errors, e <= n + 1, \A f \in errors : f # e => f > n + 1
      PROVE  Number(type, g) = Orbit(type, (n + 1) - e + 1)
  <2>1. CASE e = n + 1
    <3>1. \A f \in errors : f > n
      BY <1>2, <1>6, <2>1
    <3>2. hit = 1 /\ d = Zeros(type)
      BY <1>4, <2>1, <3>1, <1>6 DEF Differs
    <3> QED
      BY <2>1, <3>2, WrongBitLeaves
  <2>2. CASE e <= n
    <3>1. n + 1 \notin errors /\ \A f \in errors : f # e => f > n
      BY <1>2, <1>6, <2>2
    <3>2. hit = 0 /\ Number(type, d) = Orbit(type, n - e + 1)
      BY <1>4, <1>6, <2>2, <3>1 DEF Differs
    <3>3. n - e + 1 \in 1 .. 87 /\ (n + 1) - e + 1 = (n - e + 1) + 1
      BY <1>2, <1>6, <2>2
    <3> QED
      BY <1>1, <3>2, <3>3, WrongBitGoesOn
  <2> QED
    BY <1>2, <1>6, <2>1, <2>2
<1>7. ASSUME NEW e \in errors, NEW f \in errors, e < f, f <= n + 1
      PROVE  g # Zeros(type)
  <2>1. CASE f <= n
    <3>1. n + 1 \notin errors
      BY <1>2, <1>3, <1>7, <2>1
    <3>2. hit = 0 /\ d # Zeros(type)
      BY <1>4, <1>7, <2>1, <3>1 DEF Differs
    <3> QED
      BY <1>1, <3>2, OnlyOneVanishes
  <2>2. CASE f = n + 1
    <3>1. e <= n /\ \A h \in errors : h # e => h > n
      BY <1>2, <1>3, <1>7, <2>2
    <3>2. hit = 1 /\ Number(type, d) = Orbit(type, n - e + 1)
      BY <1>4, <1>7, <2>2, <3>1 DEF Differs
    <3>3. n - e + 1 \in 1 .. 88 /\ 1 \in 1 .. Width(type)
      BY <1>2, <3>1 DEF Width
    <3>4. d # Single(type, 1)
      BY <1>1, <3>2, <3>3, OneWrongBit
    <3> QED
      BY <1>1, <3>2, <3>4, OnlyOneVanishes
  <2> QED
    BY <1>2, <1>7, <2>1, <2>2
<1> QED
  BY <1>1, <1>5, <1>6, <1>7 DEF Differs

(* A bit arrives, as it was sent or not.                                   *)
LEMMA NextBit ==
  ASSUME TwoWrong, NEW type \in {"crc8", "crc16"}, NEW n \in 0 .. 87, NEW bit \in Binary,
         NEW one \in Register(type), NEW other \in Register(type),
         Differs(type, n, Difference(type, one, other))
  PROVE  /\ Shift(type, one, Xor(bit, Hit(n + 1))) \in Register(type)
         /\ Shift(type, other, bit) \in Register(type)
         /\ Differs(type, n + 1, Difference(type, Shift(type, one, Xor(bit, Hit(n + 1))),
                                                  Shift(type, other, bit)))
<1>1. Hit(n + 1) \in Binary
  BY DEF Hit, Binary
<1>2. Xor(bit, Hit(n + 1)) \in Binary
  BY <1>1, XorOfBits
<1>3. /\ Shift(type, one, Xor(bit, Hit(n + 1))) \in Register(type)
      /\ Shift(type, other, bit) \in Register(type)
  BY <1>2, ShiftIsRegister
<1>4. Difference(type, Shift(type, one, Xor(bit, Hit(n + 1))), Shift(type, other, bit))
        = Shift(type, Difference(type, one, other), Hit(n + 1))
  BY <1>1, ShiftIsLinear
<1>5. Differs(type, n + 1, Shift(type, Difference(type, one, other), Hit(n + 1)))
  BY NextDifference
<1> QED
  BY <1>3, <1>4, <1>5

(* A byte arrives.                                                         *)
LEMMA NextByte ==
  ASSUME TwoWrong, NEW type \in {"crc8", "crc16"}, NEW n \in 0 .. 80, NEW sent \in Byte,
         NEW one \in Register(type), NEW other \in Register(type),
         Differs(type, n, Difference(type, one, other)),
         NEW seen, seen = [i \in 1 .. 8 |-> Xor(sent[i], Hit(n + i))]
  PROVE  /\ Shift8(type, one, seen) \in Register(type)
         /\ Shift8(type, other, sent) \in Register(type)
         /\ Differs(type, n + 8, Difference(type, Shift8(type, one, seen),
                                                  Shift8(type, other, sent)))
<1> DEFINE Arrived(k, p, q) ==
      /\ p \in Register(type) /\ q \in Register(type)
      /\ Differs(type, n + k, Difference(type, p, q))
<1>1. \A i \in 1 .. 8 : sent[i] \in Binary
  BY DEF Byte
<1>2. ASSUME NEW k \in 0 .. 7, NEW p, NEW q, Arrived(k, p, q)
      PROVE  Arrived(k + 1, Shift(type, p, seen[k + 1]), Shift(type, q, sent[k + 1]))
  <2>1. k + 1 \in 1 .. 8 /\ n + k \in 0 .. 87 /\ n + (k + 1) = (n + k) + 1
    OBVIOUS
  <2>2. seen[k + 1] = Xor(sent[k + 1], Hit((n + k) + 1)) /\ sent[k + 1] \in Binary
    BY <1>1, <2>1
  <2> QED
    BY <1>2, <2>1, <2>2, NextBit
<1>3. Arrived(0, one, other)
  OBVIOUS
<1> HIDE DEF Arrived
<1> DEFINE p1 == Shift(type, one, seen[1])
           q1 == Shift(type, other, sent[1])
           p2 == Shift(type, p1, seen[2])
           q2 == Shift(type, q1, sent[2])
           p3 == Shift(type, p2, seen[3])
           q3 == Shift(type, q2, sent[3])
           p4 == Shift(type, p3, seen[4])
           q4 == Shift(type, q3, sent[4])
           p5 == Shift(type, p4, seen[5])
           q5 == Shift(type, q4, sent[5])
           p6 == Shift(type, p5, seen[6])
           q6 == Shift(type, q5, sent[6])
           p7 == Shift(type, p6, seen[7])
           q7 == Shift(type, q6, sent[7])
           p8 == Shift(type, p7, seen[8])
           q8 == Shift(type, q7, sent[8])
<1>4. p8 = Shift8(type, one, seen) /\ q8 = Shift8(type, other, sent)
  BY DEF Shift8
<1>5. Arrived(0 + 1, p1, q1)
  BY <1>2, <1>3
<1>6. Arrived(1 + 1, p2, q2)
  <2> HIDE DEF p1, q1
  <2> QED BY <1>2, <1>5
<1>7. Arrived(2 + 1, p3, q3)
  <2> HIDE DEF p2, q2
  <2> QED BY <1>2, <1>6
<1>8. Arrived(3 + 1, p4, q4)
  <2> HIDE DEF p3, q3
  <2> QED BY <1>2, <1>7
<1>9. Arrived(4 + 1, p5, q5)
  <2> HIDE DEF p4, q4
  <2> QED BY <1>2, <1>8
<1>10. Arrived(5 + 1, p6, q6)
  <2> HIDE DEF p5, q5
  <2> QED BY <1>2, <1>9
<1>11. Arrived(6 + 1, p7, q7)
  <2> HIDE DEF p6, q6
  <2> QED BY <1>2, <1>10
<1>12. Arrived(7 + 1, p8, q8)
  <2> HIDE DEF p7, q7
  <2> QED BY <1>2, <1>11
<1> HIDE DEF p8, q8
<1>13. Arrived(8, p8, q8)
  BY <1>12
<1> QED
  BY <1>4, <1>13 DEF Arrived

---------------------------------------------------------------------------
(* The program's crc8 is the device's register, bit by bit.                *)
LEMMA Crc8IsDivision ==
  ASSUME NEW g \in Register("crc8"), NEW seen \in Byte
  PROVE  crc8(g, seen) = Shift8("crc8", g, seen)
<1>1. ASSUME NEW p \in Register("crc8"), NEW bit \in Binary
      PROVE  Crc8Bit(p, bit) = Shift("crc8", p, bit) /\ Shift("crc8", p, bit) \in Register("crc8")
  <2>1. Width("crc8") = 8 /\ Taps("crc8") = {3, 4, 8}
    BY DEF Width, Taps
  <2>2. \A i \in 1 .. 8 : p[i] \in Binary
    BY <2>1 DEF Register
  <2>3. \A i \in 1 .. 8 :
          /\ Halved(p)[i] = IF i < 8 THEN p[i + 1] ELSE 0
          /\ Mixed(Halved(p))[i] = IF i \in {3, 4, 8} THEN Xor(Halved(p)[i], 1) ELSE Halved(p)[i]
    BY DEF Halved, Mixed
  <2>4. \A i \in 1 .. 8 : Halved(p)[i] \in Binary
    BY <2>2, <2>3 DEF Binary
  <2>5. \A i \in 1 .. 8 :
          Shift("crc8", p, bit)[i]
            = Xor(Halved(p)[i], IF i \in {3, 4, 8} THEN Xor(p[1], bit) ELSE 0)
    BY <2>1, <2>3, ShiftIsRegister
  <2>6. Xor(p[1], bit) = IF p[1] # bit THEN 1 ELSE 0
    BY DEF Xor
  <2>7. ASSUME NEW i \in 1 .. 8 PROVE Crc8Bit(p, bit)[i] = Shift("crc8", p, bit)[i]
    BY <2>3, <2>4, <2>5, <2>6, XorOfBits DEF Crc8Bit
  <2>8. Crc8Bit(p, bit) = [i \in 1 .. 8 |-> Crc8Bit(p, bit)[i]]
    <3>1. Halved(p) = [i \in 1 .. 8 |-> Halved(p)[i]]
      BY DEF Halved
    <3>2. Mixed(Halved(p)) = [i \in 1 .. 8 |-> Mixed(Halved(p))[i]]
      BY DEF Mixed
    <3>3. CASE p[1] # bit
      BY <3>2, <3>3 DEF Crc8Bit
    <3>4. CASE p[1] = bit
      BY <3>1, <3>4 DEF Crc8Bit
    <3> QED
      BY <3>3, <3>4
  <2>9. Shift("crc8", p, bit) = [i \in 1 .. 8 |-> Shift("crc8", p, bit)[i]]
    BY <2>1 DEF Shift
  <2> QED
    BY <2>7, <2>8, <2>9, ShiftIsRegister
<1>2. /\ seen[1] \in Binary /\ seen[2] \in Binary /\ seen[3] \in Binary /\ seen[4] \in Binary
      /\ seen[5] \in Binary /\ seen[6] \in Binary /\ seen[7] \in Binary /\ seen[8] \in Binary
  BY DEF Byte
<1> DEFINE p1 == Shift("crc8", g, seen[1])
           p2 == Shift("crc8", p1, seen[2])
           p3 == Shift("crc8", p2, seen[3])
           p4 == Shift("crc8", p3, seen[4])
           p5 == Shift("crc8", p4, seen[5])
           p6 == Shift("crc8", p5, seen[6])
           p7 == Shift("crc8", p6, seen[7])
<1>3. /\ Crc8Bit(g, seen[1]) = p1 /\ p1 \in Register("crc8")
  BY <1>1, <1>2
<1>4. Crc8Bit(p1, seen[2]) = p2 /\ p2 \in Register("crc8")
  BY <1>1, <1>2, <1>3
<1>5. Crc8Bit(p2, seen[3]) = p3 /\ p3 \in Register("crc8")
  BY <1>1, <1>2, <1>4
<1>6. Crc8Bit(p3, seen[4]) = p4 /\ p4 \in Register("crc8")
  BY <1>1, <1>2, <1>5
<1>7. Crc8Bit(p4, seen[5]) = p5 /\ p5 \in Register("crc8")
  BY <1>1, <1>2, <1>6
<1>8. Crc8Bit(p5, seen[6]) = p6 /\ p6 \in Register("crc8")
  BY <1>1, <1>2, <1>7
<1>9. Crc8Bit(p6, seen[7]) = p7 /\ p7 \in Register("crc8")
  BY <1>1, <1>2, <1>8
<1>10. Crc8Bit(p7, seen[8]) = Shift("crc8", p7, seen[8])
  BY <1>1, <1>2, <1>9
<1> QED
  BY <1>3, <1>4, <1>5, <1>6, <1>7, <1>8, <1>9, <1>10 DEF crc8, Shift8

(* Each bit of what crc16 makes of a byte.                                 *)
LEMMA FoldedBits ==
  ASSUME NEW g \in Register("crc16"), NEW c \in Byte, NEW odd \in Binary
  PROVE  LET f == Folded(g, c, odd) IN
         /\ f = [i \in 1 .. 16 |-> f[i]]
         /\ f[1] = Xor(g[9], odd) /\ f[2] = g[10] /\ f[3] = g[11] /\ f[4] = g[12]
         /\ f[5] = g[13] /\ f[6] = g[14] /\ f[7] = Xor(g[15], c[1])
         /\ f[8] = Xor(g[16], Xor(c[2], c[1])) /\ f[9] = Xor(c[3], c[2])
         /\ f[10] = Xor(c[4], c[3]) /\ f[11] = Xor(c[5], c[4]) /\ f[12] = Xor(c[6], c[5])
         /\ f[13] = Xor(c[7], c[6]) /\ f[14] = Xor(c[8], c[7]) /\ f[15] = Xor(odd, c[8])
         /\ f[16] = odd
<1> DEFINE f           == Folded(g, c, odd)
           high(i)     == IF i <= 8 THEN g[i + 8] ELSE 0
           parity(i)   == IF i - 1 \in {0, 14, 15} THEN odd ELSE 0
           shift(i, m) == IF i - m \in 1 .. 8 THEN c[i - m] ELSE 0
<1>1. f = [i \in 1 .. 16 |-> f[i]]
  BY DEF Folded
<1>2. \A i \in 1 .. 16 : f[i] = Xor(Xor(high(i), parity(i)), Xor(shift(i, 6), shift(i, 7)))
  BY DEF Folded
<1>3. \A i \in 1 .. 16 : g[i] \in Binary
  BY DEF Register, Width
<1>4. \A i \in 1 .. 8 : c[i] \in Binary
  BY DEF Byte
<1> HIDE DEF f
<1>5. ASSUME NEW i \in 1 .. 6 PROVE f[i] = Xor(g[i + 8], IF i = 1 THEN odd ELSE 0)
  <2>1. /\ high(i) = g[i + 8] /\ parity(i) = (IF i = 1 THEN odd ELSE 0)
        /\ shift(i, 6) = 0 /\ shift(i, 7) = 0
    OBVIOUS
  <2>2. f[i] = Xor(Xor(g[i + 8], IF i = 1 THEN odd ELSE 0), Xor(0, 0))
    BY <1>2, <2>1
  <2>3. g[i + 8] \in Binary
    BY <1>3
  <2> QED
    BY <2>2, <2>3 DEF Binary, Xor
<1>6. f[7] = Xor(Xor(g[15], 0), Xor(c[1], 0)) /\ f[8] = Xor(Xor(g[16], 0), Xor(c[2], c[1]))
  BY <1>2
<1>7. ASSUME NEW i \in 9 .. 14 PROVE f[i] = Xor(c[i - 6], c[i - 7])
  <2>1. /\ high(i) = 0 /\ parity(i) = 0
        /\ shift(i, 6) = c[i - 6] /\ shift(i, 7) = c[i - 7]
    OBVIOUS
  <2>2. f[i] = Xor(Xor(0, 0), Xor(c[i - 6], c[i - 7]))
    BY <1>2, <2>1
  <2>3. c[i - 6] \in Binary /\ c[i - 7] \in Binary
    BY <1>4
  <2> QED
    BY <2>2, <2>3 DEF Binary, Xor
<1>8. f[15] = Xor(Xor(0, odd), Xor(0, c[8])) /\ f[16] = Xor(Xor(0, odd), Xor(0, 0))
  BY <1>2
<1>9. g[15] \in Binary /\ g[16] \in Binary /\ c[1] \in Binary /\ c[2] \in Binary /\ c[8] \in Binary
  BY <1>3, <1>4
<1>10. /\ f[1] = Xor(g[9], odd) /\ f[2] = Xor(g[10], 0) /\ f[3] = Xor(g[11], 0)
       /\ f[4] = Xor(g[12], 0) /\ f[5] = Xor(g[13], 0) /\ f[6] = Xor(g[14], 0)
  BY <1>5
<1>11. /\ f[2] = g[10] /\ f[3] = g[11] /\ f[4] = g[12] /\ f[5] = g[13] /\ f[6] = g[14]
  BY <1>3, <1>10, XorOfBits
<1>12. /\ f[7] = Xor(g[15], c[1]) /\ f[8] = Xor(g[16], Xor(c[2], c[1]))
       /\ f[15] = Xor(odd, c[8]) /\ f[16] = odd
  BY <1>6, <1>8, <1>9 DEF Binary, Xor
<1>13. /\ f[9] = Xor(c[3], c[2]) /\ f[10] = Xor(c[4], c[3]) /\ f[11] = Xor(c[5], c[4])
       /\ f[12] = Xor(c[6], c[5]) /\ f[13] = Xor(c[7], c[6]) /\ f[14] = Xor(c[8], c[7])
  BY <1>7
<1> QED
  BY <1>1, <1>10, <1>11, <1>12, <1>13 DEF f


(* Each bit of a register of 16 bits that went on by a place.              *)
LEMMA ShiftedBits ==
  ASSUME NEW p \in Register("crc16"), NEW bit \in Binary
  PROVE  LET f == Shift("crc16", p, bit)
             m == Xor(p[1], bit)
         IN  /\ f \in Register("crc16") /\ m \in Binary
             /\ f[1] = Xor(p[2], m) /\ f[14] = Xor(p[15], m) /\ f[15] = p[16] /\ f[16] = m
             /\ \A i \in 2 .. 13 : f[i] = p[i + 1]
<1> DEFINE f == Shift("crc16", p, bit)
           m == Xor(p[1], bit)
<1>1. Width("crc16") = 16 /\ Taps("crc16") = {1, 14, 16}
  BY DEF Width, Taps
<1>2. \A i \in 1 .. 16 : p[i] \in Binary
  BY <1>1 DEF Register
<1>3. m \in Binary
  BY <1>2, XorOfBits
<1>4. f \in Register("crc16")
  BY ShiftIsRegister
<1>5. \A i \in 1 .. 16 :
        f[i] = Xor(IF i < 16 THEN p[i + 1] ELSE 0, IF i \in {1, 14, 16} THEN m ELSE 0)
  BY <1>1, ShiftIsRegister
<1> HIDE DEF f, m
<1>6. f[1] = Xor(p[2], m) /\ f[14] = Xor(p[15], m) /\ f[15] = Xor(p[16], 0) /\ f[16] = Xor(0, m)
  BY <1>5
<1>7. \A i \in 2 .. 13 : f[i] = Xor(p[i + 1], 0) /\ p[i + 1] \in Binary
  BY <1>2, <1>5
<1>8. p[16] \in Binary
  BY <1>2
<1> QED
  BY <1>3, <1>4, <1>6, <1>7, <1>8, XorOfBits DEF f, m

(* The program's crc16, a byte at a time, is the device's register.        *)
LEMMA Crc16IsDivision ==
  ASSUME NEW g \in Register("crc16"), NEW seen \in Byte
  PROVE  crc16(g, seen) = Shift8("crc16", g, seen)
<1> DEFINE c == Cdata(g, seen)
           odd == Xor(OddParity(c[1], c[2], c[3], c[4]), OddParity(c[5], c[6], c[7], c[8]))
           f  == Folded(g, c, odd)
           m1 == Xor(g[1], seen[1])
           r1 == Shift("crc16", g, seen[1])
           m2 == Xor(r1[1], seen[2])
           r2 == Shift("crc16", r1, seen[2])
           m3 == Xor(r2[1], seen[3])
           r3 == Shift("crc16", r2, seen[3])
           m4 == Xor(r3[1], seen[4])
           r4 == Shift("crc16", r3, seen[4])
           m5 == Xor(r4[1], seen[5])
           r5 == Shift("crc16", r4, seen[5])
           m6 == Xor(r5[1], seen[6])
           r6 == Shift("crc16", r5, seen[6])
           m7 == Xor(r6[1], seen[7])
           r7 == Shift("crc16", r6, seen[7])
           m8 == Xor(r7[1], seen[8])
           r8 == Shift("crc16", r7, seen[8])
<1>1. /\ g[1] \in Binary /\ g[2] \in Binary /\ g[3] \in Binary /\ g[4] \in Binary
      /\ g[5] \in Binary /\ g[6] \in Binary /\ g[7] \in Binary /\ g[8] \in Binary
      /\ g[15] \in Binary /\ g[16] \in Binary
  BY DEF Register, Width
<1>2. /\ seen[1] \in Binary /\ seen[2] \in Binary /\ seen[3] \in Binary /\ seen[4] \in Binary
      /\ seen[5] \in Binary /\ seen[6] \in Binary /\ seen[7] \in Binary /\ seen[8] \in Binary
  BY DEF Byte
<1>3. /\ c[1] = Xor(seen[1], g[1]) /\ c[2] = Xor(seen[2], g[2]) /\ c[3] = Xor(seen[3], g[3])
      /\ c[4] = Xor(seen[4], g[4]) /\ c[5] = Xor(seen[5], g[5]) /\ c[6] = Xor(seen[6], g[6])
      /\ c[7] = Xor(seen[7], g[7]) /\ c[8] = Xor(seen[8], g[8])
  BY DEF Cdata
<1>4. /\ c[1] \in Binary /\ c[2] \in Binary /\ c[3] \in Binary /\ c[4] \in Binary
      /\ c[5] \in Binary /\ c[6] \in Binary /\ c[7] \in Binary /\ c[8] \in Binary
  BY <1>1, <1>2, <1>3, XorOfBits
<1>5. c \in Byte /\ odd \in Binary
  <2>1. c = [i \in 1 .. 8 |-> c[i]] /\ \A i \in 1 .. 8 : g[i] \in Binary /\ seen[i] \in Binary
    BY DEF Cdata, Register, Width, Byte
  <2>2. \A i \in 1 .. 8 : c[i] \in Binary
    BY <2>1, XorOfBits DEF Cdata
  <2> QED
    BY <1>4, <2>1, <2>2, XorOfBits DEF Byte, OddParity
<1>6. f = crc16(g, seen) /\ r8 = Shift8("crc16", g, seen)
  BY DEF crc16, Shift8
<1> HIDE DEF c, odd, f
<1>7. /\ r1 \in Register("crc16") /\ m1 \in Binary
      /\ m1 = c[1]
      /\ r1[1] = Xor(g[2], m1) /\ r1[15] = g[16] /\ r1[16] = m1
      /\ \A i \in 2 .. 13 : r1[i] = g[i + 1]
      /\ r1[14] = Xor(g[15], m1)
  <2>1. m1 = c[1]
    BY <1>1, <1>2, <1>3, XorOfBits
  <2>2. /\ r1 \in Register("crc16") /\ m1 \in Binary
        /\ r1[1] = Xor(g[2], m1) /\ r1[14] = Xor(g[15], m1) /\ r1[15] = g[16] /\ r1[16] = m1
        /\ \A i \in 2 .. 13 : r1[i] = g[i + 1]
    BY <1>2, ShiftedBits
  <2> HIDE DEF m1, r1
  <2> QED
    BY <2>1, <2>2
<1>8. /\ r2 \in Register("crc16") /\ m2 \in Binary
      /\ m2 = Xor(c[2], m1)
      /\ r2[1] = Xor(g[3], m2) /\ r2[15] = m1 /\ r2[16] = m2
      /\ \A i \in 2 .. 12 : r2[i] = g[i + 2]
      /\ r2[13] = Xor(g[15], m1) /\ r2[14] = Xor(g[16], m2)
  <2> HIDE DEF m1, r1
  <2>1. /\ r2 \in Register("crc16") /\ m2 \in Binary
        /\ r2[1] = Xor(r1[2], m2) /\ r2[14] = Xor(r1[15], m2)
        /\ r2[15] = r1[16] /\ r2[16] = m2
        /\ \A i \in 2 .. 13 : r2[i] = r1[i + 1]
    BY <1>2, <1>7, ShiftedBits, ZenonT(40)
  <2>2. m2 = Xor(c[2], m1)
    BY <1>1, <1>2, <1>3, <1>7 DEF Binary, Xor
  <2> HIDE DEF m2, r2
  <2> QED
    BY <1>7, <2>1, <2>2, SMTT(20)
<1>9. /\ r3 \in Register("crc16") /\ m3 \in Binary
      /\ m3 = Xor(c[3], m2)
      /\ r3[1] = Xor(g[4], m3) /\ r3[15] = m2 /\ r3[16] = m3
      /\ \A i \in 2 .. 11 : r3[i] = g[i + 3]
      /\ r3[12] = Xor(g[15], m1) /\ r3[13] = Xor(g[16], m2) /\ r3[14] = Xor(m1, m3)
  <2> HIDE DEF m2, r2
  <2>1. /\ r3 \in Register("crc16") /\ m3 \in Binary
        /\ r3[1] = Xor(r2[2], m3) /\ r3[14] = Xor(r2[15], m3)
        /\ r3[15] = r2[16] /\ r3[16] = m3
        /\ \A i \in 2 .. 13 : r3[i] = r2[i + 1]
    BY <1>2, <1>8, ShiftedBits, ZenonT(40)
  <2>2. m3 = Xor(c[3], m2)
    BY <1>1, <1>2, <1>3, <1>8 DEF Binary, Xor
  <2> HIDE DEF m3, r3
  <2> QED
    BY <1>8, <2>1, <2>2, SMTT(20)
<1>10. /\ r4 \in Register("crc16") /\ m4 \in Binary
       /\ m4 = Xor(c[4], m3)
       /\ r4[1] = Xor(g[5], m4) /\ r4[15] = m3 /\ r4[16] = m4
       /\ \A i \in 2 .. 10 : r4[i] = g[i + 4]
       /\ r4[11] = Xor(g[15], m1) /\ r4[12] = Xor(g[16], m2) /\ r4[13] = Xor(m1, m3)
       /\ r4[14] = Xor(m2, m4)
  <2> HIDE DEF m3, r3
  <2>1. /\ r4 \in Register("crc16") /\ m4 \in Binary
        /\ r4[1] = Xor(r3[2], m4) /\ r4[14] = Xor(r3[15], m4)
        /\ r4[15] = r3[16] /\ r4[16] = m4
        /\ \A i \in 2 .. 13 : r4[i] = r3[i + 1]
    BY <1>2, <1>9, ShiftedBits, ZenonT(40)
  <2>2. m4 = Xor(c[4], m3)
    BY <1>1, <1>2, <1>3, <1>9 DEF Binary, Xor
  <2> HIDE DEF m4, r4
  <2> QED
    BY <1>9, <2>1, <2>2, SMTT(20)
<1>11. /\ r5 \in Register("crc16") /\ m5 \in Binary
       /\ m5 = Xor(c[5], m4)
       /\ r5[1] = Xor(g[6], m5) /\ r5[15] = m4 /\ r5[16] = m5
       /\ \A i \in 2 .. 9 : r5[i] = g[i + 5]
       /\ r5[10] = Xor(g[15], m1) /\ r5[11] = Xor(g[16], m2) /\ r5[12] = Xor(m1, m3)
       /\ r5[13] = Xor(m2, m4) /\ r5[14] = Xor(m3, m5)
  <2> HIDE DEF m4, r4
  <2>1. /\ r5 \in Register("crc16") /\ m5 \in Binary
        /\ r5[1] = Xor(r4[2], m5) /\ r5[14] = Xor(r4[15], m5)
        /\ r5[15] = r4[16] /\ r5[16] = m5
        /\ \A i \in 2 .. 13 : r5[i] = r4[i + 1]
    BY <1>2, <1>10, ShiftedBits, ZenonT(40)
  <2>2. m5 = Xor(c[5], m4)
    BY <1>1, <1>2, <1>3, <1>10 DEF Binary, Xor
  <2> HIDE DEF m5, r5
  <2> QED
    BY <1>10, <2>1, <2>2, SMTT(20)
<1>12. /\ r6 \in Register("crc16") /\ m6 \in Binary
       /\ m6 = Xor(c[6], m5)
       /\ r6[1] = Xor(g[7], m6) /\ r6[15] = m5 /\ r6[16] = m6
       /\ \A i \in 2 .. 8 : r6[i] = g[i + 6]
       /\ r6[9] = Xor(g[15], m1) /\ r6[10] = Xor(g[16], m2) /\ r6[11] = Xor(m1, m3)
       /\ r6[12] = Xor(m2, m4) /\ r6[13] = Xor(m3, m5) /\ r6[14] = Xor(m4, m6)
  <2> HIDE DEF m5, r5
  <2>1. /\ r6 \in Register("crc16") /\ m6 \in Binary
        /\ r6[1] = Xor(r5[2], m6) /\ r6[14] = Xor(r5[15], m6)
        /\ r6[15] = r5[16] /\ r6[16] = m6
        /\ \A i \in 2 .. 13 : r6[i] = r5[i + 1]
    BY <1>2, <1>11, ShiftedBits, ZenonT(40)
  <2>2. m6 = Xor(c[6], m5)
    BY <1>1, <1>2, <1>3, <1>11 DEF Binary, Xor
  <2> HIDE DEF m6, r6
  <2> QED
    BY <1>11, <2>1, <2>2, SMTT(20)
<1>13. /\ r7 \in Register("crc16") /\ m7 \in Binary
       /\ m7 = Xor(c[7], m6)
       /\ r7[1] = Xor(g[8], m7) /\ r7[15] = m6 /\ r7[16] = m7
       /\ \A i \in 2 .. 7 : r7[i] = g[i + 7]
       /\ r7[8] = Xor(g[15], m1) /\ r7[9] = Xor(g[16], m2) /\ r7[10] = Xor(m1, m3)
       /\ r7[11] = Xor(m2, m4) /\ r7[12] = Xor(m3, m5) /\ r7[13] = Xor(m4, m6)
       /\ r7[14] = Xor(m5, m7)
  <2> HIDE DEF m6, r6
  <2>1. /\ r7 \in Register("crc16") /\ m7 \in Binary
        /\ r7[1] = Xor(r6[2], m7) /\ r7[14] = Xor(r6[15], m7)
        /\ r7[15] = r6[16] /\ r7[16] = m7
        /\ \A i \in 2 .. 13 : r7[i] = r6[i + 1]
    BY <1>2, <1>12, ShiftedBits, ZenonT(40)
  <2>2. m7 = Xor(c[7], m6)
    BY <1>1, <1>2, <1>3, <1>12 DEF Binary, Xor
  <2> HIDE DEF m7, r7
  <2> QED
    <3>1. \A i \in 2 .. 7 : r7[i] = g[i + 7]
      BY <1>12, <2>1, SMTT(20)
    <3>2. /\ r7[8] = Xor(g[15], m1) /\ r7[9] = Xor(g[16], m2) /\ r7[10] = Xor(m1, m3)
          /\ r7[11] = Xor(m2, m4) /\ r7[12] = Xor(m3, m5) /\ r7[13] = Xor(m4, m6)
      BY <1>12, <2>1, SMTT(20)
    <3> QED
      BY <1>12, <2>1, <2>2, <3>1, <3>2, SMTT(20)
<1>14. /\ r8 \in Register("crc16") /\ m8 \in Binary
       /\ m8 = Xor(c[8], m7)
       /\ r8[1] = Xor(g[9], m8) /\ r8[15] = m7 /\ r8[16] = m8
       /\ \A i \in 2 .. 6 : r8[i] = g[i + 8]
       /\ r8[7] = Xor(g[15], m1) /\ r8[8] = Xor(g[16], m2) /\ r8[9] = Xor(m1, m3)
       /\ r8[10] = Xor(m2, m4) /\ r8[11] = Xor(m3, m5) /\ r8[12] = Xor(m4, m6)
       /\ r8[13] = Xor(m5, m7) /\ r8[14] = Xor(m6, m8)
  <2> HIDE DEF m7, r7
  <2>1. /\ r8 \in Register("crc16") /\ m8 \in Binary
        /\ r8[1] = Xor(r7[2], m8) /\ r8[14] = Xor(r7[15], m8)
        /\ r8[15] = r7[16] /\ r8[16] = m8
        /\ \A i \in 2 .. 13 : r8[i] = r7[i + 1]
    BY <1>2, <1>13, ShiftedBits, ZenonT(40)
  <2>2. m8 = Xor(c[8], m7)
    BY <1>1, <1>2, <1>3, <1>13 DEF Binary, Xor
  <2> HIDE DEF m8, r8
  <2> QED
    BY <1>13, <2>1, <2>2, SMTT(20)
<1> HIDE DEF m1, m2, m3, m4, m5, m6, m7, m8, r1, r2, r3, r4, r5, r6, r7, r8
<1>15. odd = m8
  BY <1>4, <1>7, <1>8, <1>9, <1>10, <1>11, <1>12, <1>13, <1>14, SMTT(20)
     DEF odd, OddParity, Binary, Xor
<1>16. /\ Xor(m1, m3) = Xor(c[3], c[2]) /\ Xor(m2, m4) = Xor(c[4], c[3])
       /\ Xor(m3, m5) = Xor(c[5], c[4]) /\ Xor(m4, m6) = Xor(c[6], c[5])
       /\ Xor(m5, m7) = Xor(c[7], c[6]) /\ Xor(m6, m8) = Xor(c[8], c[7])
       /\ m7 = Xor(m8, c[8]) /\ m2 = Xor(c[2], c[1])
  BY <1>4, <1>7, <1>8, <1>9, <1>10, <1>11, <1>12, <1>13, <1>14 DEF Binary, Xor
<1>17. /\ f = [i \in 1 .. 16 |-> f[i]]
       /\ f[1] = r8[1] /\ f[2] = r8[2] /\ f[3] = r8[3] /\ f[4] = r8[4]
       /\ f[5] = r8[5] /\ f[6] = r8[6] /\ f[7] = r8[7] /\ f[8] = r8[8]
       /\ f[9] = r8[9] /\ f[10] = r8[10] /\ f[11] = r8[11] /\ f[12] = r8[12]
       /\ f[13] = r8[13] /\ f[14] = r8[14] /\ f[15] = r8[15] /\ f[16] = r8[16]
  <2>1. r8[2] = g[10] /\ r8[3] = g[11] /\ r8[4] = g[12] /\ r8[5] = g[13] /\ r8[6] = g[14]
    BY <1>14
  <2> QED
    BY <1>5, <1>7, <1>14, <1>15, <1>16, <2>1, FoldedBits DEF f
<1>18. r8 = [i \in 1 .. 16 |-> r8[i]]
  BY <1>14 DEF Register, Width
<1>19. \A i \in 1 .. 16 : f[i] = r8[i]
  BY <1>17
<1> QED
  BY <1>6, <1>17, <1>18, <1>19

---------------------------------------------------------------------------
(* The initial states have no difference.                                  *)
LEMMA CrcStarts == CrcInit => CrcInv
<1> SUFFICES ASSUME CrcInit PROVE CrcInv
  OBVIOUS
<1>1. /\ check \in {"crc8", "crc16"} /\ len = 0 /\ crc = Zeros(check) /\ register = Zeros(check)
      /\ data \in Data8 \cup Data16
  BY DEF CrcInit, Zeros
<1>2. data \in Seq(Byte) /\ Len(data) <= LongestFrame
  BY <1>1, CrcAssumption
<1>3. Width(check) \in {8, 16} /\ 1 \in Places(check, data)
  BY <1>2 DEF Width, Places, Place
<1>4. \E i, j \in Places(check, data) : errors \in {{}, {i, j}}
  BY <1>3 DEF CrcInit
<1>5. Zeros(check) \in Register(check)
  BY ZerosStay
<1>6. CrcOK
  BY <1>1, <1>2, <1>4, <1>5 DEF CrcOK
<1>7. Difference(check, crc, register) = Zeros(check)
  BY <1>1, <1>5, NoDifference
<1>8. \A e \in errors : e > 0
  BY <1>4 DEF Places
<1>9. Place(len, 0) = 0
  BY <1>1 DEF Place
<1>10. Differs(check, 0, Zeros(check))
  BY <1>3, <1>4, <1>5, <1>8 DEF Differs, Places, Place
<1> QED
  BY <1>6, <1>7, <1>9, <1>10 DEF CrcInv

(* At most two bits are wrong, and they are in the frame.                  *)
LEMMA AtMostTwo ==
  ASSUME CrcOK
  PROVE  /\ TwoWrong
         /\ \A e \in errors : e \in Nat /\ e >= 1 /\ e <= 8 * Len(data) + Width(check)
<1>1. Width(check) \in {8, 16} /\ Len(data) \in Nat
  BY DEF Width, CrcOK
<1>2. PICK i, j \in Places(check, data) : errors \in {{}, {i, j}}
  BY DEF CrcOK
<1>3. /\ i \in Nat \ {0} /\ j \in Nat \ {0}
      /\ i <= 8 * Len(data) + Width(check) /\ j <= 8 * Len(data) + Width(check)
  BY <1>1 DEF Places, Place
<1> QED
  BY <1>2, <1>3 DEF TwoWrong

(* Each byte takes the difference on.                                      *)
LEMMA BytesKeepDifference ==
  ASSUME CrcInv, AddByte
  PROVE  CrcInv'
<1>1. /\ check \in {"crc8", "crc16"} /\ data \in Seq(Byte) /\ Len(data) <= LongestFrame
      /\ len \in 0 .. Len(data) /\ len < Len(data) /\ len' = len + 1
      /\ register \in Register(check) /\ crc \in Register(check)
      /\ UNCHANGED <<check, data, errors>>
      /\ Differs(check, Place(len, 0), Difference(check, crc, register))
  BY DEF CrcInv, CrcOK, AddByte
<1>2. len' \in 1 .. Len(data) /\ data[len'] \in Byte
  BY <1>1
<1> DEFINE n    == 8 * len
           sent == data[len']
           seen == [i \in 1 .. 8 |-> Xor(sent[i], Hit(n + i))]
<1>3. n \in 0 .. 80 /\ Place(len, 0) = n /\ Place(len, 0)' = n + 8
  BY <1>1 DEF LongestFrame, Place
<1>4. Received(len') = seen
  BY <1>1 DEF Received, Place
<1>5. seen \in Byte
  <2>1. \A i \in 1 .. 8 : sent[i] \in Binary /\ Hit(n + i) \in Binary
    BY <1>2 DEF Byte, Hit, Binary
  <2>2. \A i \in 1 .. 8 : Xor(sent[i], Hit(n + i)) \in Binary
    BY <2>1, XorOfBits
  <2> QED
    BY <2>2 DEF Byte
<1>6. TwoWrong
  BY AtMostTwo DEF CrcInv
<1> HIDE DEF seen
<1>7. /\ Shift8(check, crc, seen) \in Register(check)
      /\ Shift8(check, register, sent) \in Register(check)
      /\ Differs(check, n + 8, Difference(check, Shift8(check, crc, seen),
                                                 Shift8(check, register, sent)))
  BY <1>1, <1>2, <1>3, <1>6, NextByte DEF seen
<1>8. crc' = Shift8(check, crc, seen) /\ register' = Shift8(check, register, sent)
  <2>1. CASE check = "crc8"
    BY <1>1, <1>4, <1>5, <2>1, Crc8IsDivision DEF AddByte
  <2>2. CASE check = "crc16"
    BY <1>1, <1>4, <1>5, <2>2, Crc16IsDivision DEF AddByte
  <2> QED
    BY <1>1, <2>1, <2>2
<1>9. CrcOK'
  BY <1>1, <1>2, <1>7, <1>8 DEF CrcOK, CrcInv, Places
<1>10. Differs(check, n + 8, Difference(check, crc', register'))
  BY <1>7, <1>8
<1>11. Differs(check, Place(len, 0), Difference(check, crc, register))'
  BY <1>1, <1>3, <1>10 DEF Differs
<1> QED
  BY <1>9, <1>11 DEF CrcInv

(* The program accepts what differs from the device's register by just the *)
(* wrong bits of the check sum itself.                                     *)
LEMMA AcceptedIs ==
  ASSUME CrcOK
  PROVE  Accepted <=> \A i \in 1 .. Width(check) :
                        Difference(check, crc, register)[i] = Hit(Place(Len(data), i))
<1> DEFINE w      == Width(check)
           hit(i) == Hit(Place(Len(data), i))
<1>1. /\ crc = [i \in 1 .. w |-> crc[i]] /\ register = [i \in 1 .. w |-> register[i]]
      /\ \A i \in 1 .. w : crc[i] \in Binary /\ register[i] \in Binary /\ hit(i) \in Binary
  BY DEF CrcOK, Register, Hit, Binary
<1>2. \A i \in 1 .. w : Difference(check, crc, register)[i] = Xor(crc[i], register[i])
  BY DEF Difference
<1>3. CASE check = "crc8"
  <2>1. Sum = [i \in 1 .. w |-> Xor(register[i], hit(i))]
    BY <1>1, <1>3 DEF Sum, AsSent
  <2>2. Accepted <=> \A i \in 1 .. w : crc[i] = Xor(register[i], hit(i))
    BY <1>1, <1>3, <2>1 DEF Accepted, AsSent
  <2>3. \A i \in 1 .. w : crc[i] = Xor(register[i], hit(i)) <=> Xor(crc[i], register[i]) = hit(i)
    BY <1>1 DEF Binary, Xor
  <2> QED
    BY <1>2, <2>2, <2>3
<1>4. CASE check = "crc16"
  <2>1. AsSent(crc) = [i \in 1 .. w |-> Xor(crc[i], 1)]
    BY <1>1, <1>4 DEF AsSent, Inverted
  <2>2. AsSent(register) = [i \in 1 .. w |-> Xor(register[i], 1)]
    BY <1>1, <1>4 DEF AsSent, Inverted
  <2>3. Sum = [i \in 1 .. w |-> Xor(Xor(register[i], 1), hit(i))]
    BY <1>1, <2>2 DEF Sum
  <2>4. Accepted <=> \A i \in 1 .. w : Xor(crc[i], 1) = Xor(Xor(register[i], 1), hit(i))
    BY <2>1, <2>3 DEF Accepted
  <2>5. \A i \in 1 .. w : Xor(crc[i], 1) = Xor(Xor(register[i], 1), hit(i))
                            <=> Xor(crc[i], register[i]) = hit(i)
    BY <1>1 DEF Binary, Xor
  <2> QED
    BY <1>2, <2>4, <2>5
<1> QED
  BY <1>3, <1>4 DEF CrcOK

(* At the end the difference is that of the wrong bits only if none is.    *)
LEMMA WrongBitsShow == CrcInv => CatchesErrors
<1>0. SUFFICES ASSUME CrcInv, len = Len(data) PROVE Accepted <=> errors = {}
  BY DEF CatchesErrors
<1> DEFINE w == Width(check)
           n == 8 * Len(data)
           d == Difference(check, crc, register)
<1>1. /\ CrcOK /\ check \in {"crc8", "crc16"} /\ w \in {8, 16} /\ n \in Nat /\ n <= 88
      /\ \A i \in 1 .. w : Place(Len(data), i) = n + i
  <2>1. CrcOK /\ check \in {"crc8", "crc16"} /\ data \in Seq(Byte) /\ Len(data) <= 11
    BY <1>0 DEF CrcInv, CrcOK, LongestFrame
  <2>2. Len(data) \in Nat /\ Len(data) <= 11
    BY <2>1
  <2>3. w \in {8, 16}
    BY DEF Width
  <2> HIDE DEF w
  <2> QED
    BY <2>1, <2>2, <2>3 DEF Place
<1>2. Differs(check, n, d)
  <2>1. Place(len, 0) = n
    BY <1>0, <1>1 DEF Place
  <2> QED
    BY <1>0, <2>1 DEF CrcInv
<1>3. d \in Register(check)
  BY <1>2 DEF Differs
<1>4. TwoWrong /\ \A e \in errors : e \in Nat /\ e >= 1 /\ e <= n + w
  BY <1>1, AtMostTwo
<1>5. Accepted <=> \A i \in 1 .. w : d[i] = Hit(n + i)
  BY <1>1, AcceptedIs
<1>6. Accepted <=> d = [i \in 1 .. w |-> Hit(n + i)]
  BY <1>3, <1>5 DEF Register
<1> HIDE DEF d, n
<1>7. ASSUME errors = {} PROVE Accepted
  <2>1. d = Zeros(check)
    BY <1>2, <1>7 DEF Differs
  <2>2. [i \in 1 .. w |-> Hit(n + i)] = Zeros(check)
    BY <1>7 DEF Zeros, Hit
  <2> QED
    BY <1>6, <2>1, <2>2
<1>8. ASSUME NEW e \in errors, Accepted PROVE FALSE
  <2>1. \A i \in 1 .. w : d[i] = Hit(n + i)
    BY <1>5, <1>8
  <2>2. CASE \A f \in errors : f > n
    <3>1. d = Zeros(check)
      BY <1>2, <2>2 DEF Differs
    <3>2. e - n \in 1 .. w /\ n + (e - n) = e
      BY <1>1, <1>4, <1>8, <2>2
    <3>3. Hit(n + (e - n)) = 1 /\ d[e - n] = 0
      BY <1>8, <3>1, <3>2 DEF Hit, Zeros
    <3> QED
      BY <2>1, <3>2, <3>3
  <2>3. ASSUME NEW f \in errors, f <= n, \A h \in errors : h # f => h > n PROVE FALSE
    <3>1. Number(check, d) = Orbit(check, n - f + 1)
      BY <1>2, <2>3 DEF Differs
    <3>2. n - f + 1 \in 1 .. 88
      <4>1. f \in Nat /\ f >= 1 /\ f <= n
        BY <1>4, <2>3
      <4>2. ASSUME NEW m \in Nat, m <= 88, NEW p \in Nat, p >= 1, p <= m PROVE m - p + 1 \in 1 .. 88
        BY <4>2
      <4> QED
        BY <1>1, <4>1, <4>2
    <3>3. d # Zeros(check) /\ \A j \in 1 .. w : d # Single(check, j)
      BY <1>1, <1>3, <3>1, <3>2, OneWrongBit
    <3>4. CASE \A h \in errors : h = f
      <4>1. \A i \in 1 .. w : Hit(n + i) = 0
        BY <1>1, <2>3, <3>4 DEF Hit
      <4> QED
        BY <1>5, <1>6, <1>8, <3>3, <4>1 DEF Zeros
    <3>5. ASSUME NEW h \in errors, h # f PROVE FALSE
      <4>1. h - n \in 1 .. w /\ n + (h - n) = h
        BY <1>1, <1>4, <2>3, <3>5
      <4>2. \A k \in errors : k = f \/ k = h
        BY <1>4, <2>3, <3>5 DEF TwoWrong
      <4>3. \A i \in 1 .. w : Hit(n + i) = IF i = h - n THEN 1 ELSE 0
        BY <1>1, <1>4, <2>3, <3>5, <4>1, <4>2, SMTT(20) DEF Hit
      <4>4. [i \in 1 .. w |-> Hit(n + i)] = Single(check, h - n)
        BY <4>3 DEF Single
      <4> QED
        BY <1>6, <1>8, <3>3, <4>1, <4>4
    <3> QED
      BY <3>4, <3>5
  <2>4. ASSUME NEW f \in errors, NEW h \in errors, f < h, h <= n PROVE FALSE
    <3>1. d # Zeros(check)
      BY <1>2, <2>4 DEF Differs
    <3>2. \A k \in errors : k <= n
      <4>1. f \in Nat /\ h \in Nat /\ f # h /\ f <= n
        BY <1>1, <1>4, <2>4
      <4>2. \A k \in errors : k = f \/ k = h
        BY <1>4, <2>4, <4>1 DEF TwoWrong
      <4> QED
        BY <2>4, <4>1, <4>2
    <3>3. \A i \in 1 .. w : Hit(n + i) = 0
      BY <1>1, <1>4, <3>2 DEF Hit
    <3> QED
      BY <1>6, <1>8, <3>1, <3>3 DEF Zeros
  <2>5. PICK f \in errors : f <= n
    BY <1>1, <1>4, <2>2
  <2>6. PICK h \in errors : h # f /\ h <= n
    BY <1>1, <1>4, <2>3, <2>5
  <2> QED
    BY <1>4, <2>4, <2>5, <2>6
<1> QED
  BY <1>7, <1>8

(* Whatever is sent, up to the longest frame, it is accepted if it arrives *)
(* as it was sent, and not if one bit or two of it changed.                *)
THEOREM ErrorsAreCaught == CrcSpec => []CatchesErrors
<1>1. CrcInv /\ [CrcNext]_crcvars => CrcInv'
  <2> SUFFICES ASSUME CrcInv, [CrcNext]_crcvars PROVE CrcInv'
    OBVIOUS
  <2>1. CASE AddByte
    BY <2>1, BytesKeepDifference
  <2>2. CASE UNCHANGED crcvars
    BY <2>2 DEF crcvars, CrcInv, CrcOK, Differs, Places
  <2> QED
    BY <2>1, <2>2 DEF CrcNext
<1> QED
  BY <1>1, CrcStarts, WrongBitsShow, PTL DEF CrcSpec

============================================================================
