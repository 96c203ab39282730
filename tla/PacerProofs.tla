----------------------------- MODULE PacerProofs -----------------------------
(***************************************************************************)
(* The pacer's bounds for every rate, burst, set of packet sizes and bound *)
(* on waits.                                                               *)
(***************************************************************************)
EXTENDS Pacer, TLAPS

\* The bytes that were paid for and have not been sent.
Granted == IF pacer_pc = "granted" THEN wire_bytes ELSE 0

\* What could be bought now, what was bought and not sent, and what was sent too
\* early are together no more than a full bucket and one packet.
Account == Smaller(Brim, tokens + Rate * elapsed) + Granted + surplus <= Brim + LargestWire

\* elapsed + left is the length of the current wait.
WaitShape ==
  IF pacer_pc \in {"sleep", "spin"} THEN elapsed + left \in 1 .. MaxWait ELSE left = 0

IInv == TypeOK /\ Account /\ WaitShape /\ OneWaitSuffices

-----------------------------------------------------------------------------
\* A wait rounded up to whole ticks brings all that is missing.
LEMMA WaitIsLongEnough ==
  ASSUME NEW missing \in Nat, missing > 0, WaitTicks(missing) < MaxWait
  PROVE  Rate * WaitTicks(missing) >= missing
<1> DEFINE q == (missing + Rate - 1) \div Rate
<1>1. Rate \in Nat \ {0} /\ MaxWait \in Nat \ {0}
  BY PacerAssumption
<1>2. q \in Nat /\ missing + Rate - 1 < Rate * q + Rate
  BY <1>1
<1>3. Rate * q >= missing
  BY <1>1, <1>2
<1>4. WaitTicks(missing) >= q
  BY <1>1, <1>2 DEF WaitTicks, Larger, Smaller
<1>5. WaitTicks(missing) \in Nat
  BY <1>1, <1>2 DEF WaitTicks, Larger, Smaller
<1>6. Rate * WaitTicks(missing) >= Rate * q
  BY <1>1, <1>2, <1>4, <1>5
<1> QED BY <1>1, <1>2, <1>3, <1>5, <1>6

\* Every wait is at least one tick and at most MaxWait.
LEMMA WaitInBounds ==
  ASSUME NEW missing \in Nat
  PROVE  WaitTicks(missing) \in 1 .. MaxWait
<1>1. Rate \in Nat \ {0} /\ MaxWait \in Nat \ {0}
  BY PacerAssumption
<1>2. (missing + Rate - 1) \div Rate \in Nat
  BY <1>1
<1> QED BY <1>1, <1>2 DEF WaitTicks, Larger, Smaller

\* Sizes are what they should be.
LEMMA Sizes ==
  /\ Rate \in Nat \ {0}
  /\ LargestWire \in Nat
  /\ Brim \in Nat \ {0}
  /\ MaxWait \in Nat \ {0}
  /\ MaxElapsed \in Nat
  /\ Burst \in Nat
  /\ Burst <= Brim
  /\ \A packet \in WireBytes :
       /\ packet \in Nat \ {0}
       /\ packet <= LargestWire
       /\ Capacity(packet) \in Nat
       /\ packet <= Capacity(packet)
       /\ Capacity(packet) <= Brim
       /\ Target(packet) \in Nat
       /\ packet <= Target(packet)
BY PacerAssumption DEF Brim, Larger, Capacity, Target

\* A product of a rate and a time.
LEMMA RateTimes == \A n \in Nat : Rate * n \in Nat /\ Rate * (n + 1) = Rate * n + Rate
BY PacerAssumption

\* A refill adds no more than the time since the last one is worth, and fills
\* the bucket to the brim at most.
LEMMA RefillBounds ==
  ASSUME TypeOK, NEW packet \in WireBytes
  PROVE  /\ Refilled(packet) \in Nat
         /\ Refilled(packet) <= Smaller(Brim, tokens + Rate * elapsed)
         /\ Refilled(packet) <= Brim
<1>1. tokens \in Nat /\ tokens <= Brim /\ elapsed \in Nat
  BY Sizes DEF TypeOK
<1>2. Rate * elapsed \in Nat /\ (elapsed = 0 => Rate * elapsed = 0)
  BY <1>1, RateTimes, Sizes
<1> DEFINE gain == Rate * elapsed
<1>3. gain \in Nat /\ (elapsed = 0 => gain = 0)
  BY <1>2
<1>4. /\ (IF elapsed = 0 THEN tokens ELSE Smaller(Capacity(packet), tokens + gain)) \in Nat
      /\ (IF elapsed = 0 THEN tokens ELSE Smaller(Capacity(packet), tokens + gain))
           <= Smaller(Brim, tokens + gain)
      /\ (IF elapsed = 0 THEN tokens ELSE Smaller(Capacity(packet), tokens + gain)) <= Brim
  <2> HIDE DEF gain
  <2> QED BY <1>1, <1>3, Sizes DEF Smaller
<1> QED BY <1>4 DEF Refilled

-----------------------------------------------------------------------------
\* Reading the clock, refilling, and paying or waiting again keep the invariant.
LEMMA PayOrWaitKeeps ==
  ASSUME IInv, NEW packet \in WireBytes, pacer_pc # "granted",
         PayOrWait(packet), surplus' = surplus
  PROVE  IInv'
<1> DEFINE r == Refilled(packet)
           credit == Smaller(Brim, tokens + Rate * elapsed)
<1>1. r \in Nat /\ r <= credit /\ r <= Brim
  <2>1. TypeOK
    BY DEF IInv
  <2> QED BY <2>1, RefillBounds
<1>2. credit \in Nat /\ surplus \in Nat /\ credit + surplus <= Brim + LargestWire
  <2>1. tokens \in Nat /\ elapsed \in Nat /\ surplus \in Nat
    BY Sizes DEF IInv, TypeOK
  <2>2. Rate * elapsed \in Nat
    BY <2>1, RateTimes
  <2>3. credit \in Nat
    BY <2>1, <2>2, Sizes DEF Smaller
  <2>4. credit + Granted + surplus <= Brim + LargestWire
    BY DEF IInv, Account
  <2>5. Granted = 0
    BY DEF Granted
  <2> HIDE DEF credit
  <2> QED BY <2>1, <2>3, <2>4, <2>5, Sizes
<1> HIDE DEF r, credit
<1>3. elapsed' = 0 /\ wire_bytes' = packet /\ Rate * elapsed' = 0
  BY Sizes DEF PayOrWait
<1>4. packet # 0 /\ packet \in Nat /\ packet <= LargestWire
  BY Sizes
<1>5. CASE r < packet
  <2> DEFINE missing == Target(packet) - r
             wait == WaitTicks(missing)
  <2>1. missing \in Nat /\ missing > 0
    BY <1>1, <1>5, Sizes
  <2> HIDE DEF missing
  <2>2. wait \in 1 .. MaxWait
    BY <2>1, WaitInBounds
  <2>3. wait < MaxWait => Rate * wait >= missing
    BY <2>1, WaitIsLongEnough
  <2> HIDE DEF wait
  <2>4. tokens' = r /\ left' = wait /\ pacer_pc' \in {"sleep", "spin"}
    BY <1>5 DEF PayOrWait, r, missing, wait
  <2>5. TypeOK'
    BY <1>1, <1>2, <1>3, <1>4, <2>2, <2>4, Sizes DEF TypeOK
  <2>6. Account'
    <3>1. Granted' = 0
      BY <2>4 DEF Granted
    <3>2. Smaller(Brim, tokens + Rate * elapsed)' = r
      BY <1>1, <1>3, <2>4, Sizes DEF Smaller
    <3> QED BY <1>1, <1>2, <3>1, <3>2, Sizes DEF Account
  <2>7. WaitShape'
    BY <1>3, <2>2, <2>4, Sizes DEF WaitShape
  <2>8. OneWaitSuffices'
    <3>1. elapsed' + left' = wait
      BY <1>3, <2>2, <2>4, Sizes
    <3>2. wait < MaxWait => r + Rate * wait >= packet
      <4>1. missing = Target(packet) - r /\ Target(packet) \in Nat /\ packet <= Target(packet)
        BY Sizes DEF missing
      <4>2. Rate * wait \in Nat
        BY <2>2, RateTimes, Sizes
      <4> QED BY <1>1, <1>4, <2>3, <4>1, <4>2
    <3> QED BY <1>3, <2>4, <3>1, <3>2 DEF OneWaitSuffices
  <2> QED BY <2>5, <2>6, <2>7, <2>8 DEF IInv
<1>6. CASE ~(r < packet)
  <2>1. tokens' = r - packet /\ left' = 0 /\ pacer_pc' = "granted"
    BY <1>6 DEF PayOrWait, r
  <2>2. TypeOK'
    BY <1>1, <1>2, <1>3, <1>4, <1>6, <2>1, Sizes DEF TypeOK
  <2>3. Account'
    <3>1. Granted' = packet
      BY <1>3, <2>1 DEF Granted
    <3>2. Smaller(Brim, tokens + Rate * elapsed)' = r - packet
      BY <1>1, <1>3, <1>4, <1>6, <2>1, Sizes DEF Smaller
    <3> QED BY <1>1, <1>2, <1>4, <3>1, <3>2, Sizes DEF Account
  <2>4. WaitShape' /\ OneWaitSuffices'
    BY <2>1 DEF WaitShape, OneWaitSuffices
  <2> QED BY <2>2, <2>3, <2>4 DEF IInv
<1> QED BY <1>5, <1>6

\* A tick keeps the invariant: what the bucket gains, the account of the past
\* loses.
LEMMA TickKeeps == ASSUME IInv, Tick PROVE IInv'
<1> DEFINE gain == Rate * elapsed
<1>1. elapsed \in Nat /\ tokens \in Nat /\ surplus \in Nat /\ wire_bytes \in Nat
      /\ wire_bytes <= LargestWire /\ left \in Int
  BY Sizes DEF IInv, TypeOK
<1>2. gain \in Nat /\ Rate * elapsed' = gain + Rate
  BY <1>1, RateTimes DEF Tick
<1>3. TypeOK'
  <2>1. left' \in -MaxElapsed .. MaxWait
    BY <1>1, Sizes DEF IInv, TypeOK, WaitShape, Tick
  <2>2. surplus' \in Nat /\ elapsed' \in 0 .. MaxElapsed
    BY <1>1, Sizes DEF Tick, Larger, IInv, TypeOK
  <2> QED BY <2>1, <2>2 DEF IInv, TypeOK, Tick
<1>4. Account'
  <2> HIDE DEF gain
  <2>1. Smaller(Brim, tokens + gain) + Granted + surplus <= Brim + LargestWire
    BY DEF IInv, Account, gain
  <2>2. Granted' = Granted /\ Granted \in Nat /\ Granted <= LargestWire
    BY <1>1, Sizes DEF Granted, Tick
  <2>3. surplus' = (IF 0 < surplus - Rate THEN surplus - Rate ELSE 0)
    BY DEF Tick, Larger
  <2>4. Smaller(Brim, tokens + Rate * elapsed)' = Smaller(Brim, tokens + gain + Rate)
    BY <1>1, <1>2, Sizes DEF Tick, Smaller
  <2>5. Smaller(Brim, tokens + gain + Rate) + Granted + surplus' <= Brim + LargestWire
    BY <1>1, <1>2, <2>1, <2>2, <2>3, Sizes DEF Smaller
  <2> QED BY <2>2, <2>4, <2>5 DEF Account
<1>5. WaitShape'
  BY <1>1, Sizes DEF IInv, WaitShape, Tick
<1>6. OneWaitSuffices'
  <2>1. pacer_pc' \in {"sleep", "spin"} => elapsed' + left' = elapsed + left
    BY <1>1 DEF Tick
  <2> QED BY <2>1 DEF IInv, OneWaitSuffices, Tick
<1> QED BY <1>3, <1>4, <1>5, <1>6 DEF IInv

\* Every step keeps the invariant.
LEMMA NextKeeps == ASSUME IInv, [Next]_vars PROVE IInv'
<1>1. ASSUME NEW packet \in WireBytes, wait_for_slot(packet) PROVE IInv'
  BY <1>1, PayOrWaitKeeps DEF wait_for_slot
<1>2. CASE Wakes
  <2>1. wire_bytes \in WireBytes /\ pacer_pc # "granted"
    BY <1>2 DEF Wakes, IInv, TypeOK
  <2> QED BY <1>2, <2>1, PayOrWaitKeeps DEF Wakes
<1>3. CASE EntersSpin
  BY <1>3 DEF EntersSpin, IInv, TypeOK, Account, Granted, WaitShape, OneWaitSuffices
<1>4. CASE SendsPacket
  <2>1. TypeOK'
    BY <1>4, Sizes DEF SendsPacket, IInv, TypeOK
  <2>2. Account'
    <3>1. Granted = wire_bytes /\ Granted' = 0 /\ surplus' = surplus + wire_bytes
      BY <1>4 DEF SendsPacket, Granted
    <3>2. Smaller(Brim, tokens + Rate * elapsed) \in Nat
      BY Sizes, RateTimes DEF IInv, TypeOK, Smaller
    <3>3. Smaller(Brim, tokens + Rate * elapsed)' = Smaller(Brim, tokens + Rate * elapsed)
      BY <1>4 DEF SendsPacket
    <3>4. surplus \in Nat /\ wire_bytes \in Nat
      BY Sizes DEF IInv, TypeOK
    <3> QED BY <3>1, <3>2, <3>3, <3>4, Sizes DEF IInv, Account
  <2> QED BY <1>4, <2>1, <2>2 DEF SendsPacket, IInv, WaitShape, OneWaitSuffices
<1>5. CASE reset
  <2>1. Rate * elapsed' = 0 /\ Granted' = 0 /\ tokens' = Burst /\ surplus' = 0
    BY <1>5, Sizes DEF reset, Granted
  <2>2. Account'
    BY <2>1, Sizes DEF Account, Smaller
  <2>3. TypeOK'
    BY <1>5, Sizes DEF reset, IInv, TypeOK
  <2> QED BY <1>5, <2>2, <2>3 DEF reset, IInv, WaitShape, OneWaitSuffices
<1>6. CASE Tick
  BY <1>6, TickKeeps
<1>7. CASE UNCHANGED vars
  BY <1>7 DEF vars, IInv, TypeOK, Account, Granted, WaitShape, OneWaitSuffices
<1> QED BY <1>1, <1>2, <1>3, <1>4, <1>5, <1>6, <1>7 DEF Next

\* The invariant holds at first and always.
THEOREM InvariantHolds == Spec => []IInv
<1>1. Init => IInv
  BY Sizes DEF Init, IInv, TypeOK, Account, Granted, WaitShape, OneWaitSuffices, Smaller
<1>2. IInv /\ [Next]_vars => IInv'
  BY NextKeeps
<1> QED BY <1>1, <1>2, PTL DEF Spec

\* The bucket never holds more than a burst or one packet, and never a debt.
THEOREM PacerTypeCorrect == Spec => []TypeOK
<1>1. IInv => TypeOK
  BY DEF IInv
<1> QED BY <1>1, InvariantHolds, PTL

\* No interval carries more than its share and one full bucket and one packet.
THEOREM RateIsRespected == Spec => []RateRespected
<1>1. IInv => RateRespected
  <2>1. ASSUME IInv PROVE RateRespected
    <3>1. Smaller(Brim, tokens + Rate * elapsed) \in Nat
      BY <2>1, Sizes, RateTimes DEF IInv, TypeOK, Smaller
    <3>2. Granted \in Nat /\ surplus \in Nat
      BY <2>1, Sizes DEF IInv, TypeOK, Granted
    <3> QED BY <2>1, <3>1, <3>2, Sizes DEF IInv, Account, RateRespected
  <2> QED BY <2>1
<1> QED BY <1>1, InvariantHolds, PTL

\* Only a wait that was cut short is followed by another one for its packet.
THEOREM OneWaitIsEnough == Spec => []OneWaitSuffices
<1>1. IInv => OneWaitSuffices
  BY DEF IInv
<1> QED BY <1>1, InvariantHolds, PTL

-----------------------------------------------------------------------------
(* Oversleep. *)

\* A wait was not set longer than its target asks for, but for the rounding.
CreditShape ==
  pacer_pc \in {"sleep", "spin"} =>
    tokens + Rate * (elapsed + left) < Target(wire_bytes) + Rate

\* A wait rounded up to whole ticks brings less than one tick too much.
LEMMA WaitIsNotTooLong ==
  ASSUME NEW missing \in Nat, missing > 0
  PROVE  Rate * WaitTicks(missing) < missing + Rate
<1> DEFINE q == (missing + Rate - 1) \div Rate
<1>1. Rate \in Nat \ {0} /\ MaxWait \in Nat \ {0}
  BY PacerAssumption
<1>2. q \in Nat /\ Rate * q \in Nat /\ Rate * q <= missing + Rate - 1
      /\ missing + Rate - 1 < Rate * q + Rate
  BY <1>1
<1>3. q # 0
  BY <1>1, <1>2
<1>4. WaitTicks(missing) \in Nat /\ WaitTicks(missing) <= q
  BY <1>1, <1>2, <1>3 DEF WaitTicks, Larger, Smaller
<1>5. Rate * WaitTicks(missing) <= Rate * q
  BY <1>1, <1>2, <1>4
<1>6. Rate * WaitTicks(missing) \in Nat
  BY <1>1, <1>4
<1> QED BY <1>1, <1>2, <1>5, <1>6

LEMMA PayOrWaitCredit ==
  ASSUME IInv, NEW packet \in WireBytes, PayOrWait(packet)
  PROVE  CreditShape'
<1> DEFINE r == Refilled(packet)
<1>1. r \in Nat
  BY RefillBounds DEF IInv
<1> HIDE DEF r
<1>2. elapsed' = 0 /\ wire_bytes' = packet
  BY DEF PayOrWait
<1>3. CASE r < packet
  <2> DEFINE missing == Target(packet) - r
             wait == WaitTicks(missing)
  <2>1. missing \in Nat /\ missing > 0 /\ Target(packet) \in Nat
    BY <1>1, <1>3, Sizes
  <2>2. missing = Target(packet) - r
    OBVIOUS
  <2> HIDE DEF missing
  <2>3. wait \in Nat /\ Rate * wait < missing + Rate
    BY <2>1, WaitInBounds, WaitIsNotTooLong, Sizes
  <2> HIDE DEF wait
  <2>4. tokens' = r /\ left' = wait
    BY <1>3 DEF PayOrWait, r, missing, wait
  <2>5. elapsed' + left' = wait
    BY <1>2, <2>3, <2>4
  <2>6. Rate * wait \in Nat
    BY <2>3, RateTimes
  <2>7. r + Rate * wait < Target(packet) + Rate
    BY <1>1, <2>1, <2>2, <2>3, <2>6, Sizes
  <2> QED BY <1>2, <2>4, <2>5, <2>7 DEF CreditShape, Target, Capacity, Larger
<1>4. CASE ~(r < packet)
  BY <1>4 DEF PayOrWait, r, CreditShape
<1> QED BY <1>3, <1>4

\* Every wait is as long as its target asks for, whatever comes between.
THEOREM WaitsMeetTheirTarget == Spec => [](IInv /\ CreditShape)
<1>1. Init => CreditShape
  BY DEF Init, CreditShape
<1>2. ASSUME IInv, CreditShape, [Next]_vars PROVE CreditShape'
  <2>1. ASSUME NEW packet \in WireBytes, wait_for_slot(packet) PROVE CreditShape'
    BY <1>2, <2>1, PayOrWaitCredit DEF wait_for_slot
  <2>2. CASE Wakes
    <3>1. wire_bytes \in WireBytes
      BY <1>2, <2>2 DEF Wakes, IInv, TypeOK
    <3> QED BY <1>2, <2>2, <3>1, PayOrWaitCredit DEF Wakes
  <2>3. CASE EntersSpin
    BY <1>2, <2>3 DEF EntersSpin, CreditShape, Target, Capacity, Larger
  <2>4. CASE SendsPacket
    BY <2>4 DEF SendsPacket, CreditShape
  <2>5. CASE reset
    BY <2>5 DEF reset, CreditShape
  <2>6. CASE Tick
    <3>1. elapsed \in Int /\ left \in Int
      BY <1>2, Sizes DEF IInv, TypeOK
    <3>2. pacer_pc' = pacer_pc /\ tokens' = tokens /\ wire_bytes' = wire_bytes
      BY <2>6 DEF Tick
    <3>3. pacer_pc \in {"sleep", "spin"} => elapsed' + left' = elapsed + left
      BY <2>6, <3>1 DEF Tick
    <3> QED BY <1>2, <3>2, <3>3 DEF CreditShape, Target, Capacity, Larger
  <2>7. CASE UNCHANGED vars
    BY <1>2, <2>7 DEF vars, CreditShape, Target, Capacity, Larger
  <2> QED BY <1>2, <2>1, <2>2, <2>3, <2>4, <2>5, <2>6, <2>7 DEF Next
<1> QED BY <1>1, <1>2, InvariantHolds, PTL DEF Spec

\* No credit of an ordinary oversleep is lost, for every rate and packet size.
THEOREM OversleepIsKept == Spec => OversleepIsCredited
<1> DEFINE A == /\ Wakes
                /\ wire_bytes * 3 <= Burst * 2
                /\ Rate * (1 - left) <= Burst \div 3
                => tokens' = tokens + Rate * elapsed
                               - (IF pacer_pc' = "granted" THEN wire_bytes ELSE 0)
<1>1. ASSUME IInv, CreditShape, Wakes, wire_bytes * 3 <= Burst * 2,
             Rate * (1 - left) <= Burst \div 3
      PROVE  tokens' = tokens + Rate * elapsed
                         - (IF pacer_pc' = "granted" THEN wire_bytes ELSE 0)
  <2> DEFINE p == wire_bytes
             gain == Rate * elapsed
             third == Burst \div 3
  <2>1. /\ p \in WireBytes /\ pacer_pc \in {"sleep", "spin"} /\ PayOrWait(p)
        /\ tokens \in Nat /\ elapsed \in Nat /\ left \in Int
    BY <1>1, Sizes DEF Wakes, IInv, TypeOK
  <2>2. third \in Nat /\ Burst = 3 * third
    BY PacerAssumption
  <2>3. p \in Nat /\ Rate \in Nat \ {0}
    BY <2>1, Sizes
  <2>4. gain \in Nat /\ (elapsed = 0 => gain = 0)
    BY <2>1, RateTimes, Sizes
  <2>5. Capacity(p) = Burst
    BY <1>1, <2>2, <2>3 DEF Capacity, Larger
  <2>6. Target(p) = 2 * third
    <3>1. (2 * Burst) \div 3 = 2 * third
      BY <2>2
    <3> QED BY <1>1, <2>2, <2>3, <2>5, <3>1 DEF Target, Larger
  <2>7. tokens + gain < 3 * third
    <3>1. tokens + Rate * (elapsed + left) < 2 * third + Rate
      BY <1>1, <2>1, <2>6 DEF CreditShape
    <3>2. Rate * (elapsed + left) = gain + Rate * left /\ Rate * (1 - left) = Rate - Rate * left
          /\ Rate * left \in Int
      BY <2>1, <2>3
    <3>3. Rate - Rate * left <= third
      BY <1>1, <3>2
    <3> HIDE DEF gain, third
    <3> QED BY <2>1, <2>2, <2>3, <2>4, <3>1, <3>2, <3>3
  <2>8. Refilled(p) = tokens + gain
    <3>1. (IF elapsed = 0 THEN tokens ELSE Smaller(Burst, tokens + gain)) = tokens + gain
      <4> HIDE DEF gain, third
      <4> QED BY <2>1, <2>2, <2>4, <2>7 DEF Smaller
    <3> QED BY <2>5, <3>1 DEF Refilled
  <2> HIDE DEF gain
  <2>9. CASE Refilled(p) < p
    <3>1. tokens' = Refilled(p) /\ pacer_pc' # "granted"
      BY <2>1, <2>9 DEF PayOrWait
    <3> QED BY <2>1, <2>4, <2>8, <3>1 DEF gain
  <2>10. CASE ~(Refilled(p) < p)
    <3>1. tokens' = Refilled(p) - p /\ pacer_pc' = "granted"
      BY <2>1, <2>10 DEF PayOrWait
    <3> QED BY <2>1, <2>3, <2>4, <2>8, <3>1 DEF gain
  <2> QED BY <2>9, <2>10
<1>2. IInv /\ CreditShape => [A]_vars
  BY <1>1
<1> QED BY <1>2, WaitsMeetTheirTarget, PTL DEF OversleepIsCredited
=============================================================================
