-------------------------------- MODULE Pacer --------------------------------
(***************************************************************************)
(* The token bucket of src/pacer.cpp and the one call the client makes of  *)
(* it, before every DATA packet.  pacer_pc is where the client is:         *)
(*                                                                         *)
(*   "idle"     outside wait_for_slot                                      *)
(*   "sleep"    in sleep_until                                             *)
(*   "spin"     in the busy loop that ends a large packet's wait           *)
(*   "granted"  wait_for_slot has returned, the packet is not yet sent     *)
(*                                                                         *)
(* Time is a number of clock ticks and Rate a number of bytes per tick, so *)
(* that every amount of tokens is a whole number of bytes.  Only time      *)
(* differences matter to the code: elapsed is now - last_refill_time_ and  *)
(* left is deadline - now, below zero once the deadline is over.  A tick   *)
(* may fall between any two steps: a sleep may end late, the busy loop be  *)
(* preempted, and a packet leave long after its slot was granted.          *)
(***************************************************************************)
EXTENDS Integers

CONSTANTS
  Rate,          \* bytes_per_nanosecond_, per tick
  Burst,         \* kBurstCapacityBytes (9015)
  WireBytes,     \* the sizes on the wire of the client's packets
  LargestWire,   \* the largest of them, the MTU
  MaxWait,       \* kMaximumWaitNanoseconds, in ticks
  SpinWindow,    \* kJumboSpinWindow, in ticks
  MaxElapsed     \* bound: ticks that pass between two readings of the clock

ASSUME PacerAssumption ==
  /\ Rate \in Nat \ {0}
  /\ Burst \in Nat \ {0}
  /\ Burst % 3 = 0
  /\ WireBytes \subseteq 1 .. LargestWire
  /\ LargestWire \in Nat
  /\ MaxWait \in Nat \ {0}
  /\ SpinWindow \in Nat
  /\ MaxElapsed \in Nat
  /\ MaxElapsed > MaxWait

VARIABLES
  pacer_pc,
  tokens,       \* tokens_bytes_
  elapsed,
  wire_bytes,   \* the packet that waits, or was granted; 0 when idle
  left,
  surplus       \* history: see RateRespected

vars == <<pacer_pc, tokens, elapsed, wire_bytes, left, surplus>>

Larger(a, b) == IF a < b THEN b ELSE a
Smaller(a, b) == IF a < b THEN a ELSE b

\* The most any call lets the bucket hold.
Brim == Larger(Burst, LargestWire)

Init ==
  /\ pacer_pc = "idle"
  /\ tokens = Burst
  /\ elapsed = 0
  /\ wire_bytes = 0
  /\ left = 0
  /\ surplus = 0

-----------------------------------------------------------------------------
(* The arithmetic of one call. *)

\* Mutant: a packet larger than the burst can never be paid for.
Capacity_NoJumbo(packet) == Burst

Capacity(packet) == Larger(Burst, packet)

\* Mutant: every wait fills the bucket to the brim.
Target_Full(packet) == Capacity(packet)

\* Two thirds of the capacity, if that pays for the packet.
Target(packet) == Larger(packet, (2 * Capacity(packet)) \div 3)

\* Mutant: unused time is saved up without limit.
Refilled_Unbounded(packet) == tokens + Rate * elapsed

\* tokens_bytes_ after refill(now, capacity_bytes).
Refilled(packet) ==
  IF elapsed = 0 THEN tokens ELSE Smaller(Capacity(packet), tokens + Rate * elapsed)

\* Mutant: the wait is as long as it takes.
WaitTicks_Unbounded(missing) == Larger(1, (missing + Rate - 1) \div Rate)

\* Mutant: the wait is rounded down.
WaitTicks_Floor(missing) == Larger(1, Smaller(missing \div Rate, MaxWait))

\* wait_duration: rounded up, at least one tick and at most MaxWait.
WaitTicks(missing) == Larger(1, Smaller((missing + Rate - 1) \div Rate, MaxWait))

\* single_packet_bucket: late wakeups cannot be made good by larger batches.
SinglePacketBucket(packet) == packet * 2 > Capacity(packet)

\* What follows a refill, in the loop and in front of it: the packet is paid
\* for, or the next deadline is set.
PayOrWait(packet) ==
  /\ elapsed' = 0
  /\ wire_bytes' = packet
  /\ IF Refilled(packet) < packet
     THEN LET wait == WaitTicks(Target(packet) - Refilled(packet))
          IN /\ tokens' = Refilled(packet)
             /\ left' = wait
             /\ pacer_pc' = IF SinglePacketBucket(packet) /\ wait <= SpinWindow
                            THEN "spin" ELSE "sleep"
     ELSE /\ tokens' = Refilled(packet) - packet
          /\ left' = 0
          /\ pacer_pc' = "granted"

-----------------------------------------------------------------------------
(* Actions. *)

wait_for_slot(packet) ==
  /\ pacer_pc = "idle"
  /\ PayOrWait(packet)
  /\ UNCHANGED surplus

\* sleep_until(deadline) returns, or the busy loop sees the deadline reached:
\* the clock is read, the bucket refilled and the loop's condition tested.
Wakes ==
  /\ \/ pacer_pc = "sleep" /\ ~SinglePacketBucket(wire_bytes)
     \/ pacer_pc = "spin"
  /\ left <= 0
  /\ PayOrWait(wire_bytes)
  /\ UNCHANGED surplus

\* sleep_until(deadline - kJumboSpinWindow) returns.
EntersSpin ==
  /\ pacer_pc = "sleep"
  /\ SinglePacketBucket(wire_bytes)
  /\ left <= SpinWindow
  /\ pacer_pc' = "spin"
  /\ UNCHANGED <<tokens, elapsed, wire_bytes, left, surplus>>

\* The client sends the packet whose slot it was granted.
SendsPacket ==
  /\ pacer_pc = "granted"
  /\ surplus' = surplus + wire_bytes
  /\ pacer_pc' = "idle"
  /\ wire_bytes' = 0
  /\ UNCHANGED <<tokens, elapsed, left>>

\* Pacer::reset, which nothing in the repository calls: the account starts
\* anew.
reset ==
  /\ pacer_pc = "idle"
  /\ tokens' = Burst
  /\ elapsed' = 0
  /\ surplus' = 0
  /\ UNCHANGED <<pacer_pc, wire_bytes, left>>

\* The steady clock advances.
Tick ==
  /\ elapsed < MaxElapsed
  /\ elapsed' = elapsed + 1
  /\ left' = IF pacer_pc \in {"sleep", "spin"} THEN left - 1 ELSE left
  /\ surplus' = Larger(0, surplus - Rate)
  /\ UNCHANGED <<pacer_pc, tokens, wire_bytes>>

Next ==
  \/ \E packet \in WireBytes : wait_for_slot(packet)
  \/ Wakes
  \/ EntersSpin
  \/ SendsPacket
  \/ reset
  \/ Tick

Spec == Init /\ [][Next]_vars

\* The clock runs, and a sleep or busy loop whose time is over ends.
FairSpec == Spec /\ WF_vars(Tick) /\ WF_vars(Wakes) /\ WF_vars(EntersSpin)

-----------------------------------------------------------------------------
(* Properties. *)

\* The bucket never holds more than a burst or one packet, whichever is larger,
\* and never a debt; waits are within their bounds.
TypeOK ==
  /\ pacer_pc \in {"idle", "sleep", "spin", "granted"}
  /\ tokens \in 0 .. Brim
  /\ elapsed \in 0 .. MaxElapsed
  /\ wire_bytes \in WireBytes \cup {0}
  /\ wire_bytes = 0 <=> pacer_pc = "idle"
  /\ left \in -MaxElapsed .. MaxWait
  /\ surplus \in Nat

\* surplus is the most by which the bytes sent during any interval that ends
\* now exceed Rate times its length: a tick lowers it for all intervals that
\* have begun, and a new one begins at every instant.  So on the wire no
\* interval, of whatever length, carries more than Rate times its length plus
\* one full bucket and one packet (pacer.cpp:31-41, 78 with client.cpp:562-569).
\* The packet is for a slot that was granted before the interval began and used
\* in it.
RateRespected == surplus <= Brim + LargestWire

\* A wait that was not cut short at MaxWait is the last one for its packet: when
\* the deadline comes the tokens pay for the packet (pacer.cpp:55-61, rounding).
OneWaitSuffices ==
  pacer_pc \in {"sleep", "spin"} /\ elapsed + left < MaxWait
    => tokens + Rate * (elapsed + left) >= wire_bytes

\* The wait for a packet of up to two thirds of a burst may end late by what a
\* third of a burst takes (less the tick of rounding) and lose no credit: all the
\* time since the last refill is turned into tokens.  The comment at pacer.cpp:52
\* says so: "leaving room to retain ordinary VM oversleep credit".
OversleepIsCredited ==
  [][ /\ Wakes
      /\ wire_bytes * 3 <= Burst * 2
      /\ Rate * (1 - left) <= Burst \div 3
      => tokens' = tokens + Rate * elapsed
                     - (IF pacer_pc' = "granted" THEN wire_bytes ELSE 0) ]_vars

\* Every wait ends, also for a packet larger than the burst and when waits are
\* cut short: the client's data loop gets to send what it has selected.
EveryWaitEnds == pacer_pc \in {"sleep", "spin"} ~> pacer_pc = "granted"
=============================================================================
