---------------------------- MODULE ClosingProofs ----------------------------
(***************************************************************************)
(* The end of a transfer, for every number of attempts, time-out, length   *)
(* of TIME_WAIT and delay that module Closing allows, and any number of    *)
(* lost and duplicated datagrams.  Both properties compare the datagrams   *)
(* that were lost with the rounds that went unanswered: every COMPLETE of  *)
(* a client that still waits is lost, on its way, in the socket, or was    *)
(* answered, and every answer is lost or on its way.                       *)
(***************************************************************************)
EXTENDS Closing, TLAPS

-----------------------------------------------------------------------------
(* The inductive invariant. *)

StateOK ==
  /\ client_pc \in {"send", "wait", "done", "failed"}
  /\ attempt \in Nat
  /\ waited \in 0 .. ControlTimeout
  /\ server_pc \in {"data", "sync", "timewait", "exited", "failed"}
  /\ socket \in Nat
  /\ remaining \in 0 .. TimeWait
  /\ to_server \in [Ages -> Nat]
  /\ to_client \in [Ages -> Nat]
  /\ losses \in Nat
  /\ copies \in Nat
  /\ slow \in BOOLEAN

\* The client still tries.
Waiting == client_pc \in {"send", "wait"}

\* A time-out is longer than any delay, so all COMPLETEs on their way are
\* copies of the last one that was sent.
ClientShape ==
  Waiting => /\ attempt < ControlAttempts
             /\ client_pc = "send" => waited = 0
             /\ \A a \in Ages : to_server[a] > 0 => client_pc = "wait" /\ a = waited

\* COMPLETEs sent, and whether the last one is on its way.
Asked == IF client_pc = "wait" THEN attempt + 1 ELSE attempt
OnTheWay == IF \E a \in Ages : to_server[a] > 0 THEN 1 ELSE 0

\* Before the server has answered, each COMPLETE is lost, on its way, in the
\* socket or the one that started the flush.
FirstShape ==
  /\ server_pc \in {"data", "sync"} =>
       client_pc # "done" /\ \A a \in Ages : to_client[a] = 0
  /\ server_pc = "data" /\ Waiting =>
       /\ Asked <= losses + socket + OnTheWay
       /\ socket > 0 => waited <= MaxDelay
  /\ server_pc = "sync" /\ Waiting => Asked <= losses + socket + OnTheWay + 1

\* Since the last answer of time_wait: that answer, and every round of the
\* client that began later, are on their way or lost.
Elapsed == TimeWait - remaining
AnswerGone == IF Elapsed \in Ages /\ to_client[Elapsed] > 0 THEN 0 ELSE 1
RoundGone == IF client_pc = "wait" /\ socket = 0 /\ OnTheWay = 0 THEN 1 ELSE 0

QuietShape ==
  server_pc = "timewait" /\ Waiting =>
    /\ socket > 0 /\ Elapsed > 0 => waited <= MaxDelay
    /\ losses >= AnswerGone
    /\ \A m \in 0 .. TimeWait :
         m * ControlTimeout + waited < Elapsed => losses >= m + RoundGone + AnswerGone

\* Since the end of the flush: in its instant, the backlog of the socket is
\* answered.
Burst ==
  /\ Asked <= losses + socket + to_client[0] + OnTheWay
  /\ \A z \in Ages \ {0} : to_client[z] = 0
  /\ attempt + 1 = ControlAttempts => waited + MaxDelay < ControlTimeout

\* Later, the answers to the backlog have the age y, until they are gone; and
\* of all other answers one is for the round before and one for this round.
Backlog(y) == IF y \in Ages THEN to_client[y] ELSE 0
Earlier(y) == IF \E z \in Ages \ {y} : z > waited /\ to_client[z] > 0 THEN 1 ELSE 0
Current(y) ==
  IF /\ client_pc = "wait"
     /\ \/ socket > 0
        \/ OnTheWay = 1
        \/ \E z \in Ages \ {y} : z <= waited /\ to_client[z] > 0
  THEN 1 ELSE 0

Spread(y) ==
  /\ Asked <= losses + Backlog(y) + Earlier(y) + Current(y)
  /\ socket > 0 => waited <= MaxDelay
  /\ \A z \in Ages \ {y} : to_client[z] > 0 /\ z <= waited => waited - z <= MaxDelay
  /\ y \in Ages /\ attempt + 1 = ControlAttempts => waited + MaxDelay < ControlTimeout + y

BacklogShape ==
  server_pc = "timewait" /\ Waiting /\ ~slow =>
    Burst \/ \E y \in 1 .. MaxDelay + 1 : Spread(y)

CInv ==
  /\ StateOK /\ ClientShape /\ FirstShape /\ QuietShape /\ BacklogShape
  /\ ServerOutlivesClient /\ FailureIsExplained

-----------------------------------------------------------------------------
(* Constants and channels. *)

LEMMA Consts ==
  /\ ControlAttempts \in Nat \ {0} /\ ControlTimeout \in Nat \ {0} /\ TimeWait \in Nat \ {0}
  /\ MaxDelay \in Nat /\ MaxDelay < ControlTimeout
  /\ TimeWait < ControlAttempts * ControlTimeout
BY ClosingAssumption

\* A larger factor, a larger product.
LEMMA ProductOrder ==
  ASSUME NEW a \in Nat, NEW b \in Nat, NEW c \in Nat, a <= b
  PROVE  a * c \in Nat /\ b * c \in Nat /\ a * c <= b * c
<1>1. PICK d \in Nat : b = a + d
  <2> WITNESS b - a \in Nat
  <2> QED OBVIOUS
<1>2. b * c = a * c + d * c
  BY <1>1
<1>3. a * c \in Nat /\ d * c \in Nat
  BY <1>1
<1> QED
  BY <1>2, <1>3

\* SureRounds time-outs fit into TIME_WAIT, and they are fewer than the attempts.
LEMMA RoundsFacts ==
  /\ SureRounds \in Nat
  /\ SureRounds * ControlTimeout \in Nat
  /\ SureRounds * ControlTimeout <= TimeWait
  /\ TimeWait < SureRounds * ControlTimeout + ControlTimeout
  /\ SureRounds < ControlAttempts
  /\ SureRounds <= TimeWait
<1>1. /\ SureRounds \in Nat /\ TimeWait % ControlTimeout \in 0 .. ControlTimeout - 1
      /\ TimeWait = SureRounds * ControlTimeout + (TimeWait % ControlTimeout)
  BY Consts DEF SureRounds
<1>2. SureRounds * ControlTimeout \in Nat
  BY <1>1, Consts
<1>3. SureRounds * ControlTimeout <= TimeWait /\ TimeWait < SureRounds * ControlTimeout + ControlTimeout
  BY <1>1, <1>2, Consts
<1>4. ASSUME SureRounds >= ControlAttempts PROVE FALSE
  BY <1>1, <1>3, <1>4, Consts, ProductOrder
<1>5. SureRounds <= SureRounds * ControlTimeout
  <2>1. SureRounds * 1 <= SureRounds * ControlTimeout
    BY <1>1, Consts
  <2> QED
    BY <1>1, <2>1
<1> QED
  BY <1>1, <1>2, <1>3, <1>4, <1>5, Consts

LEMMA AddFacts ==
  ASSUME NEW channel \in [Ages -> Nat], NEW a \in Ages
  PROVE  /\ Add(channel, a) \in [Ages -> Nat]
         /\ Add(channel, a)[a] = channel[a] + 1
         /\ \A z \in Ages \ {a} : Add(channel, a)[z] = channel[z]
BY DEF Add

LEMMA RemoveFacts ==
  ASSUME NEW channel \in [Ages -> Nat], NEW a \in Ages, channel[a] > 0
  PROVE  /\ Remove(channel, a) \in [Ages -> Nat]
         /\ Remove(channel, a)[a] = channel[a] - 1
         /\ \A z \in Ages \ {a} : Remove(channel, a)[z] = channel[z]
BY DEF Remove

LEMMA OlderFacts ==
  ASSUME NEW channel \in [Ages -> Nat]
  PROVE  /\ Older(channel) \in [Ages -> Nat]
         /\ Older(channel)[0] = 0
         /\ \A z \in Ages : z > 0 => z - 1 \in Ages /\ Older(channel)[z] = channel[z - 1]
BY Consts DEF Older, Ages

LEMMA AgeFacts == 0 \in Ages /\ MaxDelay \in Ages /\ \A a \in Ages : a \in Nat /\ a <= MaxDelay
BY Consts DEF Ages

\* The numbers of the invariant.
LEMMA Flags ==
  /\ OnTheWay \in 0 .. 1 /\ AnswerGone \in 0 .. 1 /\ RoundGone \in 0 .. 1
  /\ \A y : Earlier(y) \in 0 .. 1 /\ Current(y) \in 0 .. 1
BY DEF OnTheWay, AnswerGone, RoundGone, Earlier, Current

-----------------------------------------------------------------------------
(* Every step keeps the invariant. *)

LEMMA InitCInv == Init => CInv
<1> SUFFICES ASSUME Init PROVE CInv
  OBVIOUS
<1>1. /\ Empty \in [Ages -> Nat] /\ \A a \in Ages : Empty[a] = 0
  BY DEF Empty
<1>2. StateOK
  <2>1. waited \in 0 .. ControlTimeout /\ remaining \in 0 .. TimeWait
    BY Consts DEF Init
  <2> QED
    BY <1>1, <2>1 DEF Init, StateOK
<1>3. ClientShape
  BY <1>1, Consts DEF Init, ClientShape
<1>4. FirstShape
  BY <1>1, Consts DEF Init, FirstShape, Asked, OnTheWay
<1> QED
  BY <1>2, <1>3, <1>4
     DEF Init, CInv, QuietShape, BacklogShape, ServerOutlivesClient, FailureIsExplained

LEMMA SendCompleteKeepsCInv == ASSUME CInv, SendComplete PROVE CInv'
<1>1. /\ client_pc = "send" /\ client_pc' = "wait"
      /\ to_server' = Add(to_server, 0)
      /\ UNCHANGED <<attempt, waited, server_pc, socket, remaining, to_client, losses, copies, slow>>
  BY DEF SendComplete, serverVars
<1>2. StateOK /\ waited = 0 /\ attempt < ControlAttempts
      /\ \A a \in Ages : ~(to_server[a] > 0)
  BY <1>1 DEF CInv, ClientShape, Waiting
<1>3. /\ to_server' \in [Ages -> Nat] /\ to_server'[0] = to_server[0] + 1
      /\ \A a \in Ages \ {0} : to_server'[a] = to_server[a]
  BY <1>1, <1>2, AddFacts, AgeFacts DEF StateOK
<1>4. to_server'[0] > 0 /\ \A a \in Ages : to_server'[a] > 0 => a = 0
  BY <1>2, <1>3, AgeFacts DEF StateOK
<1>5. OnTheWay = 0 /\ OnTheWay' = 1 /\ Asked = attempt /\ Asked' = attempt + 1
  BY <1>1, <1>2, <1>4, AgeFacts DEF OnTheWay, Asked
<1>6. StateOK'
  BY <1>1, <1>2, <1>3 DEF StateOK
<1>7. ClientShape'
  BY <1>1, <1>2, <1>4 DEF ClientShape
<1>8. FirstShape'
  BY <1>1, <1>2, <1>5 DEF CInv, FirstShape, Waiting, StateOK
<1>9. QuietShape'
  <2>1. AnswerGone' = AnswerGone /\ RoundGone' = 0 /\ RoundGone = 0 /\ Elapsed' = Elapsed
    BY <1>1, <1>5 DEF AnswerGone, RoundGone, Elapsed
  <2> QED
    BY <1>1, <2>1 DEF CInv, QuietShape, Waiting
<1>10. BacklogShape'
  <2> SUFFICES ASSUME server_pc = "timewait", ~slow PROVE BacklogShape'
    BY <1>1 DEF BacklogShape
  <2>1. ASSUME Burst PROVE Burst'
    BY <1>1, <1>2, <1>5, <2>1, AgeFacts DEF Burst, StateOK
  <2>2. ASSUME NEW y \in 1 .. MaxDelay + 1, Spread(y) PROVE Spread(y)'
    <3>1. /\ Backlog(y)' = Backlog(y) /\ Backlog(y) \in Nat /\ Earlier(y)' = Earlier(y)
          /\ Current(y) = 0 /\ Current(y)' = 1
      BY <1>1, <1>2, <1>5 DEF Backlog, Earlier, Current, StateOK
    <3>2. Asked' <= losses' + Backlog(y)' + Earlier(y)' + Current(y)'
      BY <1>1, <1>2, <1>5, <2>2, <3>1, Flags DEF Spread, StateOK
    <3> QED
      BY <1>1, <2>2, <3>2 DEF Spread
  <2> QED
    BY <1>1, <2>1, <2>2 DEF CInv, BacklogShape, Waiting
<1>11. ServerOutlivesClient' /\ FailureIsExplained'
  BY <1>1 DEF CInv, ServerOutlivesClient, FailureIsExplained
<1> QED
  BY <1>6, <1>7, <1>8, <1>9, <1>10, <1>11 DEF CInv

\* Nothing is on its way to the server at a time-out.
LEMMA TimeoutFacts ==
  ASSUME CInv, client_pc = "wait", waited = ControlTimeout
  PROVE  /\ \A a \in Ages : ~(to_server[a] > 0)
         /\ OnTheWay = 0
         /\ server_pc = "data" => socket = 0
<1>1. StateOK /\ \A a \in Ages : to_server[a] > 0 => a = waited
  BY DEF CInv, ClientShape, Waiting
<1>2. \A a \in Ages : ~(to_server[a] > 0)
  BY <1>1, Consts, AgeFacts
<1>3. ~(waited <= MaxDelay)
  BY Consts
<1>4. server_pc = "data" => ~(socket > 0)
  BY <1>3 DEF CInv, FirstShape, Waiting
<1>5. server_pc = "data" => socket = 0
  BY <1>1, <1>4 DEF StateOK
<1> QED
  BY <1>2, <1>5 DEF OnTheWay

\* The last attempt of a client is over although no flush was slow: all but one
\* of its COMPLETEs, or SureRounds datagrams, were lost.
LEMMA LastTimeoutFacts ==
  ASSUME CInv, client_pc = "wait", waited = ControlTimeout, attempt + 1 >= ControlAttempts
  PROVE  losses >= SureRounds \/ server_pc \in {"sync", "failed"} \/ slow
<1>0. StateOK /\ attempt + 1 = ControlAttempts
  BY Consts DEF CInv, ClientShape, Waiting, StateOK
<1>1. OnTheWay = 0 /\ (server_pc = "data" => socket = 0)
  BY TimeoutFacts
<1>2. Asked = attempt + 1
  BY DEF Asked
<1>3. CASE server_pc = "data"
  <2>1. Asked <= losses + socket + OnTheWay
    BY <1>3 DEF CInv, FirstShape, Waiting
  <2>2. losses >= SureRounds
    BY <1>0, <1>1, <1>2, <1>3, <2>1, RoundsFacts DEF StateOK
  <2> QED
    BY <2>2
<1>4. CASE server_pc = "timewait" /\ ~slow
  <2>1. ASSUME Burst PROVE FALSE
    <3>1. waited + MaxDelay < ControlTimeout
      BY <1>0, <2>1 DEF Burst
    <3> QED
      BY <3>1, Consts
  <2>2. ASSUME NEW y \in 1 .. MaxDelay + 1, Spread(y) PROVE losses >= SureRounds
    <3>1. ~(waited + MaxDelay < ControlTimeout + y) \/ y \notin Ages
      BY <2>2, Consts, AgeFacts
    <3>2. Backlog(y) = 0
      BY <1>0, <2>2, <3>1 DEF Spread, Backlog
    <3>3. Earlier(y) = 0
      BY Consts, AgeFacts DEF Earlier
    <3>4. Asked <= losses + 0 + 0 + Current(y)
      BY <2>2, <3>2, <3>3 DEF Spread
    <3>5. Current(y) \in 0 .. 1
      BY Flags
    <3> QED
      BY <1>0, <1>2, <3>4, <3>5, RoundsFacts, Consts DEF StateOK
  <2>3. Burst \/ \E y \in 1 .. MaxDelay + 1 : Spread(y)
    BY <1>4 DEF CInv, BacklogShape, Waiting
  <2> QED
    BY <2>1, <2>2, <2>3
<1>5. CASE server_pc = "exited"
  BY <1>5 DEF CInv, ServerOutlivesClient
<1> QED
  BY <1>0, <1>3, <1>4, <1>5 DEF StateOK

LEMMA CompleteTimesOutKeepsCInv == ASSUME CInv, CompleteTimesOut PROVE CInv'
<1>1. /\ client_pc = "wait" /\ waited = ControlTimeout
      /\ attempt' = attempt + 1 /\ waited' = 0
      /\ client_pc' = IF attempt + 1 < ControlAttempts THEN "send" ELSE "failed"
      /\ UNCHANGED <<server_pc, socket, remaining, to_server, to_client, losses, copies, slow>>
  BY DEF CompleteTimesOut, serverVars
<1>2. StateOK /\ attempt < ControlAttempts
  BY <1>1 DEF CInv, ClientShape, Waiting
<1>3. /\ \A a \in Ages : ~(to_server[a] > 0)
      /\ OnTheWay = 0 /\ (server_pc = "data" => socket = 0)
  BY <1>1, TimeoutFacts
<1>4. StateOK'
  <2>1. attempt' \in Nat /\ waited' \in 0 .. ControlTimeout
    BY <1>1, <1>2, Consts DEF StateOK
  <2> QED
    BY <1>1, <1>2, <2>1 DEF StateOK
<1>5. CASE client_pc' = "failed"
  <2>1. losses >= SureRounds \/ server_pc \in {"sync", "failed"} \/ slow
    <3>1. attempt + 1 >= ControlAttempts
      BY <1>1, <1>2, <1>5, Consts DEF StateOK
    <3> QED
      BY <1>1, <3>1, LastTimeoutFacts
  <2>2. FirstShape'
    BY <1>1, <1>5 DEF CInv, FirstShape, Waiting
  <2> QED
    BY <1>1, <1>4, <1>5, <2>1, <2>2
       DEF CInv, ClientShape, QuietShape, BacklogShape, ServerOutlivesClient, FailureIsExplained,
           Waiting, SureRounds
<1>6. CASE client_pc' = "send"
  <2>0. attempt + 1 < ControlAttempts
    BY <1>1, <1>6
  <2>1. Asked' = Asked /\ Asked = attempt + 1 /\ OnTheWay' = OnTheWay
    BY <1>1, <1>6 DEF Asked, OnTheWay
  <2>2. ClientShape'
    BY <1>1, <1>3, <1>6, <2>0 DEF ClientShape
  <2>3. FirstShape'
    <3>1. server_pc = "data" => ~(socket > 0)
      BY <1>3
    <3> QED
      BY <1>1, <1>6, <2>1, <3>1 DEF CInv, FirstShape, Waiting
  <2>4. QuietShape'
    <3> SUFFICES ASSUME server_pc = "timewait" PROVE QuietShape'
      BY <1>1 DEF QuietShape
    <3>1. AnswerGone' = AnswerGone /\ Elapsed' = Elapsed /\ RoundGone' = 0
      BY <1>1, <1>6 DEF AnswerGone, Elapsed, RoundGone
    <3>2. losses >= AnswerGone
      BY <1>1 DEF CInv, QuietShape, Waiting
    <3>3. ASSUME NEW m \in 0 .. TimeWait, m * ControlTimeout < Elapsed
          PROVE  losses >= m + AnswerGone
      <4>1. CASE m = 0
        BY <1>2, <3>2, <4>1, Flags DEF StateOK
      <4>2. CASE m # 0
        <5>1. m - 1 \in 0 .. TimeWait /\ m = (m - 1) + 1
          BY <4>2, Consts
        <5>2. (m - 1) * ControlTimeout + ControlTimeout = m * ControlTimeout
          BY <5>1, Consts
        <5>3. losses >= (m - 1) + RoundGone + AnswerGone
          BY <1>1, <3>3, <5>1, <5>2 DEF CInv, QuietShape, Waiting
        <5>4. RoundGone = 1
          <6>1. Elapsed > 0 /\ ~(waited <= MaxDelay)
            <7>1. m * ControlTimeout \in Nat /\ Elapsed \in Int
              BY <1>2, Consts DEF Elapsed, StateOK
            <7> QED
              BY <1>1, <3>3, <7>1, Consts
          <6>2. ~(socket > 0)
            BY <1>1, <6>1 DEF CInv, QuietShape, Waiting
          <6> QED
            BY <1>1, <1>2, <1>3, <6>2 DEF RoundGone, StateOK
        <5> QED
          BY <1>2, <5>1, <5>3, <5>4, Flags DEF StateOK
      <4> QED
        BY <4>1, <4>2
    <3>4. \A m \in 0 .. TimeWait :
            m * ControlTimeout + waited' < Elapsed' => losses' >= m + RoundGone' + AnswerGone'
      <4> SUFFICES ASSUME NEW m \in 0 .. TimeWait, m * ControlTimeout + 0 < Elapsed
                   PROVE  losses >= m + 0 + AnswerGone
        BY <1>1, <3>1
      <4>1. m * ControlTimeout \in Nat
        BY Consts
      <4>2. losses >= m + AnswerGone
        BY <3>3, <4>1
      <4> QED
        BY <4>2, Flags
    <3>5. waited' <= MaxDelay
      BY <1>1, Consts
    <3> QED
      BY <1>1, <3>1, <3>2, <3>4, <3>5 DEF QuietShape
  <2>5. BacklogShape'
    <3> SUFFICES ASSUME server_pc = "timewait", ~slow PROVE BacklogShape'
      BY <1>1 DEF BacklogShape
    <3>1. ASSUME Burst PROVE Burst'
      BY <1>1, <1>2, <2>1, <3>1, Consts DEF Burst
    <3>2. ASSUME NEW y \in 1 .. MaxDelay + 1, Spread(y) PROVE Spread(y)'
      <4>1. Backlog(y)' = Backlog(y) /\ Current(y)' = 0 /\ Earlier(y) = 0
        <5>1. \A z \in Ages : ~(z > waited)
          BY <1>1, Consts, AgeFacts
        <5> QED
          BY <1>1, <1>6, <5>1 DEF Backlog, Current, Earlier
      <4>2. ~(socket > 0)
        <5>1. ~(waited <= MaxDelay)
          BY <1>1, Consts
        <5> QED
          BY <3>2, <5>1 DEF Spread
      <4>3. Current(y) <= Earlier(y)'
        <5>1. ASSUME NEW z \in Ages \ {y}, z <= waited, to_client[z] > 0
              PROVE  z > waited' /\ to_client'[z] > 0
          <6>1. waited - z <= MaxDelay
            BY <3>2, <5>1 DEF Spread
          <6> QED
            BY <1>1, <5>1, <6>1, Consts, AgeFacts
        <5>2. ~(OnTheWay = 1)
          BY <1>3
        <5> QED
          BY <4>2, <5>1, <5>2 DEF Current, Earlier
      <4>4. Backlog(y) \in Nat
        BY <1>2 DEF Backlog, StateOK
      <4>5. Asked' <= losses' + Backlog(y)' + Earlier(y)' + Current(y)'
        <5>1. Asked <= losses + Backlog(y) + 0 + Current(y)
          BY <3>2, <4>1 DEF Spread
        <5>2. Earlier(y)' \in 0 .. 1 /\ Current(y) \in 0 .. 1
          BY DEF Earlier, Current
        <5> QED
          BY <1>1, <1>2, <2>1, <4>1, <4>3, <4>4, <5>1, <5>2 DEF StateOK
      <4>6. \A z \in Ages \ {y} : z <= waited' => waited' - z <= MaxDelay
        BY <1>1, Consts, AgeFacts
      <4>7. waited' + MaxDelay < ControlTimeout + y
        BY <1>1, Consts
      <4> QED
        BY <1>1, <4>2, <4>5, <4>6, <4>7 DEF Spread
    <3> QED
      BY <1>1, <1>6, <3>1, <3>2 DEF CInv, BacklogShape, Waiting
  <2>6. ServerOutlivesClient' /\ FailureIsExplained'
    BY <1>1, <1>6 DEF CInv, ServerOutlivesClient, FailureIsExplained, SureRounds
  <2> QED
    BY <1>4, <2>2, <2>3, <2>4, <2>5, <2>6 DEF CInv
<1> QED
  BY <1>1, <1>5, <1>6

LEMMA ReceiveCompleteAckKeepsCInv == ASSUME CInv, ReceiveCompleteAck PROVE CInv'
<1>1. /\ client_pc \in {"wait", "done", "failed"}
      /\ client_pc' = IF client_pc = "wait" THEN "done" ELSE client_pc
      /\ UNCHANGED <<attempt, waited, server_pc, socket, remaining, to_server, losses, copies, slow>>
  BY DEF ReceiveCompleteAck, serverVars
<1>2. PICK a \in Ages : to_client[a] > 0 /\ to_client' = Remove(to_client, a)
  BY DEF ReceiveCompleteAck
<1>3. StateOK
  BY DEF CInv
<1>4. to_client' \in [Ages -> Nat]
  BY <1>2, <1>3, RemoveFacts DEF StateOK
<1>5. server_pc \notin {"data", "sync"}
  <2>1. ~(to_client[a] = 0)
    BY <1>2
  <2> QED
    BY <2>1 DEF CInv, FirstShape
<1>6. client_pc' \in {"done", "failed"} /\ (client_pc' = "failed" => client_pc = "failed")
  BY <1>1
<1>7. StateOK'
  BY <1>1, <1>3, <1>4, <1>6 DEF StateOK
<1> QED
  BY <1>1, <1>5, <1>6, <1>7
     DEF CInv, ClientShape, FirstShape, QuietShape, BacklogShape, Waiting, ServerOutlivesClient,
         FailureIsExplained, SureRounds

LEMMA CompleteArrivesKeepsCInv == ASSUME CInv, CompleteArrives PROVE CInv'
<1>1. /\ socket' = IF server_pc \in {"exited", "failed"} THEN socket ELSE socket + 1
      /\ UNCHANGED <<client_pc, attempt, waited, server_pc, remaining, to_client, losses, copies, slow>>
  BY DEF CompleteArrives, clientVars
<1>2. PICK a \in Ages : to_server[a] > 0 /\ to_server' = Remove(to_server, a)
  BY DEF CompleteArrives
<1>3. StateOK
  BY DEF CInv
<1>4. /\ to_server' \in [Ages -> Nat] /\ to_server'[a] = to_server[a] - 1
      /\ \A z \in Ages \ {a} : to_server'[z] = to_server[z]
  BY <1>2, <1>3, RemoveFacts DEF StateOK
<1>5. \A z \in Ages : to_server'[z] > 0 => to_server[z] > 0
  BY <1>2, <1>4
<1>6. OnTheWay = 1 /\ OnTheWay' \in 0 .. 1 /\ Asked' = Asked
  BY <1>1, <1>2 DEF OnTheWay, Asked
<1>7. Waiting => client_pc = "wait" /\ waited \in Nat /\ waited <= MaxDelay
  <2>1. Waiting => client_pc = "wait" /\ waited = a
    BY <1>2 DEF CInv, ClientShape
  <2> QED
    BY <2>1, AgeFacts
<1>8. server_pc \notin {"exited", "failed"} => socket' = socket + 1 /\ socket' > 0 /\ socket \in Nat
  BY <1>1, <1>3 DEF StateOK
<1>9. StateOK'
  <2>1. socket' \in Nat
    BY <1>1, <1>3 DEF StateOK
  <2> QED
    BY <1>1, <1>3, <1>4, <2>1 DEF StateOK
<1>10. ClientShape'
  BY <1>1, <1>5 DEF CInv, ClientShape, Waiting
<1>11. ASSUME NEW r \in Nat, server_pc \notin {"exited", "failed"}, Waiting,
              Asked <= losses + socket + OnTheWay + r
       PROVE  Asked' <= losses' + socket' + OnTheWay' + r
  <2>1. Asked \in Nat /\ losses \in Nat
    BY <1>3 DEF Asked, StateOK
  <2>2. socket' = socket + 1 /\ socket \in Nat /\ losses' = losses
    BY <1>1, <1>8, <1>11
  <2>3. \A o \in 0 .. 1 : Asked' <= losses' + socket' + o + r
    BY <1>6, <1>11, <2>1, <2>2
  <2> QED
    BY <1>6, <2>3
<1>12. FirstShape'
  <2>1. CASE server_pc = "data" /\ Waiting
    <3>1. Asked <= losses + socket + OnTheWay
      BY <2>1 DEF CInv, FirstShape
    <3>2. Asked' <= losses' + socket' + OnTheWay'
      <4>1. Asked <= losses + socket + OnTheWay + 0
        BY <1>3, <1>6, <3>1 DEF StateOK
      <4>2. Asked' <= losses' + socket' + OnTheWay' + 0
        BY <1>11, <2>1, <4>1
      <4> QED
        BY <1>1, <1>3, <1>6, <1>9, <4>2 DEF StateOK
    <3> QED
      BY <1>1, <1>7, <2>1, <3>2 DEF CInv, FirstShape
  <2>2. CASE server_pc = "sync" /\ Waiting
    <3>1. Asked <= losses + socket + OnTheWay + 1
      BY <2>2 DEF CInv, FirstShape
    <3>2. Asked' <= losses' + socket' + OnTheWay' + 1
      BY <1>11, <2>2, <3>1
    <3> QED
      BY <1>1, <2>2, <3>2 DEF CInv, FirstShape
  <2>3. CASE ~Waiting
    BY <1>1, <2>3 DEF CInv, FirstShape, Waiting
  <2>4. CASE server_pc \notin {"data", "sync"}
    BY <1>1, <2>4 DEF FirstShape
  <2> QED
    BY <2>1, <2>2, <2>3, <2>4
<1>13. QuietShape'
  <2> SUFFICES ASSUME server_pc = "timewait", Waiting PROVE QuietShape'
    BY <1>1 DEF QuietShape, Waiting
  <2>1. AnswerGone' = AnswerGone /\ Elapsed' = Elapsed /\ RoundGone' = 0
    BY <1>1, <1>8 DEF AnswerGone, Elapsed, RoundGone
  <2>2. ASSUME NEW m \in 0 .. TimeWait, losses >= m + RoundGone + AnswerGone
        PROVE  losses >= m + 0 + AnswerGone
    BY <1>3, <2>2, Flags DEF StateOK
  <2> QED
    BY <1>1, <1>7, <2>1, <2>2 DEF CInv, QuietShape
<1>14. BacklogShape'
  <2> SUFFICES ASSUME server_pc = "timewait", Waiting, ~slow PROVE BacklogShape'
    BY <1>1 DEF BacklogShape, Waiting
  <2>1. ASSUME Burst PROVE Burst'
    <3>1. to_client[0] \in Nat
      BY <1>3, AgeFacts DEF StateOK
    <3>2. Asked <= losses + socket + OnTheWay + to_client[0]
      BY <1>3, <1>6, <2>1, <3>1 DEF Burst, StateOK
    <3>3. Asked' <= losses' + socket' + OnTheWay' + to_client[0]
      BY <1>11, <3>1, <3>2
    <3>4. Asked' <= losses' + socket' + to_client'[0] + OnTheWay'
      BY <1>1, <1>3, <1>6, <1>9, <3>1, <3>3 DEF StateOK
    <3> QED
      BY <1>1, <2>1, <3>4 DEF Burst
  <2>2. ASSUME NEW y \in 1 .. MaxDelay + 1, Spread(y) PROVE Spread(y)'
    <3>1. /\ Backlog(y)' = Backlog(y) /\ Earlier(y)' = Earlier(y) /\ Current(y)' = 1
          /\ Backlog(y) \in Nat
      BY <1>1, <1>3, <1>7, <1>8 DEF Backlog, Earlier, Current, StateOK
    <3>2. Asked' <= losses' + Backlog(y)' + Earlier(y)' + Current(y)'
      <4>1. Asked <= losses + Backlog(y) + Earlier(y) + Current(y) /\ Asked \in Nat
        BY <1>3, <2>2 DEF Spread, Asked, StateOK
      <4> QED
        BY <1>1, <1>3, <1>6, <3>1, <4>1, Flags DEF StateOK
    <3> QED
      BY <1>1, <1>7, <2>2, <3>2 DEF Spread
  <2> QED
    BY <1>1, <2>1, <2>2 DEF CInv, BacklogShape
<1>15. ServerOutlivesClient' /\ FailureIsExplained'
  BY <1>1 DEF CInv, ServerOutlivesClient, FailureIsExplained, SureRounds
<1> QED
  BY <1>9, <1>10, <1>12, <1>13, <1>14, <1>15 DEF CInv

LEMMA StartSyncKeepsCInv == ASSUME CInv, StartSync PROVE CInv'
<1>1. /\ server_pc = "data" /\ server_pc' = "sync" /\ socket > 0 /\ socket' = socket - 1
      /\ UNCHANGED <<client_pc, attempt, waited, remaining, to_server, to_client, losses, copies, slow>>
  BY DEF StartSync, clientVars
<1>2. StateOK
  BY DEF CInv
<1>3. StateOK'
  <2>1. socket' \in Nat
    BY <1>1, <1>2 DEF StateOK
  <2> QED
    BY <1>1, <1>2, <2>1 DEF StateOK
<1>4. Asked' = Asked /\ OnTheWay' = OnTheWay
  BY <1>1 DEF Asked, OnTheWay
<1>5. Waiting => Asked' <= losses' + socket' + OnTheWay' + 1
  <2>1. Waiting => Asked <= losses + socket + OnTheWay
    BY <1>1 DEF CInv, FirstShape
  <2>2. Asked \in Nat
    BY <1>2 DEF Asked, StateOK
  <2> QED
    BY <1>1, <1>2, <1>4, <2>1, <2>2, Flags DEF StateOK
<1>6. FirstShape'
  BY <1>1, <1>5 DEF CInv, FirstShape, Waiting
<1> QED
  BY <1>1, <1>3, <1>6
     DEF CInv, ClientShape, Waiting, QuietShape, BacklogShape, ServerOutlivesClient,
         FailureIsExplained

LEMMA EndSyncKeepsCInv == ASSUME CInv, EndSync PROVE CInv'
<1>1. /\ server_pc = "sync" /\ server_pc' = "timewait"
      /\ to_client' = Add(to_client, 0) /\ remaining' = TimeWait /\ slow' = TooLate
      /\ UNCHANGED <<client_pc, attempt, waited, socket, to_server, losses, copies>>
  BY DEF EndSync, clientVars
<1>2. StateOK /\ \A a \in Ages : to_client[a] = 0
  BY <1>1 DEF CInv, FirstShape
<1>3. /\ to_client' \in [Ages -> Nat] /\ to_client'[0] = 1
      /\ \A z \in Ages \ {0} : to_client'[z] = 0
  BY <1>1, <1>2, AddFacts, AgeFacts DEF StateOK
<1>4. StateOK'
  <2>1. remaining' \in 0 .. TimeWait
    BY <1>1, Consts
  <2>2. slow' \in BOOLEAN
    BY <1>1 DEF TooLate
  <2> QED
    BY <1>1, <1>2, <1>3, <2>1, <2>2 DEF StateOK
<1>5. Asked' = Asked /\ OnTheWay' = OnTheWay /\ Elapsed' = 0
  BY <1>1, Consts DEF Asked, OnTheWay, Elapsed
<1>6. QuietShape'
  <2>1. AnswerGone' = 0
    BY <1>3, <1>5, AgeFacts DEF AnswerGone
  <2>2. \A m \in 0 .. TimeWait : ~(m * ControlTimeout + waited' < Elapsed')
    <3> SUFFICES ASSUME NEW m \in 0 .. TimeWait PROVE ~(m * ControlTimeout + waited < 0)
      BY <1>1, <1>5
    <3>1. m * ControlTimeout \in Nat
      BY Consts
    <3> QED
      BY <1>2, <3>1, Consts DEF StateOK
  <2>3. losses' >= AnswerGone' /\ ~(Elapsed' > 0)
    BY <1>1, <1>2, <1>5, <2>1 DEF StateOK
  <2> QED
    BY <2>2, <2>3 DEF QuietShape
<1>7. BacklogShape'
  <2> SUFFICES ASSUME Waiting, ~TooLate PROVE Burst'
    BY <1>1 DEF BacklogShape, Waiting
  <2>1. Asked <= losses + socket + OnTheWay + 1 /\ Asked \in Nat
    BY <1>1, <1>2 DEF CInv, FirstShape, Asked, StateOK
  <2>2. Asked' <= losses' + socket' + to_client'[0] + OnTheWay'
    BY <1>1, <1>2, <1>3, <1>5, <2>1, Flags DEF StateOK
  <2>3. ASSUME attempt + 1 = ControlAttempts PROVE waited + MaxDelay < ControlTimeout
    <3>1. ~(attempt * ControlTimeout + waited + MaxDelay >= ControlAttempts * ControlTimeout)
      BY DEF TooLate
    <3>2. ControlAttempts * ControlTimeout = attempt * ControlTimeout + ControlTimeout
      BY <1>2, <2>3, Consts DEF StateOK
    <3>3. attempt * ControlTimeout \in Nat
      BY <1>2, Consts DEF StateOK
    <3> QED
      BY <1>2, <3>1, <3>2, <3>3, Consts DEF StateOK
  <2> QED
    BY <1>1, <1>3, <2>2, <2>3 DEF Burst
<1>8. FailureIsExplained'
  BY <1>1 DEF FailureIsExplained, TooLate
<1> QED
  BY <1>1, <1>4, <1>6, <1>7, <1>8
     DEF CInv, ClientShape, Waiting, FirstShape, ServerOutlivesClient

\* A flush that throws ends every account: nothing was answered before it.
LEMMA SyncFailsKeepsCInv == ASSUME CInv, SyncFails PROVE CInv'
<1>1. /\ server_pc = "sync" /\ server_pc' = "failed" /\ socket' = 0
      /\ UNCHANGED <<client_pc, attempt, waited, remaining, to_server, to_client, losses, copies, slow>>
  BY DEF SyncFails, clientVars
<1>2. StateOK'
  BY <1>1 DEF CInv, StateOK
<1> QED
  BY <1>1, <1>2
     DEF CInv, ClientShape, Waiting, FirstShape, QuietShape, BacklogShape, ServerOutlivesClient,
         FailureIsExplained, SureRounds

LEMMA AnswerAgainKeepsCInv == ASSUME CInv, AnswerAgain PROVE CInv'
<1>1. /\ server_pc = "timewait" /\ socket > 0 /\ socket' = socket - 1
      /\ to_client' = Add(to_client, 0) /\ remaining' = TimeWait
      /\ UNCHANGED <<client_pc, attempt, waited, server_pc, to_server, losses, copies, slow>>
  BY DEF AnswerAgain, clientVars
<1>2. StateOK
  BY DEF CInv
<1>3. /\ to_client' \in [Ages -> Nat] /\ to_client'[0] = to_client[0] + 1
      /\ \A z \in Ages \ {0} : to_client'[z] = to_client[z]
  BY <1>1, <1>2, AddFacts, AgeFacts DEF StateOK
<1>4. to_client[0] \in Nat /\ to_client'[0] > 0 /\ socket \in Nat /\ socket' \in Nat
  BY <1>1, <1>2, <1>3, AgeFacts DEF StateOK
<1>5. StateOK'
  <2>1. remaining' \in 0 .. TimeWait
    BY <1>1, Consts
  <2> QED
    BY <1>1, <1>2, <1>3, <1>4, <2>1 DEF StateOK
<1>6. Asked' = Asked /\ OnTheWay' = OnTheWay /\ Elapsed' = 0 /\ Asked \in Nat
  BY <1>1, <1>2, Consts DEF Asked, OnTheWay, Elapsed, StateOK
<1>7. QuietShape'
  <2>1. AnswerGone' = 0
    BY <1>4, <1>6, AgeFacts DEF AnswerGone
  <2>2. \A m \in 0 .. TimeWait : ~(m * ControlTimeout + waited' < Elapsed')
    <3> SUFFICES ASSUME NEW m \in 0 .. TimeWait PROVE ~(m * ControlTimeout + waited < 0)
      BY <1>1, <1>6
    <3>1. m * ControlTimeout \in Nat
      BY Consts
    <3> QED
      BY <1>2, <3>1, Consts DEF StateOK
  <2>3. losses' >= AnswerGone' /\ ~(Elapsed' > 0)
    BY <1>1, <1>2, <1>6, <2>1 DEF StateOK
  <2> QED
    BY <2>2, <2>3 DEF QuietShape
<1>8. BacklogShape'
  <2> SUFFICES ASSUME Waiting, ~slow PROVE BacklogShape'
    BY <1>1 DEF BacklogShape, Waiting
  <2>1. ASSUME Burst PROVE Burst'
    <3>1. Asked' <= losses' + socket' + to_client'[0] + OnTheWay'
      BY <1>1, <1>2, <1>3, <1>4, <1>6, <2>1, Flags DEF Burst, StateOK
    <3> QED
      BY <1>1, <1>3, <2>1, <3>1 DEF Burst
  <2>2. ASSUME NEW y \in 1 .. MaxDelay + 1, Spread(y) PROVE Spread(y)'
    <3>1. waited \in Nat /\ waited <= MaxDelay
      BY <1>1, <1>2, <2>2, Consts DEF Spread, StateOK
    <3>2. y # 0 /\ Backlog(y)' = Backlog(y) /\ Backlog(y) \in Nat
      BY <1>2, <1>3, Consts DEF Backlog, StateOK
    <3>3. Earlier(y)' = Earlier(y)
      <4>1. ~(0 > waited)
        BY <3>1
      <4> QED
        BY <1>1, <1>3, <4>1 DEF Earlier
    <3>4. Current(y) <= Current(y)'
      <4>1. 0 \in Ages \ {y} /\ 0 <= waited
        BY <3>1, <3>2, AgeFacts
      <4>2. client_pc = "wait" => Current(y)' = 1
        BY <1>1, <1>4, <4>1 DEF Current
      <4>3. client_pc # "wait" => Current(y) = 0 /\ Current(y)' = 0
        BY <1>1 DEF Current
      <4> QED
        BY <4>2, <4>3, Flags
    <3>5. Asked' <= losses' + Backlog(y)' + Earlier(y)' + Current(y)'
      <4>1. Asked <= losses + Backlog(y) + Earlier(y) + Current(y)
        BY <2>2 DEF Spread
      <4>2. Current(y)' \in 0 .. 1
        BY DEF Current
      <4> QED
        BY <1>1, <1>2, <1>6, <3>2, <3>3, <3>4, <4>1, <4>2, Flags DEF StateOK
    <3>6. ASSUME NEW z \in Ages \ {y}, to_client'[z] > 0, z <= waited
          PROVE  waited - z <= MaxDelay
      BY <3>1, AgeFacts
    <3> QED
      BY <1>1, <2>2, <3>1, <3>5, <3>6 DEF Spread
  <2> QED
    BY <1>1, <2>1, <2>2 DEF CInv, BacklogShape
<1> QED
  BY <1>1, <1>5, <1>7, <1>8
     DEF CInv, ClientShape, Waiting, FirstShape, ServerOutlivesClient, FailureIsExplained,
         SureRounds

\* TIME_WAIT is over: the last answer and a COMPLETE of each round that began
\* since then, but for the one on its way, were lost.
LEMMA ExpiryFacts ==
  ASSUME CInv, server_pc = "timewait", remaining = 0, Waiting
  PROVE  losses >= SureRounds
<1> DEFINE K == SureRounds
<1>1. StateOK
  BY DEF CInv
<1>2. losses \in Nat /\ waited \in 0 .. ControlTimeout
  BY <1>1 DEF StateOK
<1>3. Elapsed = TimeWait
  BY Consts DEF Elapsed
<1>4. K \in Nat /\ K <= TimeWait /\ K * ControlTimeout \in Nat /\ K * ControlTimeout <= TimeWait
  BY RoundsFacts
<1> HIDE DEF K
<1>5. CASE K = 0
  BY <1>2, <1>5 DEF K
<1>6. CASE K # 0
  <2>1. TimeWait >= ControlTimeout
    <3>1. 1 * ControlTimeout <= K * ControlTimeout
      BY <1>4, <1>6, Consts, ProductOrder
    <3> QED
      BY <1>4, <3>1, Consts
  <2>2. AnswerGone = 1
    <3>1. Elapsed \notin Ages
      BY <1>3, <2>1, Consts, AgeFacts
    <3> QED
      BY <3>1 DEF AnswerGone
  <2>3. losses >= 1
    BY <2>2 DEF CInv, QuietShape
  <2>4. \A m \in 0 .. TimeWait :
          m * ControlTimeout + waited < TimeWait => losses >= m + RoundGone + 1
    BY <1>3, <2>2 DEF CInv, QuietShape
  <2> DEFINE p == (K - 1) * ControlTimeout
  <2>5. p \in Nat /\ p + ControlTimeout = K * ControlTimeout /\ K - 1 \in 0 .. TimeWait
    BY <1>4, <1>6, Consts
  <2>6. CASE p + waited < TimeWait
    <3>1. losses >= (K - 1) + RoundGone + 1
      BY <2>4, <2>5, <2>6
    <3> QED
      BY <1>2, <1>4, <3>1, Flags DEF K
  <2>7. CASE ~(p + waited < TimeWait)
    <3> HIDE DEF p
    <3>1. waited = ControlTimeout
      BY <1>2, <1>4, <2>5, <2>7, Consts
    <3>2. client_pc = "wait"
      <4>1. waited # 0
        BY <3>1, Consts
      <4> QED
        BY <4>1 DEF CInv, ClientShape, Waiting
    <3>3. OnTheWay = 0
      BY <3>1, <3>2, TimeoutFacts
    <3>4. ~(socket > 0)
      <4>1. ~(waited <= MaxDelay) /\ Elapsed > 0
        BY <1>3, <3>1, Consts
      <4> QED
        BY <4>1 DEF CInv, QuietShape
    <3>5. RoundGone = 1
      BY <1>1, <3>2, <3>3, <3>4 DEF RoundGone, StateOK
    <3>6. CASE K = 1
      BY <2>3, <3>6 DEF K
    <3>7. CASE K # 1
      <4>1. K - 2 \in 0 .. TimeWait
        BY <1>4, <1>6, <3>7, Consts
      <4>2. (K - 2) * ControlTimeout + ControlTimeout = p
        BY <1>4, <1>6, <3>7, Consts DEF p
      <4>3. p < TimeWait
        BY <1>4, <2>5, Consts
      <4>4. losses >= (K - 2) + 1 + 1
        BY <2>4, <3>1, <3>5, <4>1, <4>2, <4>3
      <4> QED
        BY <1>2, <1>4, <4>4 DEF K
    <3> QED
      BY <3>6, <3>7
  <2> QED
    BY <2>6, <2>7
<1> QED
  BY <1>5, <1>6

LEMMA TimeWaitExpiresKeepsCInv == ASSUME CInv, TimeWaitExpires PROVE CInv'
<1>1. /\ server_pc = "timewait" /\ remaining = 0 /\ server_pc' = "exited" /\ socket' = 0
      /\ UNCHANGED <<client_pc, attempt, waited, remaining, to_server, to_client, losses, copies, slow>>
  BY DEF TimeWaitExpires, clientVars
<1>2. StateOK'
  BY <1>1 DEF CInv, StateOK
<1>3. ServerOutlivesClient'
  BY <1>1, ExpiryFacts DEF ServerOutlivesClient, Waiting, SureRounds
<1> QED
  BY <1>1, <1>2, <1>3
     DEF CInv, ClientShape, Waiting, FirstShape, QuietShape, BacklogShape, FailureIsExplained,
         SureRounds

LEMMA LoseKeepsCInv == ASSUME CInv, Lose PROVE CInv'
<1>1. /\ losses' = losses + 1
      /\ UNCHANGED <<client_pc, attempt, waited, server_pc, socket, remaining, copies, slow>>
  BY DEF Lose, clientVars, serverVars
<1>2. StateOK
  BY DEF CInv
<1>3. losses \in Nat /\ losses' \in Nat /\ socket \in Nat /\ Asked' = Asked /\ Asked \in Nat
  BY <1>1, <1>2 DEF StateOK, Asked
<1>4. ServerOutlivesClient' /\ FailureIsExplained'
  <2>1. losses >= SureRounds => losses' >= SureRounds
    BY <1>1, <1>3, RoundsFacts
  <2> QED
    BY <1>1, <2>1 DEF CInv, ServerOutlivesClient, FailureIsExplained, SureRounds
<1>5. Elapsed' = Elapsed
  BY <1>1 DEF Elapsed
<1>6. /\ OnTheWay' \in 0 .. 1 /\ RoundGone' \in 0 .. 1 /\ AnswerGone' \in 0 .. 1
      /\ \A y : Earlier(y)' \in 0 .. 1 /\ Current(y)' \in 0 .. 1
  BY DEF OnTheWay, RoundGone, AnswerGone, Earlier, Current
<1>7. ASSUME NEW a \in Ages, to_server[a] > 0, to_server' = Remove(to_server, a),
             UNCHANGED to_client
      PROVE  CInv'
  <2>1. /\ to_server' \in [Ages -> Nat] /\ to_server'[a] = to_server[a] - 1
        /\ \A z \in Ages \ {a} : to_server'[z] = to_server[z]
    BY <1>2, <1>7, RemoveFacts DEF StateOK
  <2>2. \A z \in Ages : to_server'[z] > 0 => to_server[z] > 0
    BY <1>7, <2>1
  <2>3. StateOK'
    BY <1>1, <1>2, <1>3, <1>7, <2>1 DEF StateOK
  <2>4. ClientShape'
    BY <1>1, <2>2 DEF CInv, ClientShape, Waiting
  <2>5. FirstShape'
    <3>1. ASSUME NEW r \in Nat, Asked <= losses + socket + OnTheWay + r
          PROVE  Asked' <= losses' + socket + OnTheWay' + r
      <4>1. \A o \in 0 .. 1 : Asked' <= losses' + socket + o + r
        BY <1>1, <1>3, <3>1, Flags
      <4> QED
        BY <1>6, <4>1
    <3>2. ASSUME Asked <= losses + socket + OnTheWay
          PROVE  Asked' <= losses' + socket + OnTheWay'
      <4>1. \A o \in 0 .. 1 : Asked' <= losses' + socket + o
        BY <1>1, <1>3, <3>2, Flags
      <4> QED
        BY <1>6, <4>1
    <3> QED
      BY <1>1, <1>7, <3>1, <3>2 DEF CInv, FirstShape, Waiting
  <2>6. QuietShape'
    <3>1. AnswerGone' = AnswerGone
      BY <1>5, <1>7 DEF AnswerGone
    <3>2. losses >= AnswerGone => losses' >= AnswerGone
      BY <1>1, <1>3, Flags
    <3>3. ASSUME NEW m \in 0 .. TimeWait, losses >= m + RoundGone + AnswerGone
          PROVE  losses' >= m + RoundGone' + AnswerGone
      <4>1. \A o \in 0 .. 1 : losses' >= m + o + AnswerGone
        BY <1>1, <1>3, <3>3, Flags, Consts
      <4> QED
        BY <1>6, <4>1
    <3> QED
      BY <1>1, <1>5, <3>1, <3>2, <3>3 DEF CInv, QuietShape, Waiting
  <2>7. BacklogShape'
    <3>1. ASSUME Burst PROVE Burst'
      <4>1. to_client[0] \in Nat
        BY <1>2, AgeFacts DEF StateOK
      <4>2. Asked' <= losses' + socket' + to_client'[0] + OnTheWay'
        BY <1>1, <1>3, <1>6, <1>7, <3>1, <4>1, Flags DEF Burst
      <4> QED
        BY <1>1, <1>7, <3>1, <4>2 DEF Burst
    <3>2. ASSUME NEW y \in 1 .. MaxDelay + 1, Spread(y) PROVE Spread(y)'
      <4>1. Backlog(y)' = Backlog(y) /\ Backlog(y) \in Nat /\ Earlier(y)' = Earlier(y)
        BY <1>1, <1>2, <1>7 DEF Backlog, Earlier, StateOK
      <4>2. Asked' <= losses' + Backlog(y)' + Earlier(y)' + Current(y)'
        BY <1>1, <1>3, <1>6, <3>2, <4>1, Flags DEF Spread
      <4> QED
        BY <1>1, <1>7, <3>2, <4>2 DEF Spread
    <3> QED
      BY <1>1, <3>1, <3>2 DEF CInv, BacklogShape, Waiting
  <2> QED
    BY <1>4, <2>3, <2>4, <2>5, <2>6, <2>7 DEF CInv
<1>8. ASSUME NEW a \in Ages, to_client[a] > 0, to_client' = Remove(to_client, a),
             UNCHANGED to_server
      PROVE  CInv'
  <2>1. /\ to_client' \in [Ages -> Nat] /\ to_client'[a] = to_client[a] - 1
        /\ \A z \in Ages \ {a} : to_client'[z] = to_client[z]
    BY <1>2, <1>8, RemoveFacts DEF StateOK
  <2>2. \A z \in Ages : to_client'[z] > 0 => to_client[z] > 0
    BY <1>8, <2>1
  <2>3. StateOK'
    BY <1>1, <1>2, <1>3, <1>8, <2>1 DEF StateOK
  <2>4. ClientShape'
    BY <1>1, <1>8 DEF CInv, ClientShape, Waiting
  <2>5. server_pc \notin {"data", "sync"}
    <3>1. ~(to_client[a] = 0)
      BY <1>8
    <3> QED
      BY <3>1 DEF CInv, FirstShape
  <2>6. FirstShape'
    BY <1>1, <2>5 DEF FirstShape
  <2>7. OnTheWay' = OnTheWay /\ RoundGone' = RoundGone
    BY <1>1, <1>8 DEF OnTheWay, RoundGone
  <2>8. QuietShape'
    <3>1. losses >= 0 => losses' >= AnswerGone'
      BY <1>1, <1>3, <1>6
    <3>2. ASSUME NEW m \in 0 .. TimeWait, losses >= m + RoundGone + AnswerGone
          PROVE  losses' >= m + RoundGone + AnswerGone'
      <4>1. \A o \in 0 .. 1 : losses' >= m + RoundGone + o
        BY <1>1, <1>3, <3>2, Flags, Consts
      <4> QED
        BY <1>6, <4>1
    <3>3. losses >= 0
      BY <1>3
    <3> QED
      BY <1>1, <1>5, <2>7, <3>1, <3>2, <3>3 DEF CInv, QuietShape, Waiting
  <2>9. BacklogShape'
    <3>1. ASSUME Burst PROVE Burst'
      <4>1. a = 0
        BY <1>8, <3>1 DEF Burst
      <4>2. to_client[0] \in Nat /\ to_client'[0] = to_client[0] - 1
        BY <1>2, <2>1, <4>1, AgeFacts DEF StateOK
      <4>3. Asked' <= losses' + socket' + to_client'[0] + OnTheWay'
        BY <1>1, <1>3, <2>7, <3>1, <4>2, Flags DEF Burst
      <4> QED
        BY <1>1, <2>1, <3>1, <4>1, <4>3 DEF Burst
    <3>2. ASSUME NEW y \in 1 .. MaxDelay + 1, Spread(y) PROVE Spread(y)'
      <4>1. Backlog(y) \in Nat /\ Backlog(y)' \in Nat
        BY <1>2, <2>3 DEF Backlog, StateOK
      <4>2. Asked <= losses + Backlog(y) + Earlier(y) + Current(y)
        BY <3>2 DEF Spread
      <4>3. CASE a = y
        <5>1. Backlog(y)' = Backlog(y) - 1
          BY <2>1, <4>3 DEF Backlog
        <5>2. Earlier(y)' = Earlier(y) /\ Current(y)' = Current(y)
          BY <1>1, <2>1, <2>7, <4>3 DEF Earlier, Current
        <5>3. Asked' <= losses' + Backlog(y)' + Earlier(y)' + Current(y)'
          BY <1>1, <1>3, <4>1, <4>2, <5>1, <5>2, Flags
        <5> QED
          BY <1>1, <2>1, <2>2, <3>2, <5>3 DEF Spread
      <4>4. CASE a # y
        <5>1. Backlog(y)' = Backlog(y)
          BY <2>1, <4>4 DEF Backlog
        <5>2. Earlier(y)' = Earlier(y) \/ Current(y)' = Current(y)
          <6>1. CASE a > waited
            <7>1. ~(a <= waited)
              BY <1>2, <6>1, AgeFacts DEF StateOK
            <7> QED
              BY <1>1, <2>1, <2>7, <7>1 DEF Current
          <6>2. CASE ~(a > waited)
            BY <1>1, <2>1, <6>2 DEF Earlier
          <6> QED
            BY <6>1, <6>2
        <5>3. Asked' <= losses' + Backlog(y)' + Earlier(y)' + Current(y)'
          BY <1>1, <1>3, <1>6, <4>1, <4>2, <5>1, <5>2, Flags
        <5> QED
          BY <1>1, <2>1, <2>2, <3>2, <5>3 DEF Spread
      <4> QED
        BY <4>3, <4>4
    <3> QED
      BY <1>1, <3>1, <3>2 DEF CInv, BacklogShape, Waiting
  <2> QED
    BY <1>4, <2>3, <2>4, <2>6, <2>8, <2>9 DEF CInv
<1> QED
  BY <1>7, <1>8 DEF Lose

LEMMA DuplicateKeepsCInv == ASSUME CInv, Duplicate PROVE CInv'
<1>1. /\ copies' = copies + 1
      /\ UNCHANGED <<client_pc, attempt, waited, server_pc, socket, remaining, losses, slow>>
  BY DEF Duplicate, clientVars, serverVars
<1>2. StateOK
  BY DEF CInv
<1>3. losses \in Nat /\ socket \in Nat /\ Asked' = Asked /\ Asked \in Nat /\ copies' \in Nat
  BY <1>1, <1>2 DEF StateOK, Asked
<1>4. ServerOutlivesClient' /\ FailureIsExplained'
  BY <1>1 DEF CInv, ServerOutlivesClient, FailureIsExplained, SureRounds
<1>5. Elapsed' = Elapsed
  BY <1>1 DEF Elapsed
<1>6. ASSUME NEW a \in Ages, to_server[a] > 0, to_server' = Add(to_server, a),
             UNCHANGED to_client
      PROVE  CInv'
  <2>1. /\ to_server' \in [Ages -> Nat] /\ to_server'[a] = to_server[a] + 1
        /\ \A z \in Ages \ {a} : to_server'[z] = to_server[z]
    BY <1>2, <1>6, AddFacts DEF StateOK
  <2>2. \A z \in Ages : to_server'[z] > 0 <=> to_server[z] > 0
    <3>1. to_server'[a] > 0
      BY <1>2, <1>6, <2>1 DEF StateOK
    <3> QED
      BY <1>6, <2>1, <3>1
  <2>3. OnTheWay' = OnTheWay /\ AnswerGone' = AnswerGone
    BY <1>5, <1>6, <2>2 DEF OnTheWay, AnswerGone
  <2>4. RoundGone' = RoundGone
    BY <1>1, <2>3 DEF RoundGone
  <2>5. StateOK'
    BY <1>1, <1>2, <1>3, <1>6, <2>1 DEF StateOK
  <2>6. ClientShape'
    BY <1>1, <2>2 DEF CInv, ClientShape, Waiting
  <2>7. FirstShape'
    BY <1>1, <1>3, <1>6, <2>3 DEF CInv, FirstShape, Waiting
  <2>8. QuietShape'
    BY <1>1, <1>5, <2>3, <2>4 DEF CInv, QuietShape, Waiting
  <2>9. Burst => Burst'
    BY <1>1, <1>3, <1>6, <2>3 DEF Burst
  <2>10. ASSUME NEW y \in 1 .. MaxDelay + 1, Spread(y) PROVE Spread(y)'
    <3>1. Backlog(y)' = Backlog(y) /\ Earlier(y)' = Earlier(y)
      BY <1>1, <1>6 DEF Backlog, Earlier
    <3>2. Current(y)' = Current(y)
      BY <1>1, <1>6, <2>3 DEF Current
    <3> QED
      BY <1>1, <1>3, <1>6, <2>10, <3>1, <3>2 DEF Spread
  <2>11. BacklogShape'
    BY <1>1, <2>9, <2>10 DEF CInv, BacklogShape, Waiting
  <2> QED
    BY <1>4, <2>5, <2>6, <2>7, <2>8, <2>11 DEF CInv
<1>7. ASSUME NEW a \in Ages, to_client[a] > 0, to_client' = Add(to_client, a),
             UNCHANGED to_server
      PROVE  CInv'
  <2>1. /\ to_client' \in [Ages -> Nat] /\ to_client'[a] = to_client[a] + 1
        /\ \A z \in Ages \ {a} : to_client'[z] = to_client[z]
    BY <1>2, <1>7, AddFacts DEF StateOK
  <2>2. \A z \in Ages : to_client'[z] > 0 <=> to_client[z] > 0
    <3>1. to_client'[a] > 0
      BY <1>2, <1>7, <2>1 DEF StateOK
    <3> QED
      BY <1>7, <2>1, <3>1
  <2>3. OnTheWay' = OnTheWay /\ AnswerGone' = AnswerGone
    BY <1>5, <1>7, <2>2 DEF OnTheWay, AnswerGone
  <2>4. RoundGone' = RoundGone
    BY <1>1, <2>3 DEF RoundGone
  <2>5. StateOK'
    BY <1>1, <1>2, <1>3, <1>7, <2>1 DEF StateOK
  <2>6. ClientShape'
    BY <1>1, <1>7 DEF CInv, ClientShape, Waiting
  <2>7. FirstShape'
    <3>1. ~(to_client[a] = 0)
      BY <1>7
    <3>2. server_pc \notin {"data", "sync"}
      BY <3>1 DEF CInv, FirstShape
    <3> QED
      BY <1>1, <3>2 DEF FirstShape
  <2>8. QuietShape'
    BY <1>1, <1>5, <2>3, <2>4 DEF CInv, QuietShape, Waiting
  <2>9. ASSUME Burst PROVE Burst'
    <3>1. a = 0
      BY <1>7, <2>9 DEF Burst
    <3>2. to_client[0] \in Nat /\ to_client'[0] = to_client[0] + 1
      BY <1>2, <2>1, <3>1, AgeFacts DEF StateOK
    <3>3. Asked' <= losses' + socket' + to_client'[0] + OnTheWay'
      <4>1. Asked <= losses + socket + (to_client[0] + 1) + OnTheWay
        BY <1>3, <2>9, <3>2, Flags DEF Burst
      <4> QED
        BY <1>1, <1>3, <2>3, <3>2, <4>1
    <3> QED
      BY <1>1, <2>1, <2>9, <3>1, <3>3 DEF Burst
  <2>10. ASSUME NEW y \in 1 .. MaxDelay + 1, Spread(y) PROVE Spread(y)'
    <3>1. Earlier(y)' = Earlier(y)
      BY <1>1, <2>2 DEF Earlier
    <3>2. Current(y)' = Current(y)
      BY <1>1, <2>2, <2>3 DEF Current
    <3>3. Backlog(y) \in Nat /\ Backlog(y)' \in {Backlog(y), Backlog(y) + 1}
      BY <1>2, <2>1 DEF Backlog, StateOK
    <3>4. \A b \in {Backlog(y), Backlog(y) + 1} : Asked <= losses + b + Earlier(y) + Current(y)
      BY <1>3, <2>10, <3>3, Flags DEF Spread
    <3>5. Asked' <= losses' + Backlog(y)' + Earlier(y)' + Current(y)'
      BY <1>1, <1>3, <3>1, <3>2, <3>3, <3>4
    <3> QED
      BY <1>1, <2>2, <2>10, <3>5 DEF Spread
  <2>11. BacklogShape'
    BY <1>1, <2>9, <2>10 DEF CInv, BacklogShape, Waiting
  <2> QED
    BY <1>4, <2>5, <2>6, <2>7, <2>8, <2>11 DEF CInv
<1> QED
  BY <1>6, <1>7 DEF Duplicate

\* A tick moves every datagram of a channel to the next age.
LEMMA ShiftFacts ==
  ASSUME NEW channel \in [Ages -> Nat], channel[MaxDelay] = 0
  PROVE  /\ Older(channel) \in [Ages -> Nat]
         /\ Older(channel)[0] = 0
         /\ \A z \in Ages : z > 0 => z - 1 \in Ages /\ Older(channel)[z] = channel[z - 1]
         /\ \A z \in Ages : channel[z] > 0 => z + 1 \in Ages /\ Older(channel)[z + 1] = channel[z]
<1>1. ASSUME NEW z \in Ages, channel[z] > 0
      PROVE  z + 1 \in Ages /\ Older(channel)[z + 1] = channel[z]
  <2>1. z # MaxDelay
    BY <1>1
  <2>2. z + 1 \in Ages /\ z + 1 > 0 /\ (z + 1) - 1 = z
    BY <2>1, Consts DEF Ages
  <2> QED
    BY <2>2, OlderFacts
<1> QED
  BY <1>1, OlderFacts

LEMMA TickKeepsCInv == ASSUME CInv, Tick PROVE CInv'
<1>1. /\ client_pc # "send"
      /\ client_pc = "wait" => waited < ControlTimeout
      /\ server_pc \in {"data", "timewait"} => socket = 0
      /\ server_pc = "timewait" => remaining > 0
      /\ to_server[MaxDelay] = 0 /\ to_client[MaxDelay] = 0
      /\ waited' = IF client_pc = "wait" THEN waited + 1 ELSE waited
      /\ remaining' = IF server_pc = "timewait" THEN remaining - 1 ELSE remaining
      /\ to_server' = Older(to_server) /\ to_client' = Older(to_client)
      /\ UNCHANGED <<client_pc, attempt, server_pc, socket, losses, copies, slow>>
  BY DEF Tick, RemainingAfterTick
<1>2. StateOK
  BY DEF CInv
<1>3. /\ to_server' \in [Ages -> Nat] /\ to_server'[0] = 0
      /\ \A z \in Ages : z > 0 => z - 1 \in Ages /\ to_server'[z] = to_server[z - 1]
      /\ \A z \in Ages : to_server[z] > 0 => z + 1 \in Ages /\ to_server'[z + 1] = to_server[z]
  BY <1>1, <1>2, ShiftFacts DEF StateOK
<1>4. /\ to_client' \in [Ages -> Nat] /\ to_client'[0] = 0
      /\ \A z \in Ages : z > 0 => z - 1 \in Ages /\ to_client'[z] = to_client[z - 1]
      /\ \A z \in Ages : to_client[z] > 0 => z + 1 \in Ages /\ to_client'[z + 1] = to_client[z]
  BY <1>1, <1>2, ShiftFacts DEF StateOK
<1>5. /\ \A z \in Ages : to_server'[z] > 0 => z > 0 /\ z - 1 \in Ages /\ to_server[z - 1] > 0
      /\ \A z \in Ages : to_client'[z] > 0 => z > 0 /\ z - 1 \in Ages /\ to_client[z - 1] > 0
  <2>1. \A z \in Ages : z = 0 \/ z > 0
    BY AgeFacts
  <2> QED
    BY <1>3, <1>4, <2>1
<1>6. StateOK'
  <2>1. waited' \in 0 .. ControlTimeout
    BY <1>1, <1>2, Consts DEF StateOK
  <2>2. remaining' \in 0 .. TimeWait
    BY <1>1, <1>2, Consts DEF StateOK
  <2> QED
    BY <1>1, <1>2, <1>3, <1>4, <2>1, <2>2 DEF StateOK
<1>7. ServerOutlivesClient' /\ FailureIsExplained'
  BY <1>1 DEF CInv, ServerOutlivesClient, FailureIsExplained, SureRounds
<1>8. server_pc \in {"data", "sync"} => \A z \in Ages : to_client'[z] = 0
  <2>1. ASSUME server_pc \in {"data", "sync"}, NEW z \in Ages PROVE to_client'[z] = 0
    <3>1. \A x \in Ages : to_client[x] = 0
      BY <2>1 DEF CInv, FirstShape
    <3>2. \A x \in Ages : ~(to_client[x] > 0)
      BY <3>1
    <3>3. ~(to_client'[z] > 0)
      BY <1>5, <3>2
    <3> QED
      BY <1>4, <3>3
  <2> QED
    BY <2>1
<1>9. CASE ~Waiting
  <2>1. ~Waiting'
    BY <1>1, <1>9 DEF Waiting
  <2>2. FirstShape'
    BY <1>1, <1>8, <2>1 DEF CInv, FirstShape
  <2> QED
    BY <1>6, <1>7, <2>1, <2>2 DEF CInv, ClientShape, QuietShape, BacklogShape
<1>10. CASE Waiting
  <2>1. /\ client_pc = "wait" /\ waited' = waited + 1 /\ waited < ControlTimeout
        /\ waited \in Nat /\ attempt < ControlAttempts
    <3>1. client_pc = "wait"
      BY <1>1, <1>10 DEF Waiting
    <3>2. waited \in Nat
      BY <1>2, Consts DEF StateOK
    <3> QED
      BY <1>1, <1>10, <3>1, <3>2 DEF CInv, ClientShape
  <2>2. Asked' = Asked /\ OnTheWay' = OnTheWay /\ Asked \in Nat
    <3>1. (\E z \in Ages : to_server'[z] > 0) <=> (\E z \in Ages : to_server[z] > 0)
      <4>1. ASSUME NEW z \in Ages, to_server[z] > 0 PROVE \E x \in Ages : to_server'[x] > 0
        <5>1. z + 1 \in Ages /\ to_server'[z + 1] > 0
          BY <1>3, <4>1
        <5> QED
          BY <5>1
      <4>2. ASSUME NEW z \in Ages, to_server'[z] > 0 PROVE \E x \in Ages : to_server[x] > 0
        <5>1. z - 1 \in Ages /\ to_server[z - 1] > 0
          BY <1>5, <4>2
        <5> QED
          BY <5>1
      <4> QED
        BY <4>1, <4>2
    <3> QED
      BY <1>1, <1>2, <3>1 DEF Asked, OnTheWay, StateOK
  <2>3. ClientShape'
    <3>1. ASSUME NEW z \in Ages, to_server'[z] > 0 PROVE z = waited'
      <4>1. z - 1 \in Ages /\ to_server[z - 1] > 0
        BY <1>5, <3>1
      <4>2. z - 1 = waited
        BY <1>10, <4>1 DEF CInv, ClientShape
      <4> QED
        BY <2>1, <4>2, AgeFacts
    <3> QED
      BY <1>1, <2>1, <3>1 DEF ClientShape
  <2>4. FirstShape'
    <3>1. server_pc = "data" => ~(socket > 0)
      BY <1>1
    <3> QED
      BY <1>1, <1>8, <1>10, <2>1, <2>2, <3>1 DEF CInv, FirstShape
  <2>5. QuietShape'
    <3> SUFFICES ASSUME server_pc = "timewait" PROVE QuietShape'
      BY <1>1 DEF QuietShape
    <3>1. Elapsed \in Nat /\ Elapsed' = Elapsed + 1
      BY <1>1, <1>2, Consts DEF Elapsed, StateOK
    <3>2. RoundGone' = RoundGone
      BY <1>1, <2>2 DEF RoundGone
    <3>3. AnswerGone' = AnswerGone
      <4>1. ASSUME Elapsed \in Ages, to_client[Elapsed] > 0
            PROVE  Elapsed' \in Ages /\ to_client'[Elapsed'] > 0
        BY <1>4, <3>1, <4>1
      <4>2. ASSUME Elapsed' \in Ages, to_client'[Elapsed'] > 0
            PROVE  Elapsed \in Ages /\ to_client[Elapsed] > 0
        <5>1. Elapsed + 1 \in Ages /\ to_client'[Elapsed + 1] > 0
          BY <3>1, <4>2
        <5>2. (Elapsed + 1) - 1 \in Ages /\ to_client[(Elapsed + 1) - 1] > 0
          BY <1>5, <5>1
        <5>3. (Elapsed + 1) - 1 = Elapsed
          BY <3>1
        <5> QED
          BY <5>2, <5>3
      <4> QED
        BY <4>1, <4>2 DEF AnswerGone
    <3>4. ASSUME NEW m \in 0 .. TimeWait, m * ControlTimeout + waited' < Elapsed'
          PROVE  losses >= m + RoundGone + AnswerGone
      <4>1. m * ControlTimeout \in Nat
        BY Consts
      <4>2. m * ControlTimeout + waited < Elapsed
        <5>1. m * ControlTimeout + (waited + 1) < Elapsed + 1
          BY <2>1, <3>1, <3>4
        <5> QED
          BY <2>1, <3>1, <4>1, <5>1
      <4> QED
        BY <1>10, <4>2 DEF CInv, QuietShape
    <3>5. ~(socket > 0) /\ losses >= AnswerGone
      BY <1>1, <1>10 DEF CInv, QuietShape
    <3> QED
      BY <1>1, <3>2, <3>3, <3>4, <3>5 DEF QuietShape
  <2>6. BacklogShape'
    <3> SUFFICES ASSUME server_pc = "timewait", ~slow
                 PROVE  \E x \in 1 .. MaxDelay + 1 : Spread(x)'
      BY <1>1 DEF BacklogShape
    <3>0. socket = 0 /\ losses \in Nat
      BY <1>1, <1>2 DEF StateOK
    <3>1. ASSUME Burst PROVE Spread(1)'
      <4>1. to_client[0] \in Nat /\ Asked <= losses + to_client[0] + OnTheWay
        <5>1. to_client[0] \in Nat
          BY <1>2, AgeFacts DEF StateOK
        <5> QED
          BY <3>0, <3>1, <5>1, Flags DEF Burst
      <4>2. Backlog(1)' = to_client[0]
        <5>1. CASE 1 \in Ages
          <6>1. to_client'[1] = to_client[1 - 1]
            BY <1>4, <5>1
          <6> QED
            BY <5>1, <6>1 DEF Backlog
        <5>2. CASE 1 \notin Ages
          <6>1. MaxDelay = 0
            BY <5>2, Consts DEF Ages
          <6> QED
            BY <1>1, <5>2, <6>1 DEF Backlog
        <5> QED
          BY <5>1, <5>2
      <4>3. Current(1)' \in 0 .. 1 /\ Earlier(1)' \in 0 .. 1
        BY DEF Current, Earlier
      <4>4. OnTheWay = 1 => Current(1)' = 1
        BY <1>1, <2>1, <2>2 DEF Current
      <4>5. \A e \in 0 .. 1 : \A c \in 0 .. 1 :
              (OnTheWay = 1 => c = 1) => Asked <= losses + to_client[0] + e + c
        BY <2>2, <3>0, <4>1, Flags
      <4>6. Asked' <= losses' + Backlog(1)' + Earlier(1)' + Current(1)'
        BY <1>1, <2>2, <4>2, <4>3, <4>4, <4>5
      <4>7. ASSUME NEW z \in Ages \ {1} PROVE ~(to_client'[z] > 0)
        <5>1. ASSUME to_client'[z] > 0 PROVE FALSE
          <6>1. z > 0 /\ z - 1 \in Ages /\ to_client[z - 1] > 0
            BY <1>5, <5>1
          <6>2. z - 1 # 0
            BY <4>7, AgeFacts
          <6>3. to_client[z - 1] = 0
            BY <3>1, <6>1, <6>2 DEF Burst
          <6> QED
            BY <6>1, <6>3
        <5> QED
          BY <5>1
      <4>8. attempt + 1 = ControlAttempts => waited' + MaxDelay < ControlTimeout + 1
        BY <2>1, <3>1, Consts DEF Burst
      <4> QED
        BY <1>1, <3>0, <4>6, <4>7, <4>8 DEF Spread
    <3>2. ASSUME NEW y \in 1 .. MaxDelay + 1, Spread(y)
          PROVE  \E x \in 1 .. MaxDelay + 1 : Spread(x)'
      <4> DEFINE x == IF y \in Ages THEN y + 1 ELSE y
      <4>1. /\ y \in Nat /\ x \in 1 .. MaxDelay + 1
            /\ x \in Ages => y \in Ages /\ x = y + 1
            /\ \A z \in Ages : z # y /\ z + 1 \in Ages => z + 1 # x
            /\ \A z \in Ages : z # x => z - 1 # y
        BY Consts DEF Ages
      <4> HIDE DEF x
      <4>2. Backlog(y) \in Nat /\ Backlog(x)' = Backlog(y)
        <5>1. Backlog(y) \in Nat
          BY <1>2 DEF Backlog, StateOK
        <5>2. CASE y \in Ages /\ to_client[y] > 0
          <6>1. y + 1 \in Ages /\ to_client'[y + 1] = to_client[y]
            BY <1>4, <5>2
          <6>2. x = y + 1
            BY <5>2 DEF x
          <6> QED
            BY <5>1, <5>2, <6>1, <6>2 DEF Backlog
        <5>3. CASE y \in Ages /\ ~(to_client[y] > 0)
          <6>1. Backlog(y) = 0
            BY <1>2, <5>3 DEF Backlog, StateOK
          <6>2. x = y + 1
            BY <5>3 DEF x
          <6>3. ASSUME x \in Ages PROVE to_client'[x] = 0
            <7>1. ASSUME to_client'[x] > 0 PROVE FALSE
              <8>1. to_client[x - 1] > 0 /\ x - 1 = y
                BY <1>5, <4>1, <6>2, <6>3, <7>1
              <8> QED
                BY <5>3, <8>1
            <7> QED
              BY <1>4, <6>3, <7>1
          <6> QED
            BY <6>1, <6>3 DEF Backlog
        <5>4. CASE y \notin Ages
          BY <5>4 DEF Backlog, x
        <5> QED
          BY <5>1, <5>2, <5>3, <5>4
      <4>3. /\ Current(x)' \in 0 .. 1 /\ Earlier(x)' \in 0 .. 1
            /\ Current(y) \in 0 .. 1 /\ Earlier(y) \in 0 .. 1
        BY DEF Current, Earlier
      <4>4. ASSUME NEW z \in Ages \ {y}, to_client[z] > 0
            PROVE  z + 1 \in Ages \ {x} /\ to_client'[z + 1] > 0 /\ z \in Nat
        BY <1>4, <4>1, <4>4, AgeFacts
      <4>5. Earlier(y) = 1 => Earlier(x)' = 1
        <5>1. ASSUME NEW z \in Ages \ {y}, z > waited, to_client[z] > 0 PROVE Earlier(x)' = 1
          <6>1. z + 1 \in Ages \ {x} /\ to_client'[z + 1] > 0 /\ z + 1 > waited'
            BY <2>1, <4>4, <5>1
          <6> QED
            BY <6>1 DEF Earlier
        <5> QED
          BY <5>1 DEF Earlier
      <4>6. Current(y) = 1 => Current(x)' = 1
        <5>1. ASSUME NEW z \in Ages \ {y}, z <= waited, to_client[z] > 0 PROVE Current(x)' = 1
          <6>1. z + 1 \in Ages \ {x} /\ to_client'[z + 1] > 0 /\ z + 1 <= waited'
            BY <2>1, <4>4, <5>1
          <6> QED
            BY <1>1, <2>1, <6>1 DEF Current
        <5>2. OnTheWay = 1 => Current(x)' = 1
          BY <1>1, <2>1, <2>2 DEF Current
        <5>3. ~(socket > 0)
          BY <3>0
        <5> QED
          BY <5>1, <5>2, <5>3 DEF Current
      <4>7. \A e \in 0 .. 1 : \A c \in 0 .. 1 :
              (Earlier(y) = 1 => e = 1) /\ (Current(y) = 1 => c = 1)
                => Asked <= losses + Backlog(y) + e + c
        BY <2>2, <3>0, <3>2, <4>2, Flags DEF Spread
      <4>8. Asked' <= losses' + Backlog(x)' + Earlier(x)' + Current(x)'
        BY <1>1, <2>2, <4>2, <4>3, <4>5, <4>6, <4>7
      <4>9. ASSUME NEW z \in Ages \ {x}, to_client'[z] > 0, z <= waited'
            PROVE  waited' - z <= MaxDelay
        <5>1. z - 1 \in Ages \ {y} /\ to_client[z - 1] > 0 /\ z \in Nat
          BY <1>5, <4>1, <4>9, AgeFacts
        <5>2. z - 1 <= waited
          BY <2>1, <4>9, <5>1
        <5>3. waited - (z - 1) <= MaxDelay
          BY <3>2, <5>1, <5>2 DEF Spread
        <5> QED
          BY <2>1, <5>1, <5>3, Consts
      <4>10. ASSUME x \in Ages, attempt + 1 = ControlAttempts
             PROVE  waited' + MaxDelay < ControlTimeout + x
        <5>1. waited + MaxDelay < ControlTimeout + y /\ x = y + 1
          BY <3>2, <4>1, <4>10 DEF Spread
        <5> QED
          BY <2>1, <4>1, <5>1, Consts
      <4>11. Spread(x)'
        BY <1>1, <3>0, <4>8, <4>9, <4>10 DEF Spread
      <4> QED
        BY <4>1, <4>11
    <3>3. 1 \in 1 .. MaxDelay + 1
      BY Consts
    <3> QED
      BY <1>10, <3>1, <3>2, <3>3 DEF CInv, BacklogShape
  <2> QED
    BY <1>6, <1>7, <2>3, <2>4, <2>5, <2>6 DEF CInv
<1> QED
  BY <1>9, <1>10

-----------------------------------------------------------------------------
(* The theorems. *)

LEMMA NextCInv == CInv /\ [Next]_vars => CInv'
<1> SUFFICES ASSUME CInv, [Next]_vars PROVE CInv'
  OBVIOUS
<1>1. ASSUME UNCHANGED vars PROVE CInv'
  BY <1>1
     DEF vars, clientVars, serverVars, CInv, StateOK, ClientShape, FirstShape, QuietShape,
         BacklogShape, Burst, Spread, Backlog, Earlier, Current, Asked, OnTheWay, Elapsed,
         AnswerGone, RoundGone, Waiting, ServerOutlivesClient, FailureIsExplained, SureRounds
<1> QED
  BY <1>1, SendCompleteKeepsCInv, CompleteTimesOutKeepsCInv, ReceiveCompleteAckKeepsCInv,
     CompleteArrivesKeepsCInv, StartSyncKeepsCInv, EndSyncKeepsCInv, SyncFailsKeepsCInv, AnswerAgainKeepsCInv,
     TimeWaitExpiresKeepsCInv, LoseKeepsCInv, DuplicateKeepsCInv, TickKeepsCInv DEF Next

\* Every round of the closing handshake is accounted for.
THEOREM ClosingInvariant == Spec => []CInv
BY InitCInv, NextCInv, PTL DEF Spec

\* Whatever the delays, the server leaves TIME_WAIT before a client that still
\* retries only if TimeWait / ControlTimeout datagrams were lost: three.
THEOREM ServerStaysLongEnough == Spec => []ServerOutlivesClient
<1>1. CInv => ServerOutlivesClient
  BY DEF CInv
<1> QED
  BY <1>1, ClosingInvariant, PTL

\* A client fails after its file was received only because of as many losses,
\* or of a flush that outlasted its attempts or threw.
THEOREM ClosingFailuresAreExplained == Spec => []FailureIsExplained
<1>1. CInv => FailureIsExplained
  BY DEF CInv
<1> QED
  BY <1>1, ClosingInvariant, PTL

=============================================================================
