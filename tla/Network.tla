------------------------------- MODULE Network -------------------------------
(***************************************************************************)
(* UDP between the client's and the server's socket, as the code uses it   *)
(* (sendto, sendmsg, recvfrom).  Each direction is a set of datagrams: a   *)
(* set, because datagrams overtake each other.  A receive leaves the       *)
(* datagram where it is, so it may be delivered again, late and any number *)
(* of times; no receive is forced, so one that stays unread, or is read    *)
(* in a phase whose code discards its type, is a lost one.  Capacity is    *)
(* how many datagrams may still arrive in one direction, not a queue: a    *)
(* send into a full channel loses some datagram, the new or an older one.  *)
(***************************************************************************)
EXTENDS Common, FiniteSets

CONSTANT Capacity

ASSUME NetworkAssumption == Capacity \in Nat \ {0}

VARIABLES to_server, to_client

networkVars == <<to_server, to_client>>

NetworkInit == to_server = {} /\ to_client = {}

\* The channels that sending m may leave behind.
Put(channel, m) ==
  IF m \in channel \/ Cardinality(channel) < Capacity
  THEN {channel \cup {m}}
  ELSE {channel} \cup {(channel \ {x}) \cup {m} : x \in channel}
=============================================================================
