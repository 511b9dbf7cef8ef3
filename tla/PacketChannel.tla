---------------------------- MODULE PacketChannel ----------------------------
(***************************************************************************)
(* What the server's receive path promises to controller.c: on every       *)
(* equipment connection the packets the equipment sent are handed to       *)
(* handle_packet whole, in order and once each.  Only the end of a         *)
(* connection may lose packets, and then only a tail of those not yet      *)
(* handed over.                                                            *)
(***************************************************************************)
EXTENDS Naturals

CONSTANTS PacketSize,   \* bytes of a packet
          MaxPackets    \* bound: packets sent on one connection

VARIABLES conn,     \* number of the current connection, 0 before the first
          sent,     \* packets the equipment has sent on it
          handed,   \* packets handed to handle_packet
          unit      \* the last packet handed over, as its bytes

vars == <<conn, sent, handed, unit>>

(* A byte is named by its connection and its position in the stream.       *)
Packet(c, k) == [i \in 0 .. PacketSize - 1 |-> <<c, k * PacketSize + i>>]

Init ==
  /\ conn = 0 /\ sent = 0 /\ handed = 0
  /\ unit = [i \in 0 .. PacketSize - 1 |-> <<0, 0>>]

Connect ==
  /\ conn' = conn + 1
  /\ sent' = 0 /\ handed' = 0
  /\ UNCHANGED unit

Send ==
  /\ conn > 0 /\ sent < MaxPackets
  /\ sent' = sent + 1
  /\ UNCHANGED <<conn, handed, unit>>

HandOver ==
  /\ handed < sent
  /\ unit' = Packet(conn, handed)
  /\ handed' = handed + 1
  /\ UNCHANGED <<conn, sent>>

LoseTail ==
  /\ sent' \in handed .. sent
  /\ UNCHANGED <<conn, handed, unit>>

Next == Connect \/ Send \/ HandOver \/ LoseTail

Spec == Init /\ [][Next]_vars
=============================================================================
