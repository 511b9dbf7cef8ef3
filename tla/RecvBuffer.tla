----------------------------- MODULE RecvBuffer -----------------------------
(***************************************************************************)
(* The server's side of one equipment connection at a time: the TCP byte   *)
(* stream, recv_data and buffer_append filling the RecvBuffer, and         *)
(* process_buffer cutting it into fixed-size packets                       *)
(* (server/network/hsms_receiver, server/controller,                       *)
(* server/run_server: run_client_loop).                                    *)
(*                                                                         *)
(* A byte is the pair <<connection, position in that connection's stream>>,*)
(* so a byte left over from an earlier connection, lost or duplicated is   *)
(* told apart from the right one.                                          *)
(*                                                                         *)
(* Between recv and process_buffer the thread calls monitor_periodic_task, *)
(* which may wait in send for ever (RunServer); and a signal may end both  *)
(* loops at any time.                                                      *)
(***************************************************************************)
EXTENDS Integers

CONSTANTS FixedSize,    \* FIXED_SIZE, bytes of a packet (4096)
          BufferSize,   \* BUFFER_SIZE, capacity of the RecvBuffer (8192)
          RecvMax,      \* sizeof(tmp) in recv_data (2048)
          MaxPackets,   \* bound: packets sent on one connection
          MaxConns      \* bound: connections of the equipment

(* 4095 + 2048 <= 8192: what is left after extraction leaves room for one  *)
(* more recv.                                                              *)
ASSUME SizeAssumption ==
  /\ FixedSize \in Nat \ {0}
  /\ RecvMax \in Nat \ {0}
  /\ BufferSize \in Nat
  /\ FixedSize - 1 + RecvMax <= BufferSize
  /\ MaxPackets \in Nat
  /\ MaxConns \in Nat

VARIABLES conn,       \* number of the connection client_fd stands for
          sent,       \* bytes the equipment's send has put on it
          peerOpen,   \* has neither end closed it yet
          received,   \* bytes recv has returned on it
          buffer,     \* rb.buffer
          writePos,   \* rb.write_pos
          handled,    \* packets handle_packet has been called with on it
          unit,       \* packet_unit, the last packet extracted
          running,    \* g_running
          pc          \* "accept", "recv", "monitor", "process" or "exited"

vars == <<conn, sent, peerOpen, received, buffer, writePos, handled, unit, running, pc>>

Byte == Nat \X Nat
Zero == <<0, 0>>                 \* a byte of zeroed memory
BufIndex == 0 .. BufferSize - 1
UnitIndex == 0 .. FixedSize - 1
Packet(c, k) == [i \in UnitIndex |-> <<c, k * FixedSize + i>>]

TypeOK ==
  /\ conn \in 0 .. MaxConns
  /\ sent \in 0 .. MaxPackets * FixedSize
  /\ peerOpen \in BOOLEAN
  /\ received \in 0 .. sent
  /\ buffer \in [BufIndex -> Byte]
  /\ writePos \in 0 .. BufferSize
  /\ handled \in Nat
  /\ unit \in [UnitIndex -> Byte]
  /\ running \in BOOLEAN
  /\ pc \in {"accept", "recv", "monitor", "process", "exited"}

Init ==
  /\ conn = 0 /\ sent = 0 /\ peerOpen = FALSE /\ received = 0
  /\ buffer = [i \in BufIndex |-> Zero]
  /\ writePos = 0 /\ handled = 0
  /\ unit = [i \in UnitIndex |-> Zero]
  /\ running = TRUE /\ pc = "accept"

-----------------------------------------------------------------------------
(* The equipment: send_sensor_packet always sends FIXED_SIZE bytes; when   *)
(* the process dies a tail of what was not read yet is lost.  The operator *)
(* may signal the server.                                                  *)

PeerSend ==
  /\ peerOpen /\ sent + FixedSize <= MaxPackets * FixedSize
  /\ sent' = sent + FixedSize
  /\ UNCHANGED <<conn, peerOpen, received, buffer, writePos, handled, unit, running, pc>>

PeerClose ==
  /\ peerOpen
  /\ peerOpen' = FALSE
  /\ sent' \in received .. sent
  /\ UNCHANGED <<conn, received, buffer, writePos, handled, unit, running, pc>>

Signal ==
  /\ running /\ running' = FALSE
  /\ UNCHANGED <<conn, sent, peerOpen, received, buffer, writePos, handled, unit, pc>>

-----------------------------------------------------------------------------
(* The server.  run_client_loop starts with RecvBuffer rb = {.write_pos=0}.*)

FreshBuffer == [i \in BufIndex |-> Zero]
StaleWritePos == writePos
FreshWritePos == 0

Accept ==
  /\ pc = "accept" /\ running /\ conn < MaxConns
  /\ conn' = conn + 1 /\ peerOpen' = TRUE
  /\ sent' = 0 /\ received' = 0 /\ handled' = 0
  /\ buffer' = FreshBuffer /\ writePos' = FreshWritePos
  /\ pc' = "recv"
  /\ UNCHANGED <<unit, running>>

(* g_running is 0: the accept loop is left for the shutdown.               *)
StopAccepting ==
  /\ pc = "accept" /\ ~running
  /\ pc' = "exited"
  /\ UNCHANGED <<conn, sent, peerOpen, received, buffer, writePos, handled, unit, running>>

(* buffer_append: the n bytes that recv returned, copied at write_pos; a   *)
(* chunk that does not fit is dropped without a word.                      *)
FitsOnePacket(n) == writePos + n <= FixedSize
Fits(n) == writePos + n <= BufferSize
Appended(n) ==
  [i \in BufIndex |-> IF i \in writePos .. writePos + n - 1
                      THEN <<conn, received + (i - writePos)>>
                      ELSE buffer[i]]

BufferAppend(n) ==
  IF Fits(n)
  THEN buffer' = Appended(n) /\ writePos' = writePos + n
  ELSE UNCHANGED <<buffer, writePos>>

Recv(n) ==
  /\ pc = "recv" /\ running /\ received + n <= sent
  /\ BufferAppend(n)
  /\ received' = received + n
  /\ pc' = "monitor"
  /\ UNCHANGED <<conn, sent, peerOpen, handled, unit, running>>

RecvData == \E n \in 1 .. RecvMax : Recv(n)

(* monitor_accept_clients and monitor_periodic_task have returned.         *)
MonitorCalls ==
  /\ pc = "monitor"
  /\ pc' = "process"
  /\ UNCHANGED <<conn, sent, peerOpen, received, buffer, writePos, handled, unit, running>>

(* recv returned EAGAIN: the loop sleeps 10 ms and polls again.            *)
RecvWouldBlock ==
  /\ pc = "recv" /\ running /\ received = sent /\ peerOpen
  /\ UNCHANGED vars

(* recv returned 0 or an error: run_client_loop ends, run closes the       *)
(* socket and the RecvBuffer with its partial packet goes out of scope.    *)
RecvEnd ==
  /\ pc = "recv" /\ running /\ received = sent /\ ~peerOpen
  /\ pc' = "accept"
  /\ UNCHANGED <<conn, sent, peerOpen, received, buffer, writePos, handled, unit, running>>

(* g_running is 0: run_client_loop ends whatever is still to be received,  *)
(* and run closes the socket.                                              *)
StopReceiving ==
  /\ pc = "recv" /\ ~running
  /\ peerOpen' = FALSE
  /\ pc' = "accept"
  /\ UNCHANGED <<conn, sent, received, buffer, writePos, handled, unit, running>>

(* try_extract_packet: copy the first FIXED_SIZE bytes out, move the rest  *)
(* to the front.                                                           *)
Extracted == [i \in UnitIndex |-> buffer[i]]
OffByOneRemaining == writePos - FixedSize - 1
Remaining == writePos - FixedSize

NotShifted == buffer
Shifted ==
  [i \in BufIndex |-> IF i < Remaining THEN buffer[i + FixedSize] ELSE buffer[i]]

(* process_buffer calls try_extract_packet until it returns 0.             *)
OneTryOnly == "recv"
AfterPacket == "process"

ExtractPacket ==
  /\ pc = "process" /\ writePos >= FixedSize
  /\ unit' = Extracted
  /\ buffer' = Shifted
  /\ writePos' = Remaining
  /\ handled' = handled + 1
  /\ pc' = AfterPacket
  /\ UNCHANGED <<conn, sent, peerOpen, received, running>>

ProcessDone ==
  /\ pc = "process" /\ writePos < FixedSize
  /\ pc' = "recv"
  /\ UNCHANGED <<conn, sent, peerOpen, received, buffer, writePos, handled, unit, running>>

(* accept returned EAGAIN, once the bounded equipment reconnects no more.  *)
AcceptWouldBlock ==
  /\ pc = "accept" /\ running /\ conn = MaxConns
  /\ UNCHANGED vars

Server ==
  RecvData \/ RecvEnd \/ StopReceiving \/ StopAccepting \/ ExtractPacket \/ ProcessDone
Next ==
  \/ Server \/ Accept \/ MonitorCalls \/ PeerSend \/ PeerClose \/ Signal
  \/ RecvWouldBlock \/ AcceptWouldBlock
  \/ pc = "exited" /\ UNCHANGED vars

Spec == Init /\ [][Next]_vars

(* The thread runs; that a call of monitor_periodic_task returns is not    *)
(* taken for granted, so MonitorCalls has no fairness.                     *)
FairSpec == Spec /\ WF_vars(Server)

-----------------------------------------------------------------------------
(* Every byte recv returned is either in a packet already handed to        *)
(* handle_packet or still in the buffer: buffer_append's silent drop       *)
(* (hsms_receiver.c:8) never happens, whatever sizes recv returns.         *)
NoByteDropped == received = handled * FixedSize + writePos

(* The k-th packet handed to handle_packet on a connection is exactly the  *)
(* k-th packet sent on it: no byte of it is stale, shifted or from the     *)
(* connection before (the memmove in try_extract_packet, the fresh         *)
(* RecvBuffer of run_client_loop).                                         *)
PacketsAligned == handled > 0 => unit = Packet(conn, handled - 1)

(* The receive path implements the packet channel that controller.c needs. *)
Channel == INSTANCE PacketChannel
  WITH PacketSize <- FixedSize, sent <- sent \div FixedSize, handed <- handled
ChannelSpec == Channel!Spec

(* Once its last byte is received a packet is handled, also when the peer  *)
(* has closed or g_running is 0: no complete packet is left in the buffer, *)
(* neither for the next recv nor when the loop ends.  One that is only     *)
(* sent is handled unless it was in the tail a dying equipment lost or the *)
(* server is told to stop (run_server.c:27).  Either waits as long as the  *)
(* thread is held up in monitor_periodic_task (run_server.c:46).           *)
HeldUp == pc = "monitor"
CompletePacketsHandled ==
  \A k \in 1 .. MaxPackets, c \in 1 .. MaxConns :
    /\ conn = c /\ received >= k * FixedSize
         ~> (conn = c /\ handled >= k) \/ []HeldUp
    /\ conn = c /\ sent >= k * FixedSize
         ~> (conn = c /\ (handled >= k \/ sent < k * FixedSize)) \/ ~running \/ []HeldUp
=============================================================================
