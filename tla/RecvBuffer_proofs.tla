-------------------------- MODULE RecvBuffer_proofs --------------------------
(***************************************************************************)
(* The receive path for every packet size, buffer size and recv size with  *)
(* FixedSize - 1 + RecvMax <= BufferSize: IInv is inductive, so no byte is *)
(* dropped and every packet handed over is the right one; and the receive  *)
(* path implements PacketChannel.                                          *)
(***************************************************************************)
EXTENDS RecvBuffer, TLAPS

(* The strengthening that is inductive: the buffer holds the received but  *)
(* unhandled bytes in stream order, and recv is only called with less than *)
(* one packet in the buffer.                                               *)
BufferIsTail ==
  \A i \in BufIndex :
    i < writePos => buffer[i] = <<conn, handled * FixedSize + i>>
RoomBeforeRecv == pc \in {"accept", "recv", "exited"} => writePos < FixedSize
OpenIsConnected == peerOpen => conn > 0
IInv ==
  /\ TypeOK /\ NoByteDropped /\ PacketsAligned
  /\ BufferIsTail /\ RoomBeforeRecv /\ OpenIsConnected

(* TLAPS's SMT backend treats the product with a constant as nonlinear;    *)
(* these two facts are all the step proofs need of it.                     *)
LEMMA PacketOffset ==
  ASSUME NEW k \in Nat
  PROVE  /\ k * FixedSize \in Nat
         /\ (k + 1) * FixedSize = k * FixedSize + FixedSize
BY SizeAssumption

(* The initial state satisfies the inductive invariant.                    *)
THEOREM InitIInv == Init => IInv
<1> SUFFICES ASSUME Init PROVE IInv
  OBVIOUS
<1>1. 0 * FixedSize = 0 /\ MaxPackets * FixedSize \in Nat
  BY SizeAssumption
<1> USE SizeAssumption DEF Init
<1>2. [i \in BufIndex |-> Zero] \in [BufIndex -> Byte]
      /\ [i \in UnitIndex |-> Zero] \in [UnitIndex -> Byte]
  BY DEF Byte, Zero
<1>3. TypeOK
  <2>1. peerOpen \in BOOLEAN
    OBVIOUS
  <2>2. sent \in 0 .. MaxPackets * FixedSize /\ received \in 0 .. sent
    BY <1>1
  <2> QED BY <1>2, <2>1, <2>2 DEF TypeOK
<1>4. NoByteDropped
  BY <1>1 DEF NoByteDropped
<1>5. PacketsAligned /\ BufferIsTail /\ RoomBeforeRecv /\ OpenIsConnected
  BY DEF PacketsAligned, BufferIsTail, RoomBeforeRecv, OpenIsConnected, BufIndex
<1> QED BY <1>3, <1>4, <1>5 DEF IInv

LEMMA RecvIInv == ASSUME IInv, NEW n \in 1 .. RecvMax, Recv(n) PROVE IInv'
<1> USE SizeAssumption DEF BufIndex, UnitIndex
<1>0. TypeOK /\ NoByteDropped /\ PacketsAligned /\ BufferIsTail /\ RoomBeforeRecv
      /\ OpenIsConnected
  BY DEF IInv
<1>1. n \in Nat \ {0} /\ n <= RecvMax
  OBVIOUS
<1>2. handled * FixedSize \in Nat
  BY <1>0, PacketOffset DEF TypeOK
<1>3. writePos < FixedSize /\ Fits(n)
  BY <1>0, <1>1 DEF Recv, RoomBeforeRecv, Fits, TypeOK
<1>4. buffer' = Appended(n) /\ writePos' = writePos + n /\ received' = received + n
  BY <1>3 DEF Recv, BufferAppend
<1>5. UNCHANGED <<conn, sent, peerOpen, handled, unit, running>> /\ pc' = "monitor"
  BY DEF Recv
<1>6. received + n <= sent /\ writePos + n <= BufferSize
  BY <1>3 DEF Recv, Fits
<1>7. buffer' \in [BufIndex -> Byte]
  <2>1. ASSUME NEW i \in BufIndex, i \in writePos .. writePos + n - 1
        PROVE  <<conn, received + (i - writePos)>> \in Byte
    BY <1>0, <1>1, <2>1 DEF TypeOK, Byte
  <2> QED BY <1>0, <1>4, <2>1 DEF TypeOK, Appended
<1>8. TypeOK'
  BY <1>0, <1>1, <1>4, <1>5, <1>6, <1>7 DEF TypeOK
<1>9. NoByteDropped'
  BY <1>0, <1>1, <1>2, <1>4, <1>5 DEF TypeOK, NoByteDropped
<1>10. PacketsAligned'
  BY <1>0, <1>5 DEF PacketsAligned, Packet
<1>11. BufferIsTail'
  <2> SUFFICES ASSUME NEW i \in BufIndex, i < writePos + n
               PROVE  buffer'[i] = <<conn, handled * FixedSize + i>>
    BY <1>4, <1>5 DEF BufferIsTail
  <2>1. CASE i < writePos
    <3>1. i \notin writePos .. writePos + n - 1
      BY <1>0, <1>1, <2>1 DEF TypeOK
    <3> QED BY <1>0, <1>4, <2>1, <3>1 DEF Appended, BufferIsTail
  <2>2. CASE i >= writePos
    <3>0. i \in writePos .. writePos + n - 1 /\ writePos \in Nat
      BY <1>0, <1>1, <2>2 DEF TypeOK
    <3>1. buffer'[i] = <<conn, received + (i - writePos)>>
      BY <1>4, <3>0 DEF Appended
    <3>2. received = handled * FixedSize + writePos
      BY <1>0 DEF NoByteDropped
    <3>3. received + (i - writePos) = handled * FixedSize + i
      BY <1>2, <3>0, <3>2
    <3> QED BY <3>1, <3>3
  <2>3. i \in Int /\ writePos \in Int
    BY <1>0 DEF TypeOK
  <2> QED BY <2>1, <2>2, <2>3
<1>12. RoomBeforeRecv' /\ OpenIsConnected'
  BY <1>0, <1>5 DEF RoomBeforeRecv, OpenIsConnected
<1> QED BY <1>8, <1>9, <1>10, <1>11, <1>12 DEF IInv

LEMMA ExtractIInv == ASSUME IInv, ExtractPacket PROVE IInv'
<1> USE SizeAssumption DEF BufIndex, UnitIndex
<1>0. TypeOK /\ NoByteDropped /\ PacketsAligned /\ BufferIsTail /\ RoomBeforeRecv
      /\ OpenIsConnected
  BY DEF IInv
<1>1. /\ handled * FixedSize \in Nat
      /\ (handled + 1) * FixedSize = handled * FixedSize + FixedSize
  BY <1>0, PacketOffset DEF TypeOK
<1>2. /\ writePos >= FixedSize /\ writePos' = writePos - FixedSize
      /\ unit' = Extracted /\ buffer' = Shifted /\ handled' = handled + 1
      /\ UNCHANGED <<conn, sent, peerOpen, received, running>> /\ pc' = "process"
  BY DEF ExtractPacket, Remaining, AfterPacket
<1>3. unit' \in [UnitIndex -> Byte] /\ buffer' \in [BufIndex -> Byte]
  <2>1. ASSUME NEW i \in BufIndex, i < writePos - FixedSize
        PROVE  i + FixedSize \in BufIndex
    BY <1>0, <2>1 DEF TypeOK
  <2>2. UnitIndex \subseteq BufIndex
    BY <1>0, <1>2 DEF TypeOK
  <2> QED BY <1>0, <1>2, <2>1, <2>2 DEF TypeOK, Extracted, Shifted, Remaining
<1>4. TypeOK'
  BY <1>0, <1>2, <1>3 DEF TypeOK
<1>5. NoByteDropped'
  BY <1>0, <1>1, <1>2 DEF TypeOK, NoByteDropped
<1>6. PacketsAligned'
  <2>1. ASSUME NEW i \in UnitIndex
        PROVE  unit'[i] = <<conn, handled * FixedSize + i>>
    <3>1. i \in BufIndex /\ i < writePos
      BY <1>0, <1>2 DEF TypeOK
    <3> QED BY <1>0, <1>2, <3>1 DEF BufferIsTail, Extracted
  <2>2. unit' = Packet(conn, handled)
    BY <1>2, <2>1 DEF Packet, Extracted
  <2>3. handled' - 1 = handled
    BY <1>0, <1>2 DEF TypeOK
  <2> QED BY <1>2, <2>2, <2>3 DEF PacketsAligned, Packet
<1>7. BufferIsTail'
  <2> SUFFICES ASSUME NEW i \in BufIndex, i < writePos - FixedSize
               PROVE  buffer'[i] = <<conn, (handled + 1) * FixedSize + i>>
    BY <1>2 DEF BufferIsTail
  <2>1. i + FixedSize \in BufIndex /\ i + FixedSize < writePos
    BY <1>0 DEF TypeOK
  <2>2. buffer'[i] = buffer[i + FixedSize]
    BY <1>2 DEF Shifted, Remaining
  <2>3. buffer[i + FixedSize] = <<conn, handled * FixedSize + (i + FixedSize)>>
    BY <1>0, <2>1 DEF BufferIsTail
  <2>4. handled * FixedSize + (i + FixedSize) = (handled + 1) * FixedSize + i
    BY <1>1
  <2> QED BY <2>2, <2>3, <2>4
<1>8. RoomBeforeRecv' /\ OpenIsConnected'
  BY <1>0, <1>2 DEF RoomBeforeRecv, OpenIsConnected
<1> QED BY <1>4, <1>5, <1>6, <1>7, <1>8 DEF IInv

(* Every step of the receive path preserves the inductive invariant.       *)
THEOREM StepIInv == IInv /\ [Next]_vars => IInv'
<1> SUFFICES ASSUME IInv, [Next]_vars PROVE IInv'
  OBVIOUS
<1> USE SizeAssumption
<1>0. TypeOK /\ NoByteDropped /\ PacketsAligned /\ BufferIsTail /\ RoomBeforeRecv
      /\ OpenIsConnected
  BY DEF IInv
<1>1. CASE RecvData
  BY <1>1, RecvIInv DEF RecvData
<1>2. CASE ExtractPacket
  BY <1>2, ExtractIInv
<1>3. CASE Accept
  <2>1. 0 * FixedSize = 0 /\ MaxPackets * FixedSize \in Nat
    OBVIOUS
  <2>2. TypeOK'
    <3>1. [i \in BufIndex |-> Zero] \in [BufIndex -> Byte]
      BY DEF Byte, Zero
    <3> QED BY <1>0, <1>3, <2>1, <3>1 DEF Accept, TypeOK, FreshBuffer, FreshWritePos
  <2>3. NoByteDropped' /\ PacketsAligned' /\ BufferIsTail' /\ RoomBeforeRecv'
        /\ OpenIsConnected'
    BY <1>0, <1>3, <2>1 DEF TypeOK, OpenIsConnected, Accept, FreshWritePos, NoByteDropped, PacketsAligned,
                      BufferIsTail, BufIndex, RoomBeforeRecv
  <2> QED BY <2>2, <2>3 DEF IInv
<1>4. CASE PeerSend
  <2>1. MaxPackets * FixedSize \in Nat
    OBVIOUS
  <2>2. TypeOK'
    BY <1>0, <1>4, <2>1 DEF PeerSend, TypeOK
  <2> QED BY <1>0, <1>4, <2>2 DEF PeerSend, IInv, NoByteDropped, PacketsAligned,
                                  Packet, BufferIsTail, RoomBeforeRecv, OpenIsConnected
<1>5. CASE PeerClose
  <2>1. MaxPackets * FixedSize \in Nat
    OBVIOUS
  <2>2. TypeOK'
    <3>1. peerOpen' \in BOOLEAN
      BY <1>5 DEF PeerClose
    <3>2. sent' \in 0 .. MaxPackets * FixedSize /\ received' \in 0 .. sent'
      BY <1>0, <1>5, <2>1 DEF PeerClose, TypeOK
    <3> QED BY <1>0, <1>5, <3>1, <3>2 DEF PeerClose, TypeOK
  <2> QED BY <1>0, <1>5, <2>2 DEF PeerClose, IInv, NoByteDropped, PacketsAligned,
                                  Packet, BufferIsTail, RoomBeforeRecv, OpenIsConnected
<1>6. CASE RecvEnd
  BY <1>0, <1>6 DEF RecvEnd, IInv, TypeOK, NoByteDropped, PacketsAligned, Packet,
                    BufferIsTail, RoomBeforeRecv, OpenIsConnected
<1>7. CASE ProcessDone
  BY <1>0, <1>7 DEF ProcessDone, IInv, TypeOK, NoByteDropped, PacketsAligned, Packet,
                    BufferIsTail, RoomBeforeRecv, OpenIsConnected
<1>9. CASE StopReceiving
  BY <1>0, <1>9 DEF StopReceiving, IInv, TypeOK, NoByteDropped, PacketsAligned, Packet,
                    BufferIsTail, RoomBeforeRecv, OpenIsConnected
<1>10. CASE StopAccepting
  BY <1>0, <1>10 DEF StopAccepting, IInv, TypeOK, NoByteDropped, PacketsAligned, Packet,
                    BufferIsTail, RoomBeforeRecv, OpenIsConnected
<1>11. CASE MonitorCalls
  BY <1>0, <1>11 DEF MonitorCalls, IInv, TypeOK, NoByteDropped, PacketsAligned, Packet,
                    BufferIsTail, RoomBeforeRecv, OpenIsConnected
<1>12. CASE Signal
  BY <1>0, <1>12 DEF Signal, IInv, TypeOK, NoByteDropped, PacketsAligned, Packet,
                    BufferIsTail, RoomBeforeRecv, OpenIsConnected
<1>8. CASE RecvWouldBlock \/ AcceptWouldBlock \/ UNCHANGED vars
  BY <1>0, <1>8 DEF RecvWouldBlock, AcceptWouldBlock, vars, IInv, TypeOK, NoByteDropped,
                    PacketsAligned, Packet, BufferIsTail, RoomBeforeRecv, OpenIsConnected
<1> QED BY <1>1, <1>2, <1>3, <1>4, <1>5, <1>6, <1>7, <1>8, <1>9, <1>10, <1>11, <1>12
     DEF Next, Server

(* The strengthening holds in every state: what is received fits, and the  *)
(* buffer is the unhandled tail of the stream.                             *)
THEOREM AlwaysIInv == Spec => []IInv
BY InitIInv, StepIInv, PTL DEF Spec

(* The variables keep their types: write_pos stays inside the buffer.      *)
THEOREM TypeCorrect == Spec => []TypeOK
<1>1. IInv => TypeOK
  BY DEF IInv
<1> QED BY <1>1, AlwaysIInv, PTL

(* No byte that recv returned is ever dropped by buffer_append.            *)
THEOREM NeverDrops == Spec => []NoByteDropped
<1>1. IInv => NoByteDropped
  BY DEF IInv
<1> QED BY <1>1, AlwaysIInv, PTL

(* Every packet handed to handle_packet is the packet the equipment sent.  *)
THEOREM AlwaysAligned == Spec => []PacketsAligned
<1>1. IInv => PacketsAligned
  BY DEF IInv
<1> QED BY <1>1, AlwaysIInv, PTL

-----------------------------------------------------------------------------
LEMMA DivBounds ==
  ASSUME NEW s \in Nat
  PROVE  /\ s \div FixedSize \in Nat
         /\ (s \div FixedSize) * FixedSize <= s
         /\ s < (s \div FixedSize) * FixedSize + FixedSize
BY SizeAssumption, Z3

LEMMA LessByProduct ==
  ASSUME NEW a \in Nat, NEW b \in Nat, a * FixedSize < b * FixedSize
  PROVE  a < b
BY SizeAssumption

(* A whole packet within the first s bytes is one of the s \div FixedSize. *)
LEMMA DivAtLeast ==
  ASSUME NEW k \in Nat, NEW s \in Nat, k * FixedSize <= s
  PROVE  k <= s \div FixedSize
<1> DEFINE q == s \div FixedSize
<1>1. q \in Nat /\ s < q * FixedSize + FixedSize
  BY DivBounds
<1>2. (q + 1) * FixedSize = q * FixedSize + FixedSize /\ k * FixedSize \in Nat
      /\ q * FixedSize \in Nat
  BY <1>1, PacketOffset
<1> HIDE DEF q
<1>3. k * FixedSize < (q + 1) * FixedSize
  BY <1>1, <1>2, SizeAssumption
<1>4. k < q + 1
  BY <1>1, <1>3, LessByProduct
<1> QED BY <1>1, <1>4 DEF q

LEMMA DivMonotone ==
  ASSUME NEW r \in Nat, NEW s \in Nat, r <= s
  PROVE  r \div FixedSize <= s \div FixedSize
<1> DEFINE q == r \div FixedSize
<1>1. q \in Nat /\ q * FixedSize <= r
  BY DivBounds
<1>2. q * FixedSize \in Nat
  BY <1>1, PacketOffset
<1> HIDE DEF q
<1>3. q <= s \div FixedSize
  BY <1>1, <1>2, DivAtLeast
<1> QED BY <1>3 DEF q

LEMMA DivOfOneMore ==
  ASSUME NEW s \in Nat
  PROVE  (s + FixedSize) \div FixedSize = s \div FixedSize + 1
<1> DEFINE p == s \div FixedSize
           q == (s + FixedSize) \div FixedSize
<1>1. p \in Nat /\ p * FixedSize <= s /\ s < p * FixedSize + FixedSize
  BY DivBounds
<1>2. s + FixedSize \in Nat
  BY SizeAssumption
<1>3. q \in Nat /\ q * FixedSize <= s + FixedSize
  BY <1>2, DivBounds
<1>4. p + 1 <= q
  <2>1. (p + 1) * FixedSize <= s + FixedSize
    BY <1>1, PacketOffset, SizeAssumption
  <2> HIDE DEF p, q
  <2> QED BY <1>1, <1>2, <2>1, DivAtLeast DEF q
<1> HIDE DEF p, q
<1>5. q < p + 2
  <2>1. (p + 2) * FixedSize = p * FixedSize + FixedSize + FixedSize
    <3>1. (p + 1) + 1 = p + 2
      BY <1>1
    <3> QED BY <1>1, <3>1, PacketOffset, SizeAssumption
  <2>2. p * FixedSize \in Nat /\ q * FixedSize \in Nat
    BY <1>1, <1>3, PacketOffset
  <2>3. q * FixedSize < (p + 2) * FixedSize
    BY <1>1, <1>3, <2>1, <2>2, SizeAssumption
  <2> QED BY <1>1, <1>3, <2>3, LessByProduct
<1> QED BY <1>1, <1>3, <1>4, <1>5 DEF p, q

LEMMA ChannelInit == Init => Channel!Init
BY DivBounds, SizeAssumption DEF Init, Channel!Init, UnitIndex, Zero

(* Every step of the receive path is a step of the channel or leaves what  *)
(* the channel shows unchanged.                                            *)
LEMMA ChannelStep == IInv /\ [Next]_vars => [Channel!Next]_(Channel!vars)
<1> SUFFICES ASSUME IInv, [Next]_vars PROVE [Channel!Next]_(Channel!vars)
  OBVIOUS
<1> USE SizeAssumption
<1>0. TypeOK /\ NoByteDropped /\ PacketsAligned /\ BufferIsTail /\ RoomBeforeRecv
      /\ OpenIsConnected
  BY DEF IInv
<1>1. handled \in Nat /\ sent \in Nat /\ received \in Nat /\ writePos \in Nat
      /\ received <= sent /\ handled * FixedSize \in Nat
  BY <1>0, PacketOffset DEF TypeOK
<1>2. handled * FixedSize <= received
  BY <1>0, <1>1 DEF NoByteDropped
<1>3. CASE ExtractPacket
  <2>1. (handled + 1) * FixedSize <= sent
    BY <1>0, <1>1, <1>3, PacketOffset DEF ExtractPacket, NoByteDropped
  <2>2. handled + 1 <= sent \div FixedSize
    BY <1>1, <2>1, DivAtLeast
  <2>3. unit' = Packet(conn, handled)
    <3>1. IInv'
      BY <1>3, ExtractIInv
    <3>2. handled' = handled + 1 /\ conn' = conn
      BY <1>3 DEF ExtractPacket
    <3>3. handled' > 0 => unit' = Packet(conn', handled' - 1)
      BY <3>1 DEF IInv, PacketsAligned, Packet
    <3> QED BY <1>1, <3>2, <3>3
  <2>4. Channel!HandOver
    BY <1>1, <1>3, <2>2, <2>3, DivBounds
    DEF ExtractPacket, Channel!HandOver, Channel!Packet, Packet, UnitIndex
  <2> QED BY <2>4 DEF Channel!Next
<1>4. CASE Accept
  <2>1. sent' \div FixedSize = 0
    BY <1>4, DivBounds DEF Accept
  <2>2. Channel!Connect
    BY <1>4, <2>1 DEF Accept, Channel!Connect
  <2> QED BY <2>2 DEF Channel!Next
<1>5. CASE PeerSend
  <2>1. conn > 0
    BY <1>0, <1>5 DEF PeerSend, OpenIsConnected
  <2>2. sent' \div FixedSize = sent \div FixedSize + 1
    BY <1>1, <1>5, DivOfOneMore DEF PeerSend
  <2>3. sent \div FixedSize < MaxPackets
    <3> DEFINE q == sent \div FixedSize
    <3>1. q \in Nat /\ q * FixedSize <= sent
      BY <1>1, DivBounds
    <3>2. q * FixedSize \in Nat /\ MaxPackets * FixedSize \in Nat
      BY <3>1, PacketOffset
    <3> HIDE DEF q
    <3>3. q * FixedSize < MaxPackets * FixedSize
      BY <1>1, <1>5, <3>1, <3>2 DEF PeerSend
    <3>4. q < MaxPackets
      BY <3>1, <3>3, LessByProduct
    <3> QED BY <3>4 DEF q
  <2>4. Channel!Send
    BY <1>5, <2>1, <2>2, <2>3 DEF PeerSend, Channel!Send
  <2> QED BY <2>4 DEF Channel!Next
<1>6. CASE PeerClose
  <2>1. sent' \in Nat /\ sent' <= sent /\ received <= sent'
    BY <1>1, <1>6 DEF PeerClose
  <2>2. /\ handled <= sent' \div FixedSize
        /\ sent' \div FixedSize <= sent \div FixedSize
        /\ sent' \div FixedSize \in Nat
    <3>1. handled * FixedSize <= sent'
      BY <1>1, <1>2, <2>1
    <3> QED BY <1>1, <2>1, <3>1, DivAtLeast, DivMonotone, DivBounds
  <2>3. UNCHANGED <<conn, handled, unit>>
    BY <1>6 DEF PeerClose
  <2>4. sent \div FixedSize \in Nat
    BY <1>1, DivBounds
  <2>5. sent' \div FixedSize \in handled .. sent \div FixedSize
    BY <1>1, <2>2, <2>4
  <2>6. Channel!LoseTail
    BY <2>3, <2>5 DEF Channel!LoseTail
  <2> QED BY <2>6 DEF Channel!Next
<1>7. CASE RecvData
  BY <1>7 DEF RecvData, Recv, Channel!vars
<1>8. CASE RecvEnd \/ StopReceiving \/ StopAccepting \/ ProcessDone \/ MonitorCalls \/ Signal
  BY <1>8 DEF RecvEnd, StopReceiving, StopAccepting, ProcessDone, MonitorCalls, Signal, Channel!vars
<1>9. CASE RecvWouldBlock \/ AcceptWouldBlock \/ UNCHANGED vars
  BY <1>9 DEF RecvWouldBlock, AcceptWouldBlock, vars, Channel!vars
<1> QED BY <1>3, <1>4, <1>5, <1>6, <1>7, <1>8, <1>9 DEF Next, Server

(* The receive path implements the packet channel: whole packets, in       *)
(* order, once each, and only the end of a connection loses a tail.        *)
THEOREM ImplementsChannel == Spec => ChannelSpec
BY ChannelInit, ChannelStep, AlwaysIInv, PTL DEF Spec, ChannelSpec, Channel!Spec
=============================================================================
