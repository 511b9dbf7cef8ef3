-------------------------- MODULE Equipment_proofs --------------------------
(***************************************************************************)
(* The threads of the equipment, for any number of modules and sensors,    *)
(* any periods, packet and socket sizes: socket_mutex keeps packets whole  *)
(* on the wire, and no reading is lost or sent twice while the connection  *)
(* is up.  The values they send, for any number of parts of a range: one   *)
(* is outside its class's range exactly when it was made abnormal.  The    *)
(* sensors, row by row of init_sensors: each is known to the log and the   *)
(* page, and what they all send fits the buffers, from stated sizes on.    *)
(***************************************************************************)
EXTENDS ModuleWorkers, SensorTables, SequenceTheorems, WellFoundedInduction, TLAPS

(* What makes the safety properties inductive: only the owner of the mutex *)
(* is past the lock; while the connection is up the wire ends with the     *)
(* pieces the one sender has put there and no more; every reading taken is *)
(* older than its sensor's deadline, so the next is a new one; and a       *)
(* packet being sent is the batch of its thread.                           *)
MutexHeld == \A m \in Modules : pc[m] \in {"build", "send", "unlock"} => holder = m
KilledWhenDown == \A m \in Modules : pc[m] = "killed" => ~up
SenderAtEnd ==
  up =>
    \A m \in Modules : pc[m] = "send" =>
      /\ part[m] < Parts /\ Len(wire) % Parts = part[m]
      /\ part[m] > 0 => wire[Len(wire)].packet = packet[m]
WholeBetween ==
  up /\ (\A m \in Modules : pc[m] # "send") => Len(wire) % Parts = 0
SampledBeforeDue ==
  \A s \in Sensors, t \in Clock : <<s, t>> \in sampled => t < due[s]
BatchIsOwn == \A m \in Modules : batch[m] \subseteq Own(m)
PacketIsBatch ==
  \A m \in Modules : pc[m] = "send" =>
    packet[m].sensors = batch[m] /\ packet[m].timestamp = now[m]
WireInv ==
  /\ TypeOK /\ WireAtomic
  /\ MutexHeld /\ KilledWhenDown /\ SenderAtEnd /\ WholeBetween
IInv ==
  /\ WireInv /\ ReadingsConserved
  /\ SampledBeforeDue /\ BatchIsOwn /\ PacketIsBatch

(* The same for StreamSpec.  While the connection is up system_bytes are   *)
(* as many as the packets of the stream, and the sender's pieces follow    *)
(* them; deadlines only grow, so what a thread sends next is later, by the *)
(* sensor's period, than what is on the wire, wherever the clock is set.   *)
WholePackets == Len(wire) \div Parts
Numbered ==
  up => /\ (\A m \in Modules : pc[m] # "send") => gSys = WholePackets + 1
        /\ \A m \in Modules : pc[m] = "send" =>
             /\ gSys = WholePackets + 2
             /\ packet[m].module = m /\ packet[m].sys = WholePackets + 1
PiecesAtEnd ==
  up => \A m \in Modules : pc[m] = "send" =>
          \A i \in 1 .. part[m] :
            wire[Parts * WholePackets + i] = [packet |-> packet[m], part |-> i]
HasBatch(m) == pc[m] \in {"lock", "build", "send"}
BatchTimes ==
  \A m \in Modules : HasBatch(m) =>
    /\ batch[m] # {} /\ \A s \in batch[m] : now[m] + Period[s] <= due[s]
    /\ \A s \in Own(m) : now[m] < due[s]
SentBeforeDue ==
  \A k \in 1 .. WholePackets :
    /\ \A s \in Packets[k].sensors : Packets[k].timestamp + Period[s] <= due[s]
    /\ \A s \in Own(Packets[k].module) : Packets[k].timestamp < due[s]
BatchIsLater ==
  \A m \in Modules : HasBatch(m) => \A k \in 1 .. WholePackets :
    /\ \A s \in Packets[k].sensors \cap batch[m] :
         now[m] >= Packets[k].timestamp + Period[s]
    /\ Packets[k].module = m => now[m] > Packets[k].timestamp
SInv ==
  /\ IInv /\ Numbered /\ PiecesAtEnd
  /\ BatchTimes /\ SentBeforeDue /\ BatchIsLater

(* Division with remainder, and the remainder of the next number.          *)
LEMMA ModDiv ==
  ASSUME NEW n \in Nat, NEW p \in Nat \ {0}
  PROVE  /\ n \div p \in Nat
         /\ n % p \in 0 .. p - 1
         /\ n = (p * (n \div p)) + (n % p)
BY Z3

LEMMA ModUnique ==
  ASSUME NEW p \in Nat \ {0}, NEW q \in Nat, NEW r \in 0 .. p - 1,
         NEW n \in Nat, n = (p * q) + r
  PROVE  n % p = r
BY Z3

LEMMA ModStep ==
  ASSUME NEW n \in Nat, NEW p \in Nat \ {0}
  PROVE  (n + 1) % p = IF (n % p) + 1 = p THEN 0 ELSE (n % p) + 1
<1> DEFINE q == n \div p  r == n % p
<1>1. q \in Nat /\ r \in 0 .. p - 1 /\ n = (p * q) + r
  BY ModDiv
<1> HIDE DEF q, r
<1>2. CASE r + 1 = p
  <2>1. (p * (q + 1)) = (p * q) + p
    BY <1>1, Z3
  <2>2. n + 1 = (p * (q + 1)) + 0 /\ q + 1 \in Nat /\ 0 \in 0 .. p - 1 /\ n + 1 \in Nat
    BY <1>1, <1>2, <2>1
  <2>3. \A s \in Nat, m \in Nat : m = (p * s) + 0 => m % p = 0
    BY <2>2, ModUnique
  <2>4. (n + 1) % p = 0
    BY <2>2, <2>3
  <2> QED BY <1>2, <2>4 DEF r
<1>3. CASE r + 1 # p
  <2>1. n + 1 = (p * q) + (r + 1) /\ r + 1 \in 0 .. p - 1 /\ n + 1 \in Nat
    BY <1>1, <1>3
  <2>2. (n + 1) % p = r + 1
    BY <1>1, <2>1, ModUnique
  <2> QED BY <1>3, <2>2 DEF r
<1> QED BY <1>2, <1>3

-----------------------------------------------------------------------------
(* The wire.                                                               *)

LEMMA PeriodNat == ASSUME NEW s \in Sensors PROVE Period[s] \in Nat \ {0}
BY WorkersAssumption

LEMMA InitWire == Init => WireInv
<1> SUFFICES ASSUME Init PROVE WireInv
  OBVIOUS
<1> USE WorkersAssumption DEF Init
<1>1. TypeOK
  <2>1. due \in [Sensors -> Nat]
    BY DEF Clock
  <2>2. NoPacket \in Packet
    BY DEF NoPacket, Packet, Clock
  <2> QED BY <2>1, <2>2 DEF TypeOK, Clock
<1>2. WireAtomic
  BY DEF WireAtomic
<1>3. MutexHeld /\ KilledWhenDown /\ SenderAtEnd
  BY DEF MutexHeld, KilledWhenDown, SenderAtEnd
<1>4. WholeBetween
  <2>1. 0 \in 0 .. Parts - 1 /\ 0 = (Parts * 0) + 0
    OBVIOUS
  <2>2. 0 % Parts = 0
    BY <2>1, ModUnique
  <2> QED BY <2>2 DEF WholeBetween
<1> QED BY <1>1, <1>2, <1>3, <1>4 DEF WireInv

(* A step that leaves the wire, the senders and the connection alone, and  *)
(* lets no second thread past the lock.                                    *)
LEMMA QuietStep ==
  ASSUME WireInv, TypeOK', MutexHeld', KilledWhenDown',
         UNCHANGED <<wire, up, packet, part>>,
         \A m \in Modules : pc'[m] = "send" <=> pc[m] = "send"
  PROVE  WireInv'
<1>1. WireAtomic'
  BY DEF WireInv, WireAtomic
<1>2. SenderAtEnd' /\ WholeBetween'
  BY DEF WireInv, SenderAtEnd, WholeBetween
<1> QED BY <1>1, <1>2 DEF WireInv

LEMMA ScanWire == ASSUME WireInv, NEW m \in Modules, Scan(m) PROVE WireInv'
<1> DEFINE ready == {s \in Own(m) : clock >= due[s]}
<1>1. TypeOK /\ MutexHeld /\ KilledWhenDown
  BY DEF WireInv
<1>2. /\ pc[m] = "scan"
      /\ now' = [now EXCEPT ![m] = clock]
      /\ batch' = [batch EXCEPT ![m] = ready]
      /\ due' = [s \in Sensors |-> IF s \in ready THEN NextTime(s, clock) ELSE due[s]]
      /\ sampled' = sampled \cup (ready \X {clock})
      /\ pc' = [pc EXCEPT ![m] = IF ready = {} THEN "scan" ELSE "lock"]
      /\ UNCHANGED <<clock, packet, part, holder, gSys, wire, consumed, up>>
  BY DEF Scan
<1>3. ready \subseteq Sensors
  BY DEF Own
<1> HIDE DEF ready
<1>4. TypeOK'
  <2>1. due' \in [Sensors -> Nat]
    BY <1>1, <1>2, PeriodNat DEF TypeOK, NextTime, Clock
  <2>2. sampled' \subseteq Sensors \X Clock
    BY <1>1, <1>2, <1>3 DEF TypeOK
  <2>3. pc' \in [Modules -> {"scan", "lock", "build", "send", "unlock", "killed"}]
        /\ now' \in [Modules -> Clock] /\ batch' \in [Modules -> SUBSET Sensors]
    BY <1>1, <1>2, <1>3 DEF TypeOK
  <2> QED BY <1>1, <1>2, <2>1, <2>2, <2>3 DEF TypeOK
<1>5. MutexHeld' /\ KilledWhenDown'
  BY <1>1, <1>2 DEF MutexHeld, KilledWhenDown, TypeOK
<1>6. \A n \in Modules : pc'[n] = "send" <=> pc[n] = "send"
  BY <1>1, <1>2 DEF TypeOK
<1> QED BY <1>2, <1>4, <1>5, <1>6, QuietStep

LEMMA LockWire == ASSUME WireInv, NEW m \in Modules, Lock(m) PROVE WireInv'
<1>1. TypeOK /\ MutexHeld /\ KilledWhenDown
  BY DEF WireInv
<1>2. TypeOK'
  BY <1>1 DEF TypeOK, Lock
<1>3. MutexHeld' /\ KilledWhenDown'
  BY <1>1, WorkersAssumption DEF MutexHeld, KilledWhenDown, TypeOK, Lock, MutexFree
<1>4. \A n \in Modules : pc'[n] = "send" <=> pc[n] = "send"
  BY <1>1 DEF TypeOK, Lock
<1> QED BY <1>2, <1>3, <1>4, QuietStep DEF Lock

LEMMA BuildWire == ASSUME WireInv, NEW m \in Modules, Build(m) PROVE WireInv'
<1> USE WorkersAssumption
<1>1. TypeOK /\ MutexHeld /\ KilledWhenDown /\ WholeBetween /\ WireAtomic
  BY DEF WireInv
<1> DEFINE p == [module |-> m, sys |-> gSys, timestamp |-> now[m], sensors |-> batch[m]]
<1>2. /\ pc[m] = "build"
      /\ packet' = [packet EXCEPT ![m] = p]
      /\ gSys' = gSys + 1
      /\ part' = [part EXCEPT ![m] = 0]
      /\ pc' = [pc EXCEPT ![m] = "send"]
      /\ UNCHANGED <<clock, now, due, batch, holder, wire, consumed, up, sampled>>
  BY DEF Build, Timestamp
<1>3. p \in Packet
  BY <1>1 DEF TypeOK, Packet
<1> HIDE DEF p
<1>4. TypeOK'
  <2>1. packet' \in [Modules -> Packet] /\ gSys' \in Nat
    BY <1>1, <1>2, <1>3 DEF TypeOK
  <2>2. part' \in [Modules -> 0 .. Parts]
    BY <1>1, <1>2 DEF TypeOK
  <2>3. pc' \in [Modules -> {"scan", "lock", "build", "send", "unlock", "killed"}]
    BY <1>1, <1>2 DEF TypeOK
  <2> QED BY <1>1, <1>2, <2>1, <2>2, <2>3 DEF TypeOK
<1>5. MutexHeld' /\ KilledWhenDown'
  BY <1>1, <1>2 DEF MutexHeld, KilledWhenDown, TypeOK
<1>6. WireAtomic'
  BY <1>1, <1>2 DEF WireAtomic
<1>7. \A n \in Modules : pc[n] # "send" /\ (pc'[n] = "send" => n = m)
  BY <1>1, <1>2 DEF MutexHeld, TypeOK
<1>8. SenderAtEnd'
  BY <1>1, <1>2, <1>7 DEF SenderAtEnd, WholeBetween, TypeOK
<1>9. WholeBetween'
  BY <1>1, <1>2 DEF WholeBetween, TypeOK
<1> QED BY <1>4, <1>5, <1>6, <1>8, <1>9 DEF WireInv

LEMMA SendPieceWire == ASSUME WireInv, NEW m \in Modules, SendPiece(m) PROVE WireInv'
<1> USE WorkersAssumption
<1>1. TypeOK /\ MutexHeld /\ KilledWhenDown /\ SenderAtEnd /\ WireAtomic
  BY DEF WireInv
<1> DEFINE piece == [packet |-> packet[m], part |-> part[m] + 1]
<1>2. /\ pc[m] = "send" /\ up
      /\ wire' = Append(wire, piece)
      /\ part' = [part EXCEPT ![m] = part[m] + 1]
      /\ pc' = [pc EXCEPT ![m] = AfterPiece(m)]
      /\ UNCHANGED <<clock, now, due, batch, packet, holder, gSys, consumed, up, sampled>>
  BY DEF SendPiece
<1>3. /\ part[m] \in Nat /\ part[m] < Parts /\ Len(wire) % Parts = part[m]
      /\ part[m] > 0 => wire[Len(wire)].packet = packet[m]
  BY <1>1, <1>2 DEF SenderAtEnd, TypeOK
<1>4. piece \in Piece /\ wire \in Seq(Piece) /\ Len(wire) \in Nat
  BY <1>1, <1>3 DEF TypeOK, Piece
<1>5. piece.packet = packet[m] /\ piece.part = part[m] + 1
  OBVIOUS
<1> HIDE DEF piece
<1>6. /\ Len(wire') = Len(wire) + 1 /\ wire'[Len(wire) + 1] = piece
      /\ \A i \in 1 .. Len(wire) : wire'[i] = wire[i]
  BY <1>2, <1>4
<1>7. AfterPiece(m) \in {"send", "unlock"}
      /\ (AfterPiece(m) = "unlock" <=> part[m] + 1 = Parts)
  BY DEF AfterPiece
<1>8. TypeOK'
  <2>1. wire' \in Seq(Piece)
    BY <1>2, <1>4
  <2>2. part' \in [Modules -> 0 .. Parts]
    BY <1>1, <1>2, <1>3 DEF TypeOK
  <2>3. pc' \in [Modules -> {"scan", "lock", "build", "send", "unlock", "killed"}]
    BY <1>1, <1>2, <1>7 DEF TypeOK
  <2> QED BY <1>1, <1>2, <2>1, <2>2, <2>3 DEF TypeOK
<1>9. MutexHeld' /\ KilledWhenDown'
  BY <1>1, <1>2, <1>7 DEF MutexHeld, KilledWhenDown, TypeOK
<1>10. WireAtomic'
  <2> SUFFICES ASSUME NEW i \in 1 .. Len(wire')
               PROVE  /\ wire'[i].part = 1 + ((i - 1) % Parts)
                      /\ wire'[i].part > 1 => wire'[i].packet = wire'[i - 1].packet
    BY DEF WireAtomic
  <2>1. CASE i \in 1 .. Len(wire)
    <3>1. i - 1 \in 1 .. Len(wire) \/ i = 1
      BY <1>4, <2>1
    <3>2. (1 - 1) % Parts = 0
      BY ModUnique
    <3>3. CASE i = 1
      BY <1>1, <1>4, <1>6, <2>1, <3>2, <3>3 DEF WireAtomic
    <3>4. CASE i # 1
      BY <1>1, <1>4, <1>6, <2>1, <3>1, <3>4 DEF WireAtomic
    <3> QED BY <3>3, <3>4
  <2>2. CASE i = Len(wire) + 1
    <3>1. wire'[i].part = 1 + ((i - 1) % Parts)
      BY <1>3, <1>4, <1>5, <1>6, <2>2
    <3>2. ASSUME part[m] > 0 PROVE Len(wire) \in 1 .. Len(wire)
      <4>1. 0 % Parts = 0
        BY ModUnique
      <4> QED BY <1>3, <1>4, <3>2, <4>1
    <3>3. wire'[i].part > 1 => wire'[i].packet = wire'[i - 1].packet
      BY <1>3, <1>4, <1>5, <1>6, <2>2, <3>2
    <3> QED BY <3>1, <3>3
  <2> QED BY <1>4, <1>6, <2>1, <2>2
<1>11. (Len(wire) + 1) % Parts = IF part[m] + 1 = Parts THEN 0 ELSE part[m] + 1
  <2>1. (Len(wire) + 1) % Parts =
          IF (Len(wire) % Parts) + 1 = Parts THEN 0 ELSE (Len(wire) % Parts) + 1
    BY <1>4, ModStep
  <2> QED BY <1>3, <2>1, Zenon
<1>12. \A n \in Modules : n # m => pc[n] # "send" /\ pc'[n] # "send"
  BY <1>1, <1>2 DEF MutexHeld, TypeOK
<1>13. pc'[m] = AfterPiece(m) /\ part'[m] = part[m] + 1
  BY <1>1, <1>2 DEF TypeOK
<1>14. SenderAtEnd'
  BY <1>2, <1>3, <1>4, <1>5, <1>6, <1>7, <1>11, <1>12, <1>13 DEF SenderAtEnd
<1>15. WholeBetween'
  BY <1>6, <1>7, <1>11, <1>13 DEF WholeBetween
<1> QED BY <1>8, <1>9, <1>10, <1>14, <1>15 DEF WireInv

(* The steps left: leaving send when the connection is gone, unlocking,    *)
(* and those of the server and the clock.                                  *)
LEMMA DownWire ==
  ASSUME WireInv, NEW m \in Modules, SendFails(m) \/ Killed(m)
  PROVE  WireInv'
<1>1. TypeOK /\ MutexHeld /\ KilledWhenDown /\ WireAtomic
  BY DEF WireInv
<1>2. /\ ~up /\ pc[m] = "send"
      /\ \/ pc' = [pc EXCEPT ![m] = "unlock"]
         \/ pc' = [n \in Modules |-> "killed"]
      /\ UNCHANGED <<clock, now, due, batch, packet, part, holder, gSys, wire, consumed,
                     up, sampled>>
  BY DEF SendFails, Killed
<1>3. TypeOK' /\ MutexHeld' /\ KilledWhenDown'
  BY <1>1, <1>2 DEF TypeOK, MutexHeld, KilledWhenDown
<1>4. WireAtomic'
  BY <1>1, <1>2 DEF WireAtomic
<1>5. SenderAtEnd' /\ WholeBetween'
  BY <1>2 DEF SenderAtEnd, WholeBetween
<1> QED BY <1>3, <1>4, <1>5 DEF WireInv

LEMMA UnlockWire == ASSUME WireInv, NEW m \in Modules, Unlock(m) PROVE WireInv'
<1>1. TypeOK /\ MutexHeld /\ KilledWhenDown
  BY DEF WireInv
<1>2. TypeOK'
  BY <1>1 DEF TypeOK, Unlock
<1>3. MutexHeld' /\ KilledWhenDown'
  BY <1>1 DEF MutexHeld, KilledWhenDown, TypeOK, Unlock
<1>4. \A n \in Modules : pc'[n] = "send" <=> pc[n] = "send"
  BY <1>1 DEF TypeOK, Unlock
<1> QED BY <1>2, <1>3, <1>4, QuietStep DEF Unlock

LEMMA OutsideWire ==
  ASSUME WireInv, ServerReads \/ ServerGone \/ Tick \/ StepBack \/ UNCHANGED vars
  PROVE  WireInv'
<1>1. TypeOK /\ MutexHeld /\ KilledWhenDown /\ WireAtomic
      /\ SenderAtEnd /\ WholeBetween
  BY DEF WireInv
<1>2. /\ UNCHANGED <<pc, now, due, batch, packet, part, holder, gSys, wire, sampled>>
      /\ up' = up \/ up' = FALSE
      /\ clock' \in Clock /\ consumed' \in Nat
  BY <1>1, WorkersAssumption
  DEF TypeOK, Clock, ServerReads, ServerGone, Tick, StepBack, vars
<1>3. TypeOK'
  BY <1>1, <1>2 DEF TypeOK
<1>4. MutexHeld' /\ KilledWhenDown' /\ WireAtomic'
  BY <1>1, <1>2 DEF MutexHeld, KilledWhenDown, WireAtomic, TypeOK
<1>5. SenderAtEnd' /\ WholeBetween'
  BY <1>1, <1>2 DEF SenderAtEnd, WholeBetween
<1> QED BY <1>3, <1>4, <1>5 DEF WireInv

LEMMA StepWire == WireInv /\ [Next]_vars => WireInv'
<1> SUFFICES ASSUME WireInv, [Next]_vars PROVE WireInv'
  OBVIOUS
<1>1. CASE \E m \in Modules : Worker(m) \/ Lock(m)
  BY <1>1, ScanWire, LockWire, BuildWire, SendPieceWire, DownWire, UnlockWire DEF Worker
<1>2. CASE ServerReads \/ ServerGone \/ Tick \/ StepBack \/ UNCHANGED vars
  BY <1>2, OutsideWire
<1> QED BY <1>1, <1>2 DEF Next

(* The variables keep their types, for any modules, sensors and sizes.     *)
THEOREM TypeCorrect == Spec => []TypeOK
<1>1. Spec => []WireInv
  BY InitWire, StepWire, PTL DEF Spec
<1> QED BY <1>1, PTL DEF WireInv

(* The pieces of a packet are never torn apart on the wire: socket_mutex   *)
(* is held from before the packet is built until its last piece is sent.   *)
THEOREM PacketsWhole == Spec => []WireAtomic
<1>1. Spec => []WireInv
  BY InitWire, StepWire, PTL DEF Spec
<1> QED BY <1>1, PTL DEF WireInv

-----------------------------------------------------------------------------
(* The readings.                                                           *)

LEMMA ReportedIs ==
  ASSUME NEW x
  PROVE  x \in Reported <=>
           \E i \in 1 .. Len(wire) :
             wire[i].part = Parts
             /\ x \in wire[i].packet.sensors \X {wire[i].packet.timestamp}
BY DEF Reported

LEMMA PendingIs ==
  ASSUME NEW x PROVE x \in Pending <=> \E m \in Modules : x \in Waiting(m)
BY DEF Pending

(* The batches of two threads hold different sensors.                      *)
LEMMA WaitingApart ==
  ASSUME BatchIsOwn, NEW m \in Modules, NEW n \in Modules, m # n
  PROVE  Waiting(m) \cap Waiting(n) = {}
<1>1. batch[m] \cap batch[n] = {}
  BY DEF BatchIsOwn, Own
<1>2. ASSUME NEW x \in Waiting(m), x \in Waiting(n) PROVE FALSE
  <2>1. x \in batch[m] \X {now[m]} /\ x \in batch[n] \X {now[n]}
    BY <1>2 DEF Waiting
  <2> QED BY <1>1, <2>1
<1> QED BY <1>2

LEMMA InitReadings == Init => IInv
<1> SUFFICES ASSUME Init PROVE IInv
  OBVIOUS
<1>1. ReadingsConserved
  <2>1. \A x : x \notin Reported
    BY ReportedIs DEF Init
  <2>2. \A x : x \notin Pending
    BY PendingIs DEF Init, Waiting
  <2> QED BY <2>1, <2>2 DEF Init, ReadingsConserved
<1>2. SampledBeforeDue /\ BatchIsOwn /\ PacketIsBatch
  BY DEF Init, SampledBeforeDue, BatchIsOwn, PacketIsBatch
<1> QED BY <1>1, <1>2, InitWire DEF IInv

(* A step that neither samples nor reports.                                *)
LEMMA QuietReadings ==
  ASSUME IInv, WireInv', PacketIsBatch',
         UNCHANGED <<wire, due, batch, now, sampled>>,
         up' => up /\ \A m \in Modules : Waiting(m)' = Waiting(m)
  PROVE  IInv'
<1>1. ReadingsConserved /\ SampledBeforeDue /\ BatchIsOwn
  BY DEF IInv
<1>2. Reported' = Reported
  BY DEF Reported
<1>3. up' => Pending' = Pending
  BY DEF Pending
<1>4. ReadingsConserved'
  BY <1>1, <1>2, <1>3 DEF ReadingsConserved
<1>5. SampledBeforeDue' /\ BatchIsOwn'
  BY <1>1 DEF SampledBeforeDue, BatchIsOwn
<1> QED BY <1>4, <1>5 DEF IInv

LEMMA ScanReadings == ASSUME IInv, NEW m \in Modules, Scan(m) PROVE IInv'
<1> DEFINE ready == {s \in Own(m) : clock >= due[s]}
           new == ready \X {clock}
<1>1. /\ TypeOK /\ ReadingsConserved /\ SampledBeforeDue /\ BatchIsOwn /\ PacketIsBatch
      /\ WireInv
  BY DEF IInv, WireInv
<1>2. /\ pc[m] = "scan"
      /\ now' = [now EXCEPT ![m] = clock]
      /\ batch' = [batch EXCEPT ![m] = ready]
      /\ due' = [s \in Sensors |-> IF s \in ready THEN NextTime(s, clock) ELSE due[s]]
      /\ sampled' = sampled \cup new
      /\ pc' = [pc EXCEPT ![m] = IF ready = {} THEN "scan" ELSE "lock"]
      /\ UNCHANGED <<clock, packet, part, holder, gSys, wire, consumed, up>>
  BY DEF Scan
<1>3. ready \subseteq Own(m) /\ ready \subseteq Sensors /\ \A s \in ready : clock >= due[s]
  BY DEF Own
<1>4. clock \in Clock /\ clock \in Int /\ due \in [Sensors -> Nat]
  BY <1>1, WorkersAssumption DEF TypeOK, Clock
<1>5. WireInv'
  BY <1>1, ScanWire
<1> HIDE DEF ready
<1>6. BatchIsOwn'
  BY <1>1, <1>2, <1>3 DEF BatchIsOwn, TypeOK, Own
<1>7. PacketIsBatch'
  BY <1>1, <1>2 DEF PacketIsBatch, TypeOK
<1>8. SampledBeforeDue'
  <2> SUFFICES ASSUME NEW s \in Sensors, NEW t \in Clock, <<s, t>> \in sampled'
               PROVE  t < due'[s]
    BY DEF SampledBeforeDue, Clock
  <2>1. due[s] \in Nat /\ Period[s] \in Nat \ {0} /\ t \in Int
    BY <1>4, PeriodNat DEF Clock
  <2>2. due'[s] = IF s \in ready THEN clock + Period[s] ELSE due[s]
    BY <1>2 DEF NextTime
  <2>3. CASE <<s, t>> \in sampled
    <3>1. t < due[s]
      BY <1>1, <2>3 DEF SampledBeforeDue
    <3> QED BY <1>3, <1>4, <2>1, <2>2, <3>1
  <2>4. CASE <<s, t>> \in new
    <3>1. s \in ready /\ t = clock
      BY <2>4
    <3> QED BY <1>4, <2>1, <2>2, <3>1
  <2> QED BY <1>2, <2>3, <2>4
<1>9. Reported' = Reported
  BY <1>2 DEF Reported
<1>10. Waiting(m) = {} /\ Waiting(m)' = new
  BY <1>1, <1>2 DEF Waiting, TypeOK
<1>11. \A n \in Modules : n # m => Waiting(n)' = Waiting(n)
  BY <1>1, <1>2 DEF Waiting, TypeOK
<1>12. Pending' = Pending \cup new
  <2>1. \A x : x \in Pending' <=> \E n \in Modules : x \in Waiting(n)'
    BY DEF Pending
  <2>2. \A x : x \in Pending <=> \E n \in Modules : x \in Waiting(n)
    BY PendingIs
  <2> HIDE DEF new
  <2> QED BY <1>10, <1>11, <2>1, <2>2
<1>13. new \cap sampled = {}
  <2> SUFFICES ASSUME NEW x \in new, x \in sampled PROVE FALSE
    OBVIOUS
  <2>1. PICK s \in ready : x = <<s, clock>>
    OBVIOUS
  <2>2. clock < due[s] /\ clock >= due[s] /\ due[s] \in Nat
    BY <1>1, <1>3, <1>4, <2>1 DEF SampledBeforeDue
  <2> QED BY <1>4, <2>2
<1>14. ReadingsConserved'
  <2> HIDE DEF new
  <2> QED BY <1>1, <1>2, <1>9, <1>12, <1>13 DEF ReadingsConserved
<1> QED BY <1>5, <1>6, <1>7, <1>8, <1>14 DEF IInv

LEMMA SendPieceReadings ==
  ASSUME IInv, NEW m \in Modules, SendPiece(m) PROVE IInv'
<1> USE WorkersAssumption
<1>1. /\ TypeOK /\ ReadingsConserved /\ SampledBeforeDue /\ BatchIsOwn /\ PacketIsBatch
      /\ SenderAtEnd /\ WireInv
  BY DEF IInv, WireInv
<1> DEFINE piece == [packet |-> packet[m], part |-> part[m] + 1]
<1>2. /\ pc[m] = "send" /\ up
      /\ wire' = Append(wire, piece)
      /\ part' = [part EXCEPT ![m] = part[m] + 1]
      /\ pc' = [pc EXCEPT ![m] = AfterPiece(m)]
      /\ UNCHANGED <<clock, now, due, batch, packet, holder, gSys, consumed, up, sampled>>
  BY DEF SendPiece
<1>3. part[m] \in Nat /\ part[m] < Parts
  BY <1>1, <1>2 DEF SenderAtEnd, TypeOK
<1>4. piece \in Piece /\ wire \in Seq(Piece) /\ Len(wire) \in Nat
  BY <1>1, <1>3 DEF TypeOK, Piece
<1>5. /\ piece.part = part[m] + 1
      /\ piece.packet.sensors \X {piece.packet.timestamp} = Waiting(m)
  BY <1>1, <1>2 DEF PacketIsBatch, Waiting
<1> HIDE DEF piece
<1>6. /\ Len(wire') = Len(wire) + 1 /\ wire'[Len(wire) + 1] = piece
      /\ \A i \in 1 .. Len(wire) : wire'[i] = wire[i]
  BY <1>2, <1>4
<1>7. WireInv'
  BY <1>1, SendPieceWire
<1>8. SampledBeforeDue' /\ BatchIsOwn'
  BY <1>1, <1>2 DEF SampledBeforeDue, BatchIsOwn
<1>9. PacketIsBatch'
  BY <1>1, <1>2 DEF PacketIsBatch, TypeOK
<1>10. \A n \in Modules : n # m => Waiting(n)' = Waiting(n)
  BY <1>1, <1>2 DEF Waiting, TypeOK
<1>11. \A x : x \in Reported' <=>
                \/ x \in Reported
                \/ part[m] + 1 = Parts /\ x \in Waiting(m)
  <2>1. \A x : x \in Reported' <=>
           \E i \in 1 .. Len(wire') :
             wire'[i].part = Parts
             /\ x \in wire'[i].packet.sensors \X {wire'[i].packet.timestamp}
    BY DEF Reported
  <2>2. \A i : i \in 1 .. Len(wire') <=> i \in 1 .. Len(wire) \/ i = Len(wire) + 1
    BY <1>4, <1>6
  <2>3. \A x : x \in Reported <=>
           \E i \in 1 .. Len(wire) :
             wire[i].part = Parts
             /\ x \in wire[i].packet.sensors \X {wire[i].packet.timestamp}
    BY ReportedIs
  <2> QED BY <1>5, <1>6, <2>1, <2>2, <2>3
<1>12. \A x : x \in Pending <=> \E n \in Modules : x \in Waiting(n)
  BY PendingIs
<1>13. \A x : x \in Pending' <=> \E n \in Modules : x \in Waiting(n)'
  BY DEF Pending
<1>14. CASE part[m] + 1 = Parts
  <2>1. Waiting(m)' = {}
    BY <1>1, <1>2, <1>14 DEF Waiting, AfterPiece, TypeOK
  <2>2. \A n \in Modules : n # m => Waiting(m) \cap Waiting(n) = {}
    BY <1>1, WaitingApart
  <2>3. Reported' = Reported \cup Waiting(m)
    BY <1>11, <1>14
  <2>4. Pending' = Pending \ Waiting(m)
    <3>1. ASSUME NEW x PROVE x \in Pending' <=> x \in Pending \ Waiting(m)
      BY <1>10, <1>12, <1>13, <2>1, <2>2
    <3> QED BY <3>1
  <2>5. Waiting(m) \subseteq Pending
    BY <1>12
  <2>6. ReadingsConserved'
    BY <1>1, <1>2, <2>3, <2>4, <2>5 DEF ReadingsConserved
  <2> QED BY <1>7, <1>8, <1>9, <2>6 DEF IInv
<1>15. CASE part[m] + 1 # Parts
  <2>1. Waiting(m)' = Waiting(m)
    BY <1>1, <1>2, <1>15 DEF Waiting, AfterPiece, TypeOK
  <2>2. Reported' = Reported
    BY <1>11, <1>15
  <2>3. Pending' = Pending
    <3>1. \A n \in Modules : Waiting(n)' = Waiting(n)
      BY <1>10, <2>1
    <3>2. ASSUME NEW x PROVE x \in Pending' <=> x \in Pending
      BY <1>12, <1>13, <3>1
    <3> QED BY <3>2
  <2>4. ReadingsConserved'
    BY <1>1, <1>2, <2>2, <2>3 DEF ReadingsConserved
  <2> QED BY <1>7, <1>8, <1>9, <2>4 DEF IInv
<1> QED BY <1>14, <1>15

LEMMA OtherReadings ==
  ASSUME IInv, WireInv',
         NEW m \in Modules, Lock(m) \/ Build(m) \/ SendFails(m) \/ Killed(m) \/ Unlock(m)
  PROVE  IInv'
<1>1. TypeOK /\ PacketIsBatch
  BY DEF IInv, WireInv
<1>2. PacketIsBatch'
  BY <1>1
  DEF PacketIsBatch, TypeOK, Lock, Build, Timestamp, SendFails, Killed, Unlock
<1>3. UNCHANGED <<wire, due, batch, now, sampled, up>>
  BY DEF Lock, Build, SendFails, Killed, Unlock
<1>4. up => \A n \in Modules : Waiting(n)' = Waiting(n)
  BY <1>1 DEF TypeOK, Waiting, Lock, Build, SendFails, Killed, Unlock
<1> QED BY <1>2, <1>3, <1>4, QuietReadings

LEMMA OutsideReadings ==
  ASSUME IInv, WireInv',
         ServerReads \/ ServerGone \/ Tick \/ StepBack \/ UNCHANGED vars
  PROVE  IInv'
<1>1. /\ UNCHANGED <<pc, now, due, batch, packet, wire, sampled>>
      /\ up' => up
  BY DEF ServerReads, ServerGone, Tick, StepBack, vars
<1>2. PacketIsBatch'
  BY <1>1 DEF IInv, PacketIsBatch
<1>3. \A n \in Modules : Waiting(n)' = Waiting(n)
  BY <1>1 DEF Waiting
<1> QED BY <1>1, <1>2, <1>3, QuietReadings

LEMMA StepReadings == IInv /\ [Next]_vars => IInv'
<1> SUFFICES ASSUME IInv, [Next]_vars PROVE IInv'
  OBVIOUS
<1>1. WireInv'
  BY StepWire DEF IInv
<1>2. CASE \E m \in Modules : Worker(m) \/ Lock(m)
  BY <1>1, <1>2, ScanReadings, SendPieceReadings, OtherReadings DEF Worker
<1>3. CASE ServerReads \/ ServerGone \/ Tick \/ StepBack \/ UNCHANGED vars
  BY <1>1, <1>3, OutsideReadings
<1> QED BY <1>2, <1>3 DEF Next

(* No reading is lost, repeated or invented between the sample and the     *)
(* wire, however the threads interleave and wherever the clock is set.     *)
THEOREM NoReadingLost == Spec => []ReadingsConserved
<1>1. Spec => []IInv
  BY InitReadings, StepReadings, PTL DEF Spec
<1> QED BY <1>1, PTL DEF IInv

-----------------------------------------------------------------------------
(* The stream of whole packets.  Where the k-th packet lies on the wire.   *)
LEMMA MulMonotone ==
  ASSUME NEW a \in Nat, NEW b \in Nat, NEW c \in Nat, a <= b
  PROVE  a * c <= b * c
BY Z3

LEMMA DivUnique ==
  ASSUME NEW p \in Nat \ {0}, NEW q \in Nat, NEW r \in 0 .. p - 1,
         NEW n \in Nat, n = (p * q) + r
  PROVE  n \div p = q
BY Z3

LEMMA DivStep ==
  ASSUME NEW n \in Nat, NEW p \in Nat \ {0}
  PROVE  (n + 1) \div p = IF (n % p) + 1 = p THEN (n \div p) + 1 ELSE n \div p
<1> DEFINE q == n \div p  r == n % p
<1>1. q \in Nat /\ r \in 0 .. p - 1 /\ n = (p * q) + r
  BY ModDiv
<1> HIDE DEF q, r
<1>2. CASE r + 1 = p
  <2> DEFINE t == q + 1  m == n + 1
  <2>1. p * t = (p * q) + p
    BY <1>1, Z3
  <2>2. m = (p * t) + 0 /\ t \in Nat /\ 0 \in 0 .. p - 1 /\ m \in Nat
    BY <1>1, <1>2, <2>1
  <2> HIDE DEF t, m
  <2>3. m \div p = t
    BY <2>2, DivUnique
  <2> QED BY <1>2, <2>3 DEF t, m, q, r
<1>3. CASE r + 1 # p
  <2> DEFINE m == n + 1  t == r + 1
  <2>1. m = (p * q) + t /\ t \in 0 .. p - 1 /\ m \in Nat
    BY <1>1, <1>3
  <2> HIDE DEF t, m
  <2>2. m \div p = q
    BY <1>1, <2>1, DivUnique
  <2> QED BY <1>3, <2>2 DEF m, q, r
<1> QED BY <1>2, <1>3

LEMMA PacketSpan ==
  ASSUME NEW n \in Nat, NEW p \in Nat \ {0}, NEW k \in 1 .. n \div p
  PROVE  /\ k * p \in 1 .. n
         /\ \A i \in 1 .. p : (k - 1) * p + i \in 1 .. n
<1> DEFINE q == n \div p
<1>1. q \in Nat /\ p * q <= n /\ k \in Nat /\ k >= 1 /\ k <= q
  BY ModDiv
<1> HIDE DEF q
<1>2. k * p <= q * p /\ 1 * p <= k * p
  BY <1>1, MulMonotone
<1>3. q * p = p * q /\ 1 * p = p /\ (k - 1) * p = k * p - p /\ k * p \in Nat
  BY <1>1, Z3
<1> DEFINE a == k * p  b == (k - 1) * p  c == p * q
<1>4. a \in Nat /\ c \in Nat /\ a <= c /\ p <= a /\ b = a - p /\ c <= n
  BY <1>1, <1>2, <1>3
<1> HIDE DEF a, b, c
<1>5. a \in 1 .. n
  BY <1>4
<1>6. \A i \in 1 .. p : b + i \in 1 .. n
  BY <1>4
<1> QED BY <1>5, <1>6 DEF a, b

PacketsShape ==
  WholePackets \in Nat /\ Len(Packets) = WholePackets /\ Packets \in Seq(Packet)

LEMMA PacketsTyped == TypeOK => PacketsShape
<1> SUFFICES ASSUME TypeOK
             PROVE  /\ WholePackets \in Nat /\ Len(Packets) = WholePackets
                    /\ Packets \in Seq(Packet)
  BY DEF PacketsShape
<1>1. wire \in Seq(Piece) /\ Len(wire) \in Nat /\ Parts \in Nat \ {0}
  BY WorkersAssumption DEF TypeOK
<1>2. WholePackets \in Nat
  BY <1>1, ModDiv DEF WholePackets
<1>3. ASSUME NEW k \in 1 .. WholePackets PROVE PacketAt(k) \in Packet
  <2>1. k * Parts \in 1 .. Len(wire)
    BY <1>1, PacketSpan DEF WholePackets
  <2>2. wire[k * Parts] \in Piece
    BY <1>1, <2>1
  <2>3. wire[k * Parts].packet \in Packet
    BY <2>2 DEF Piece
  <2>4. NoPacket \in Packet
    BY WorkersAssumption DEF NoPacket, Packet, Clock
  <2> QED BY <2>3, <2>4 DEF PacketAt
<1>4. Packets = [k \in 1 .. WholePackets |-> PacketAt(k)]
  BY DEF Packets, WholePackets
<1>5. Packets \in [1 .. WholePackets -> Packet]
  BY <1>3, <1>4
<1> QED BY <1>2, <1>5

(* A piece more on the wire leaves the packets there as they are.          *)
LEMMA PacketsKept ==
  ASSUME TypeOK, NEW piece \in Piece, wire' = Append(wire, piece),
         NEW k \in 1 .. WholePackets
  PROVE  PacketAt(k)' = PacketAt(k)
<1>1. wire \in Seq(Piece) /\ Len(wire) \in Nat /\ Parts \in Nat \ {0}
  BY WorkersAssumption DEF TypeOK
<1>2. \A i \in 1 .. Len(wire) : wire'[i] = wire[i]
  BY <1>1
<1>3. k * Parts \in 1 .. Len(wire) /\ \A i \in 1 .. Parts : (k - 1) * Parts + i \in 1 .. Len(wire)
  BY <1>1, PacketSpan DEF WholePackets
<1>4. wire'[k * Parts] = wire[k * Parts]
      /\ \A i \in 1 .. Parts : wire'[(k - 1) * Parts + i] = wire[(k - 1) * Parts + i]
  BY <1>2, <1>3
<1> QED BY <1>4 DEF PacketAt

LEMMA PacketsSame == UNCHANGED wire => Packets' = Packets /\ WholePackets' = WholePackets
BY DEF Packets, PacketAt, WholePackets

LEMMA InitStream == Init => SInv /\ Stream!Init
<1> SUFFICES ASSUME Init PROVE SInv /\ Stream!Init
  OBVIOUS
<1>1. IInv
  BY InitReadings
<1>2. \A m \in Modules : pc[m] = "scan"
  BY DEF Init
<1>3. WholePackets = 0 /\ gSys = 1
  <2>1. 0 \in 0 .. Parts - 1 /\ 0 = (Parts * 0) + 0 /\ Parts \in Nat \ {0}
    BY WorkersAssumption
  <2>2. 0 \div Parts = 0
    BY <2>1, DivUnique
  <2> QED BY <2>2 DEF Init, WholePackets
<1>4. Numbered /\ PiecesAtEnd /\ BatchTimes /\ SentBeforeDue /\ BatchIsLater
  BY <1>2, <1>3 DEF Numbered, PiecesAtEnd, BatchTimes, SentBeforeDue, BatchIsLater, HasBatch
<1>5. Packets = << >>
  BY <1>3 DEF Packets, WholePackets
<1> QED BY <1>1, <1>4, <1>5 DEF SInv, Stream!Init

(* Steps that take no sample and write nothing.                            *)
LEMMA QuietStream ==
  ASSUME SInv, IInv', UNCHANGED <<wire, now, due, batch>>,
         \A m \in Modules : HasBatch(m)' => HasBatch(m), Numbered', PiecesAtEnd'
  PROVE  SInv' /\ UNCHANGED Packets
<1>1. Packets' = Packets /\ WholePackets' = WholePackets
  BY PacketsSame
<1>2. BatchTimes'
  BY DEF SInv, BatchTimes, Own
<1>3. SentBeforeDue'
  BY <1>1 DEF SInv, SentBeforeDue, Own
<1>4. BatchIsLater'
  BY <1>1 DEF SInv, BatchIsLater
<1> QED BY <1>1, <1>2, <1>3, <1>4 DEF SInv

LEMMA IdleStream ==
  ASSUME SInv, IInv',
         \/ \E m \in Modules : Lock(m) \/ SendFails(m) \/ Killed(m) \/ Unlock(m)
         \/ ServerReads \/ ServerGone \/ Tick \/ StepBack \/ UNCHANGED vars
  PROVE  SInv' /\ UNCHANGED Packets
<1>0. TypeOK
  BY DEF SInv, IInv, WireInv
<1>1. /\ UNCHANGED <<wire, now, due, batch, gSys, packet, part>>
      /\ up' => up
  BY DEF Lock, SendFails, Killed, Unlock, ServerReads, ServerGone, Tick, StepBack, vars
<1>2. \A m \in Modules : HasBatch(m)' => HasBatch(m)
  BY <1>0 DEF TypeOK, HasBatch, Lock, SendFails, Killed, Unlock, ServerReads, ServerGone, Tick,
              StepBack, vars
<1>3. up' => \A m \in Modules : pc'[m] = "send" <=> pc[m] = "send"
  BY <1>0 DEF TypeOK, Lock, SendFails, Killed, Unlock, ServerReads, ServerGone, Tick,
              StepBack, vars
<1>4. WholePackets' = WholePackets
  BY <1>1, PacketsSame
<1>5. Numbered'
  BY <1>1, <1>3, <1>4 DEF SInv, Numbered
<1>6. PiecesAtEnd'
  BY <1>1, <1>3, <1>4 DEF SInv, PiecesAtEnd
<1> QED BY <1>1, <1>2, <1>5, <1>6, QuietStream

LEMMA BuildStream ==
  ASSUME SInv, IInv', NEW m \in Modules, Build(m)
  PROVE  SInv' /\ UNCHANGED Packets
<1>1. TypeOK /\ MutexHeld /\ Numbered
  BY DEF SInv, IInv, WireInv
<1>2. /\ pc[m] = "build"
      /\ packet' = [packet EXCEPT ![m] =
           [module |-> m, sys |-> gSys, timestamp |-> now[m], sensors |-> batch[m]]]
      /\ gSys' = gSys + 1
      /\ part' = [part EXCEPT ![m] = 0]
      /\ pc' = [pc EXCEPT ![m] = "send"]
      /\ UNCHANGED <<now, due, batch, wire, up>>
  BY DEF Build, Timestamp
<1>3. \A n \in Modules : pc[n] # "send" /\ (pc'[n] = "send" => n = m)
  BY <1>1, <1>2 DEF MutexHeld, TypeOK
<1>4. WholePackets' = WholePackets /\ WholePackets \in Nat /\ gSys \in Nat
  BY <1>1, <1>2, PacketsSame, PacketsTyped DEF TypeOK, PacketsShape
<1>5. pc'[m] = "send" /\ part'[m] = 0 /\ packet'[m].module = m /\ packet'[m].sys = gSys
  BY <1>1, <1>2 DEF TypeOK
<1>6. up => gSys = WholePackets + 1
  BY <1>1, <1>3 DEF Numbered
<1>7. up' => gSys' = WholePackets' + 2
  BY <1>2, <1>4, <1>6
<1>8. Numbered'
  BY <1>2, <1>3, <1>4, <1>5, <1>6, <1>7 DEF Numbered
<1>9. PiecesAtEnd'
  BY <1>3, <1>5 DEF PiecesAtEnd
<1>10. \A n \in Modules : HasBatch(n)' => HasBatch(n)
  BY <1>1, <1>2 DEF HasBatch, TypeOK
<1> QED BY <1>2, <1>8, <1>9, <1>10, QuietStream

(* A new batch is later than all that was sent before, for its sensors     *)
(* were due; rescheduling them only moves their deadlines on.              *)
LEMMA ScanStream ==
  ASSUME SInv, IInv', NEW m \in Modules, Scan(m)
  PROVE  SInv' /\ UNCHANGED Packets
<1> DEFINE ready == {s \in Own(m) : clock >= due[s]}
<1>1. TypeOK /\ Numbered /\ PiecesAtEnd /\ BatchTimes /\ SentBeforeDue /\ BatchIsLater
  BY DEF SInv, IInv, WireInv
<1>2. /\ pc[m] = "scan"
      /\ now' = [now EXCEPT ![m] = clock]
      /\ batch' = [batch EXCEPT ![m] = ready]
      /\ due' = [s \in Sensors |-> IF s \in ready THEN NextTime(s, clock) ELSE due[s]]
      /\ pc' = [pc EXCEPT ![m] = IF ready = {} THEN "scan" ELSE "lock"]
      /\ UNCHANGED <<packet, part, gSys, wire, up>>
  BY DEF Scan
<1>3. ready \subseteq Own(m) /\ \A s \in Own(m) : s \in ready <=> clock >= due[s]
  OBVIOUS
<1> HIDE DEF ready
<1>4. /\ clock \in Int /\ due \in [Sensors -> Nat] /\ Own(m) \subseteq Sensors
      /\ \A s \in Sensors : Period[s] \in Nat /\ Period[s] >= 1
      /\ \A n \in Modules : now[n] \in Int
  BY <1>1, WorkersAssumption DEF TypeOK, Clock, Own
<1>5. ASSUME NEW s \in Sensors
      PROVE  /\ due'[s] \in Int /\ due[s] \in Int /\ due[s] <= due'[s]
             /\ s \in ready => due'[s] = clock + Period[s]
             /\ s \notin ready => due'[s] = due[s]
  <2>1. due'[s] = IF s \in ready THEN clock + Period[s] ELSE due[s]
    BY <1>2 DEF NextTime
  <2>2. s \in ready => due[s] <= clock
    BY <1>3, <1>4
  <2> QED BY <1>4, <2>1, <2>2
<1>6. /\ now'[m] = clock /\ batch'[m] = ready
      /\ pc'[m] = (IF ready = {} THEN "scan" ELSE "lock")
      /\ \A n \in Modules : n # m => now'[n] = now[n] /\ batch'[n] = batch[n] /\ pc'[n] = pc[n]
  BY <1>1, <1>2 DEF TypeOK
<1>7. Packets' = Packets /\ WholePackets' = WholePackets
  BY <1>2, PacketsSame
<1>8. Packets \in Seq(Packet) /\ Len(Packets) = WholePackets
  BY <1>1, PacketsTyped DEF PacketsShape
<1>9. ASSUME NEW k \in 1 .. WholePackets
      PROVE  Packets[k].timestamp \in Int /\ Packets[k].sensors \subseteq Sensors
  <2>1. Packets[k] \in Packet
    BY <1>8
  <2> QED BY <2>1 DEF Packet, Clock
<1>10. \A n \in Modules : pc'[n] = "send" <=> pc[n] = "send"
  BY <1>2, <1>6
<1>11. Numbered' /\ PiecesAtEnd'
  BY <1>1, <1>2, <1>7, <1>10 DEF Numbered, PiecesAtEnd
<1>12. ASSUME NEW n \in Modules, n # m, HasBatch(n)'
       PROVE  HasBatch(n) /\ batch[n] \subseteq Sensors /\ Own(n) \subseteq Sensors
  BY <1>1, <1>6, <1>12 DEF HasBatch, TypeOK, Own
<1>13. HasBatch(m)' => ready # {}
  BY <1>6 DEF HasBatch
<1>14. BatchTimes'
  <2> SUFFICES ASSUME NEW n \in Modules, HasBatch(n)'
               PROVE  /\ batch'[n] # {} /\ \A s \in batch'[n] : now'[n] + Period[s] <= due'[s]
                      /\ \A s \in Own(n) : now'[n] < due'[s]
    BY DEF BatchTimes, Own
  <2>1. CASE n = m
    <3>1. \A s \in ready : clock + Period[s] <= due'[s]
      BY <1>3, <1>4, <1>5
    <3>2. ASSUME NEW s \in Own(m) PROVE clock < due'[s]
      <4>1. s \in Sensors
        BY <1>4
      <4>2. CASE s \in ready
        BY <1>4, <1>5, <4>1, <4>2
      <4>3. CASE s \notin ready
        BY <1>3, <1>4, <1>5, <4>1, <4>3
      <4> QED BY <4>2, <4>3
    <3> QED BY <1>6, <1>13, <2>1, <3>1, <3>2
  <2>2. CASE n # m
    <3>1. HasBatch(n) /\ batch[n] \subseteq Sensors /\ Own(n) \subseteq Sensors
      BY <1>12, <2>2
    <3>2. /\ batch[n] # {} /\ \A s \in batch[n] : now[n] + Period[s] <= due[s]
          /\ \A s \in Own(n) : now[n] < due[s]
      BY <1>1, <3>1 DEF BatchTimes
    <3>3. \A s \in batch[n] : now[n] + Period[s] <= due'[s]
      BY <1>4, <1>5, <3>1, <3>2
    <3>4. \A s \in Own(n) : now[n] < due'[s]
      BY <1>4, <1>5, <3>1, <3>2
    <3> QED BY <1>6, <2>2, <3>2, <3>3, <3>4
  <2> QED BY <2>1, <2>2
<1>15. SentBeforeDue'
  <2> SUFFICES ASSUME NEW k \in 1 .. WholePackets
               PROVE  /\ \A s \in Packets[k].sensors :
                            Packets[k].timestamp + Period[s] <= due'[s]
                      /\ \A s \in Own(Packets[k].module) : Packets[k].timestamp < due'[s]
    BY <1>7 DEF SentBeforeDue, Own
  <2>1. \A s \in Packets[k].sensors : Packets[k].timestamp + Period[s] <= due'[s]
    BY <1>1, <1>4, <1>5, <1>9 DEF SentBeforeDue
  <2>2. Own(Packets[k].module) \subseteq Sensors
    BY DEF Own
  <2>3. \A s \in Own(Packets[k].module) : Packets[k].timestamp < due'[s]
    BY <1>1, <1>5, <1>9, <2>2 DEF SentBeforeDue
  <2> QED BY <2>1, <2>3
<1>16. BatchIsLater'
  <2> SUFFICES ASSUME NEW n \in Modules, HasBatch(n)', NEW k \in 1 .. WholePackets
               PROVE  /\ \A s \in Packets[k].sensors \cap batch'[n] :
                            now'[n] >= Packets[k].timestamp + Period[s]
                      /\ Packets[k].module = n => now'[n] > Packets[k].timestamp
    BY <1>7 DEF BatchIsLater
  <2>1. CASE n = m
    <3>1. ASSUME NEW s \in Packets[k].sensors \cap ready
          PROVE  clock >= Packets[k].timestamp + Period[s]
      <4>1. s \in Sensors /\ clock >= due[s] /\ Packets[k].timestamp + Period[s] <= due[s]
        BY <1>1, <1>3, <1>4 DEF SentBeforeDue
      <4> QED BY <1>4, <1>5, <1>9, <4>1
    <3>2. ASSUME Packets[k].module = m PROVE clock > Packets[k].timestamp
      <4>1. PICK s \in ready : TRUE
        BY <1>13, <2>1
      <4>2. s \in Own(m) /\ s \in Sensors /\ clock >= due[s]
        BY <1>3, <1>4
      <4>3. Packets[k].timestamp < due[s]
        BY <1>1, <3>2, <4>2 DEF SentBeforeDue
      <4> QED BY <1>4, <1>5, <1>9, <4>2, <4>3
    <3> QED BY <1>6, <2>1, <3>1, <3>2
  <2>2. CASE n # m
    BY <1>1, <1>6, <1>12, <2>2 DEF BatchIsLater
  <2> QED BY <2>1, <2>2
<1> QED BY <1>7, <1>11, <1>14, <1>15, <1>16 DEF SInv

(* The last piece of a packet adds that packet to the stream, a piece      *)
(* before the last adds none.                                              *)
LEMMA SendPieceStream ==
  ASSUME SInv, IInv', NEW m \in Modules, SendPiece(m)
  PROVE  SInv' /\ [Stream!Next]_Packets
<1> USE WorkersAssumption
<1> DEFINE piece == [packet |-> packet[m], part |-> part[m] + 1]
           Q == WholePackets
           p == packet[m]
<1>1. /\ TypeOK /\ MutexHeld /\ SenderAtEnd /\ Numbered /\ PiecesAtEnd /\ BatchTimes
      /\ SentBeforeDue /\ BatchIsLater /\ BatchIsOwn /\ PacketIsBatch
  BY DEF SInv, IInv, WireInv
<1>2. /\ pc[m] = "send" /\ up
      /\ wire' = Append(wire, piece)
      /\ part' = [part EXCEPT ![m] = part[m] + 1]
      /\ pc' = [pc EXCEPT ![m] = AfterPiece(m)]
      /\ UNCHANGED <<now, due, batch, packet, gSys, up>>
  BY DEF SendPiece
<1>3. part[m] \in Nat /\ part[m] < Parts /\ Len(wire) % Parts = part[m] /\ Parts \in Nat \ {0}
  BY <1>1, <1>2 DEF SenderAtEnd, TypeOK
<1>4. /\ piece \in Piece /\ wire \in Seq(Piece) /\ Len(wire) \in Nat /\ p \in Packet
      /\ piece = [packet |-> p, part |-> part[m] + 1]
  <2>1. p \in Packet /\ wire \in Seq(Piece) /\ Len(wire) \in Nat
    BY <1>1 DEF TypeOK
  <2>2. part[m] + 1 \in 1 .. Parts
    BY <1>3
  <2> QED BY <2>1, <2>2 DEF Piece
<1> HIDE DEF piece
<1>5. /\ Len(wire') = Len(wire) + 1 /\ wire'[Len(wire) + 1] = piece
      /\ \A i \in 1 .. Len(wire) : wire'[i] = wire[i]
  BY <1>2, <1>4
<1>6. /\ Q \in Nat /\ Len(Packets) = Q /\ Packets \in Seq(Packet)
      /\ Q' \in Nat /\ Len(Packets') = Q' /\ Packets' \in Seq(Packet)
  <2>1. TypeOK'
    BY DEF IInv, WireInv
  <2>2. PacketsShape /\ PacketsShape'
    BY <1>1, <2>1, PacketsTyped, PTL
  <2> QED BY <2>2 DEF PacketsShape
<1>7. Len(wire) = (Parts * Q) + part[m] /\ Parts * Q \in Nat
  <2>1. Len(wire) = (Parts * Q) + (Len(wire) % Parts)
    BY <1>3, <1>4, ModDiv DEF WholePackets
  <2>2. Parts * Q \in Nat
    BY <1>3, <1>6, Z3
  <2> QED BY <1>3, <2>1, <2>2
<1>8. Q' = IF part[m] + 1 = Parts THEN Q + 1 ELSE Q
  <2>1. (Len(wire) + 1) \div Parts =
          IF (Len(wire) % Parts) + 1 = Parts THEN (Len(wire) \div Parts) + 1
          ELSE Len(wire) \div Parts
    BY <1>3, <1>4, DivStep
  <2> QED BY <1>3, <1>5, <2>1, Zenon DEF WholePackets
<1>9. \A k \in 1 .. Q : Packets'[k] = Packets[k]
  <2> SUFFICES ASSUME NEW k \in 1 .. Q PROVE Packets'[k] = Packets[k]
    OBVIOUS
  <2>1. PacketAt(k)' = PacketAt(k)
    BY <1>1, <1>2, <1>4, PacketsKept
  <2>2. k \in 1 .. WholePackets'
    BY <1>6, <1>8
  <2>3. Packets'[k] = PacketAt(k)' /\ Packets[k] = PacketAt(k)
    BY <2>2 DEF Packets, WholePackets
  <2> QED BY <2>1, <2>3
<1>10. \A n \in Modules : n # m => pc[n] # "send" /\ pc'[n] = pc[n] /\ pc'[n] # "send"
  BY <1>1, <1>2 DEF MutexHeld, TypeOK
<1>11. pc'[m] = AfterPiece(m) /\ part'[m] = part[m] + 1
  BY <1>1, <1>2 DEF TypeOK
<1>12. /\ HasBatch(m)
       /\ \A n \in Modules : HasBatch(n)' => HasBatch(n) /\ (n = m => pc'[m] = "send")
  BY <1>2, <1>10, <1>11 DEF HasBatch, AfterPiece
<1>13. /\ gSys = Q + 2 /\ p.module = m /\ p.sys = Q + 1
       /\ p.sensors = batch[m] /\ p.timestamp = now[m]
  BY <1>1, <1>2 DEF Numbered, PacketIsBatch
<1>14. \A i \in 1 .. part[m] + 1 : wire'[Parts * Q + i] = [packet |-> p, part |-> i]
  <2> DEFINE c == Parts * Q
  <2> SUFFICES ASSUME NEW i \in 1 .. part[m] + 1 PROVE wire'[c + i] = [packet |-> p, part |-> i]
    OBVIOUS
  <2>1. Len(wire) = c + part[m] /\ c \in Nat
    BY <1>7
  <2>2. \A j \in 1 .. part[m] : wire[c + j] = [packet |-> p, part |-> j]
    BY <1>1, <1>2 DEF PiecesAtEnd
  <2> HIDE DEF c, Q, p
  <2>3. part[m] \in Nat /\ Len(wire) \in Nat
    BY <1>3, <1>4
  <2>4. CASE i = part[m] + 1
    <3>1. c + i = Len(wire) + 1
      BY <2>1, <2>3, <2>4
    <3> QED BY <1>4, <1>5, <2>4, <3>1
  <2>5. CASE i # part[m] + 1
    <3>1. i \in 1 .. part[m]
      BY <2>3, <2>5
    <3>2. c + i \in 1 .. Len(wire)
      BY <2>1, <2>3, <3>1
    <3> QED BY <1>5, <2>2, <3>1, <3>2
  <2> QED BY <2>4, <2>5
<1>15. BatchTimes'
  BY <1>1, <1>2, <1>12 DEF BatchTimes, Own
<1>16. CASE part[m] + 1 # Parts
  <2>1. Q' = Q /\ pc'[m] = "send"
    BY <1>8, <1>11, <1>16 DEF AfterPiece
  <2>2. Packets' = Packets
    BY <1>6, <1>9, <2>1, SeqEqual
  <2>3. Numbered'
    BY <1>1, <1>2, <1>10, <1>13, <2>1 DEF Numbered
  <2>4. PiecesAtEnd'
    BY <1>2, <1>10, <1>11, <1>14, <2>1 DEF PiecesAtEnd
  <2>5. SentBeforeDue' /\ BatchIsLater'
    BY <1>1, <1>2, <1>12, <2>1, <2>2 DEF SentBeforeDue, BatchIsLater, Own
  <2> QED BY <1>15, <2>2, <2>3, <2>4, <2>5 DEF SInv
<1>17. CASE part[m] + 1 = Parts
  <2>1. Q' = Q + 1 /\ pc'[m] = "unlock"
    BY <1>8, <1>11, <1>17 DEF AfterPiece
  <2>2. ASSUME NEW k \in Nat, k = Q + 1 PROVE Packets'[k] = p
    <3>1. k \in 1 .. WholePackets'
      BY <1>6, <2>1, <2>2
    <3>2. Packets'[k] = PacketAt(k)'
      BY <3>1 DEF Packets, WholePackets
    <3>3. (k - 1) * Parts = Parts * Q /\ k * Parts = Parts * Q + Parts
      BY <1>3, <1>6, <2>2, Z3
    <3>4. Parts \in 1 .. Parts
      BY <1>3
    <3> HIDE DEF p
    <3>5. \A i \in 1 .. Parts : wire'[(k - 1) * Parts + i] = [packet |-> p, part |-> i]
      BY <1>14, <1>17, <3>3
    <3>6. wire'[k * Parts].packet = p
      <4>1. wire'[Parts * Q + Parts] = [packet |-> p, part |-> Parts]
        BY <1>14, <1>17, <3>4
      <4> QED BY <3>3, <4>1
    <3>7. PacketAt(k)' = p
      BY <3>5, <3>6 DEF PacketAt
    <3> QED BY <3>2, <3>7
  <2>3. Packets' = Append(Packets, p)
    <3>1. /\ Append(Packets, p) \in Seq(Packet) /\ Len(Append(Packets, p)) = Q + 1
          /\ \A k \in 1 .. Q : Append(Packets, p)[k] = Packets[k]
          /\ Append(Packets, p)[Q + 1] = p
      BY <1>4, <1>6, AppendProperties
    <3>2. \A k \in 1 .. Q + 1 : k \in 1 .. Q \/ k = Q + 1
      BY <1>6
    <3>3. \A k \in 1 .. Q + 1 : Packets'[k] = Append(Packets, p)[k]
      BY <1>6, <1>9, <2>2, <3>1, <3>2
    <3> QED BY <1>6, <2>1, <3>1, <3>3, SeqEqual
  <2>4. \A n \in Modules : pc'[n] # "send"
    BY <1>10, <2>1
  <2>5. Numbered' /\ PiecesAtEnd'
    BY <1>2, <1>6, <1>13, <2>1, <2>4 DEF Numbered, PiecesAtEnd
  <2>6. \A k \in 1 .. Q + 1 : k \in 1 .. Q \/ k = Q + 1
    BY <1>6
  <2>7. SentBeforeDue'
    <3>1. /\ \A s \in batch[m] : now[m] + Period[s] <= due[s]
          /\ \A s \in Own(m) : now[m] < due[s]
      BY <1>1, <1>12 DEF BatchTimes
    <3> SUFFICES ASSUME NEW k \in 1 .. Q + 1
                 PROVE  /\ \A s \in Packets'[k].sensors :
                             Packets'[k].timestamp + Period[s] <= due[s]
                        /\ \A s \in Own(Packets'[k].module) : Packets'[k].timestamp < due[s]
      BY <1>2, <2>1 DEF SentBeforeDue, Own
    <3>2. CASE k \in 1 .. Q
      BY <1>1, <1>9, <3>2 DEF SentBeforeDue
    <3>3. CASE k = Q + 1
      BY <1>13, <2>2, <3>1, <3>3
    <3> QED BY <2>6, <3>2, <3>3
  <2>8. BatchIsLater'
    <3> SUFFICES ASSUME NEW n \in Modules, HasBatch(n)', NEW k \in 1 .. Q + 1
                 PROVE  /\ \A s \in Packets'[k].sensors \cap batch[n] :
                              now[n] >= Packets'[k].timestamp + Period[s]
                        /\ Packets'[k].module = n => now[n] > Packets'[k].timestamp
      BY <1>2, <2>1 DEF BatchIsLater
    <3>1. HasBatch(n) /\ n # m
      BY <1>12, <2>1
    <3>2. CASE k \in 1 .. Q
      BY <1>1, <1>9, <3>1, <3>2 DEF BatchIsLater
    <3>3. CASE k = Q + 1
      <4>1. batch[m] \cap batch[n] = {}
        BY <1>1, <3>1 DEF BatchIsOwn, Own
      <4> QED BY <1>13, <2>2, <3>1, <3>3, <4>1
    <3> QED BY <2>6, <3>2, <3>3
  <2>9. Stream!Emit(m)
    <3>1. /\ now[m] \in 0 .. MaxClock
          /\ batch[m] \in SUBSET {x \in Sensors : ModuleOf[x] = m} /\ batch[m] # {}
      BY <1>1, <1>12 DEF TypeOK, Clock, BatchIsOwn, Own, BatchTimes
    <3>2. p = [module |-> m, sys |-> Len(Packets) + 1, timestamp |-> now[m], sensors |-> batch[m]]
      <4>1. p = [module |-> p.module, sys |-> p.sys, timestamp |-> p.timestamp,
                 sensors |-> p.sensors]
        BY <1>4 DEF Packet
      <4> QED BY <1>6, <1>13, <4>1
    <3>3. Stream!InOrder(Packets, p)
      <4> SUFFICES ASSUME NEW k \in 1 .. Len(Packets)
                   PROVE  /\ \A x \in Packets[k].sensors \cap p.sensors :
                               p.timestamp >= Packets[k].timestamp + Period[x]
                          /\ Packets[k].module = p.module => p.timestamp > Packets[k].timestamp
        BY DEF Stream!InOrder
      <4> QED BY <1>1, <1>6, <1>12, <1>13 DEF BatchIsLater
    <3> HIDE DEF p
    <3> QED BY <2>3, <3>1, <3>2, <3>3 DEF Stream!Emit
  <2> QED BY <1>15, <2>5, <2>7, <2>8, <2>9 DEF SInv, Stream!Next
<1> QED BY <1>16, <1>17

LEMMA StepStream ==
  ASSUME SInv, [Next]_vars
  PROVE  SInv' /\ [Stream!Next]_Packets
<1>1. IInv'
  BY StepReadings DEF SInv
<1>2. ASSUME NEW m \in Modules, Worker(m) \/ Lock(m)
      PROVE  SInv' /\ [Stream!Next]_Packets
  BY <1>1, <1>2, ScanStream, BuildStream, SendPieceStream, IdleStream DEF Worker
<1>3. CASE ServerReads \/ ServerGone \/ Tick \/ StepBack \/ UNCHANGED vars
  BY <1>1, <1>3, IdleStream
<1> QED BY <1>2, <1>3 DEF Next

(* However the threads interleave and wherever the clock is set, what the  *)
(* server reads is a stream of whole packets numbered 1, 2, 3, ... that    *)
(* respects every period and is in timestamp order for every module.       *)
THEOREM ImplementsStream == Spec => StreamSpec
<1>1. Init => SInv /\ Stream!Init
  BY InitStream
<1>2. SInv /\ [Next]_vars => SInv' /\ [Stream!Next]_Packets
  BY StepStream
<1> QED BY <1>1, <1>2, PTL DEF Spec, StreamSpec, Stream!Spec
-----------------------------------------------------------------------------
(* The values of a sensor, for any DeltaParts.                             *)

(* A sensor is followed once all are there, so its class no longer         *)
(* changes; its value is outside the range of the class exactly when it    *)
(* was made so.                                                            *)
Finished == followed > 0 => Len(sensors) = Total
IsSequence == \E S : sensors \in Seq(S)
ValueInv ==
  /\ followed \in Int /\ value \in Int /\ abnormal \in BOOLEAN
  /\ followed = 0 => abnormal = FALSE
  /\ Finished /\ IsSequence /\ AnomalyIffAbnormal

(* Every class has a range in which a value and its neighbours differ.     *)
LEMMA ClassRange ==
  ASSUME NEW c \in EquipmentClasses
  PROVE  c[2] \in Int /\ c[3] \in Int /\ Width(c) \in Int /\ Width(c) >= 2
BY DEF EquipmentClasses, Class, Width

LEMMA FoundClass ==
  ASSUME NEW id, HasClass(EquipmentClasses, id)
  PROVE  NormalRange(id) \in EquipmentClasses
BY DEF HasClass, NormalRange, FindSensorClass

(* Detected, in terms of the range of the sensor's class.                  *)
LEMMA DetectedIs ==
  ASSUME NEW id, id = sensors[followed].sensor_id
  PROVE  Detected <=> /\ HasClass(EquipmentClasses, id)
                      /\ \/ value < NormalRange(id)[2]
                         \/ value > NormalRange(id)[3]
BY DEF Detected, ServerClasses, NormalRange

LEMMA PartOfWidth ==
  ASSUME NEW w \in Nat, NEW n \in Nat \ {0}, NEW p \in 0 .. n
  PROVE  (w * p) \div n \in 0 .. w
<1> DEFINE a == w * p  q == a \div n  r == a % n
<1>1. a \in Nat /\ a <= w * n
  <2>1. p * w <= n * w /\ p * w = w * p /\ n * w = w * n
    BY Z3
  <2> QED BY <2>1, Z3
<1>2. q \in Nat /\ r \in 0 .. n - 1 /\ a = (n * q) + r
  BY <1>1, ModDiv
<1> HIDE DEF a, q, r
<1>3. q <= w
  <2> SUFFICES ASSUME q >= w + 1 PROVE FALSE
    BY <1>2
  <2>1. n * q >= n * (w + 1) /\ n * (w + 1) = (w * n) + n
    BY <1>2, Z3
  <2>2. n * q \in Nat /\ w * n \in Nat
    BY <1>2, Z3
  <2> QED BY <1>1, <1>2, <2>1, <2>2
<1> QED BY <1>2, <1>3 DEF q, a

LEMMA HalfWidth ==
  ASSUME NEW w \in Nat, w >= 2, NEW half \in {1, 2, 4}
  PROVE  (w * half) \div 2 \in Nat \ {0}
<1> DEFINE a == w * half  q == a \div 2  r == a % 2
<1>1. a \in Nat /\ a >= 2
  OBVIOUS
<1>2. q \in Nat /\ r \in 0 .. 1 /\ a = (2 * q) + r
  BY <1>1, Z3
<1> HIDE DEF a, q, r
<1>3. q # 0
  BY <1>1, <1>2
<1> QED BY <1>2, <1>3 DEF q, a

LEMMA ValueInit == TablesInit => ValueInv
<1> SUFFICES ASSUME TablesInit PROVE ValueInv
  OBVIOUS
<1>1. followed = 0 /\ value = 0 /\ abnormal = FALSE /\ ~ (followed > 0)
  BY DEF TablesInit
<1>2. IsSequence
  <2>1. sensors \in Seq({})
    BY DEF TablesInit
  <2> QED BY <2>1 DEF IsSequence
<1>3. Finished /\ AnomalyIffAbnormal
  BY <1>1, Zenon DEF Finished, AnomalyIffAbnormal
<1>4. followed \in Int /\ value \in Int
  BY <1>1
<1>5. abnormal \in BOOLEAN
  BY <1>1, Zenon
<1> QED BY <1>1, <1>2, <1>3, <1>4, <1>5, Zenon DEF ValueInv

LEMMA ValueStep == ValueInv /\ [TablesNext]_tableVars => ValueInv'
<1> SUFFICES ASSUME ValueInv, [TablesNext]_tableVars PROVE ValueInv'
  OBVIOUS
<1>1. /\ followed \in Int /\ value \in Int /\ abnormal \in BOOLEAN
      /\ followed = 0 => abnormal = FALSE
      /\ Finished /\ IsSequence /\ AnomalyIffAbnormal
  BY DEF ValueInv
<1>2. CASE AddSensor
  <2>1. PICK e : sensors' = Append(sensors, e)
    BY <1>2 DEF AddSensor
  <2>2. Len(sensors) < Total /\ UNCHANGED <<followed, value, abnormal>>
    BY <1>2 DEF AddSensor
  <2>3. PICK S : sensors \in Seq(S)
    BY <1>1 DEF IsSequence
  <2>4. Len(sensors) \in Nat
    BY <2>3
  <2>5. ~ (followed > 0)
    BY <1>1, <2>2, <2>4 DEF Finished
  <2>6. sensors' \in Seq(S \cup {e})
    <3>1. sensors \in Seq(S \cup {e})
      BY <2>3
    <3> QED BY <2>1, <3>1
  <2> QED BY <1>1, <2>2, <2>5, <2>6 DEF ValueInv, Finished, IsSequence, AnomalyIffAbnormal
<1>3. CASE InitSensorState
  <2>1. /\ Len(sensors) = Total /\ followed = 0
        /\ UNCHANGED <<sensors, abnormal>>
    BY <1>3 DEF InitSensorState
  <2>2. PICK i \in 1 .. Total :
          /\ followed' = i
          /\ IF HasClass(EquipmentClasses, sensors[i].sensor_id)
             THEN LET c == NormalRange(sensors[i].sensor_id)
                  IN  \E p \in 0 .. DeltaParts : value' = c[2] + (Width(c) * p) \div DeltaParts
             ELSE value' = 0
    BY <1>3 DEF InitSensorState
  <2> DEFINE id == sensors[i].sensor_id  c == NormalRange(id)
  <2>3. abnormal' = FALSE /\ sensors' = sensors /\ followed' = i /\ i \in Int
    BY <1>1, <2>1, <2>2
  <2>4. CASE HasClass(EquipmentClasses, id)
    <3>1. PICK p \in 0 .. DeltaParts : value' = c[2] + (Width(c) * p) \div DeltaParts
      BY <2>2, <2>4
    <3>2. c \in EquipmentClasses
      BY <2>4, FoundClass
    <3> HIDE DEF c
    <3>3. c[2] \in Int /\ c[3] \in Int /\ Width(c) \in Nat /\ c[3] = c[2] + Width(c)
      BY <3>2, ClassRange DEF Width
    <3> DEFINE q == (Width(c) * p) \div DeltaParts
    <3>4. q \in 0 .. Width(c)
      BY <3>3, PartOfWidth, TablesAssumption
    <3> HIDE DEF q
    <3>5. value' \in Int /\ ~ (value' < c[2]) /\ ~ (value' > c[3])
      BY <3>1, <3>3, <3>4 DEF q
    <3>6. ~ Detected'
      BY <2>3, <3>5 DEF Detected, ServerClasses, NormalRange, c
    <3> QED BY <1>1, <2>1, <2>3, <3>5, <3>6 DEF ValueInv, Finished, IsSequence, AnomalyIffAbnormal
  <2>5. CASE ~ HasClass(EquipmentClasses, id)
    <3>1. value' = 0 /\ ~ Detected'
      BY <2>2, <2>3, <2>5 DEF Detected, ServerClasses
    <3> QED BY <1>1, <2>1, <2>3, <3>1 DEF ValueInv, Finished, IsSequence, AnomalyIffAbnormal
  <2> QED BY <2>4, <2>5
<1>4. CASE UpdateSensorValue
  <2> DEFINE id == sensors[followed].sensor_id  c == NormalRange(id)
  <2>1. /\ followed > 0 /\ HasClass(EquipmentClasses, id)
        /\ \/ abnormal' = TRUE /\ AbnormalValue(c)
           \/ abnormal' = FALSE /\ SmallChange(c)
        /\ UNCHANGED <<sensors, followed>>
    BY <1>4 DEF UpdateSensorValue
  <2>2. c \in EquipmentClasses
    BY <2>1, FoundClass
  <2>3. Detected' <=> value' < c[2] \/ value' > c[3]
    BY <2>1 DEF Detected, ServerClasses, NormalRange
  <2> HIDE DEF id, c
  <2>4. c[2] \in Int /\ c[3] \in Int /\ Width(c) \in Nat /\ Width(c) >= 2 /\ c[2] < c[3]
    BY <2>2, ClassRange DEF Width
  <2>5. value' \in Int /\ abnormal' \in BOOLEAN /\ (Detected' <=> abnormal')
    <3>1. CASE abnormal' = TRUE /\ AbnormalValue(c)
      <4>1. PICK half \in {1, 2, 4} :
              value' \in {c[3] + (Width(c) * half) \div 2, c[2] - (Width(c) * half) \div 2}
        BY <3>1 DEF AbnormalValue
      <4> DEFINE q == (Width(c) * half) \div 2
      <4>2. q \in Nat \ {0}
        BY <2>4, HalfWidth
      <4> HIDE DEF q
      <4>3. value' = c[3] + q \/ value' = c[2] - q
        BY <4>1 DEF q
      <4> QED BY <2>3, <2>4, <3>1, <4>2, <4>3
    <3>2. CASE abnormal' = FALSE /\ SmallChange(c)
      <4>1. PICK change \in {-1, 0, 1} :
              value' = Clamp(value + change * (Width(c) \div DeltaParts), c[2], c[3])
        BY <3>2 DEF SmallChange
      <4> DEFINE q == Width(c) \div DeltaParts  v == value + change * q
      <4>2. q \in Nat
        BY <2>4, TablesAssumption, ModDiv
      <4> HIDE DEF q
      <4>3. v \in Int
        BY <1>1, <4>2
      <4> HIDE DEF v
      <4>4. value' = Clamp(v, c[2], c[3])
        BY <4>1 DEF v, q
      <4>5. value' \in Int /\ ~ (value' < c[2]) /\ ~ (value' > c[3])
        BY <2>4, <4>3, <4>4 DEF Clamp
      <4>6. ~ Detected'
        BY <2>3, <4>5
      <4> QED BY <3>2, <4>5, <4>6
    <3> QED BY <2>1, <3>1, <3>2
  <2> QED BY <1>1, <2>1, <2>5 DEF ValueInv, Finished, IsSequence, AnomalyIffAbnormal, Total
<1>5. CASE UNCHANGED tableVars
  BY <1>1, <1>5 DEF tableVars, ValueInv, Finished, IsSequence, AnomalyIffAbnormal, Detected
<1> QED BY <1>2, <1>3, <1>4, <1>5 DEF TablesNext

(* The server flags a reading exactly when the equipment made it abnormal, *)
(* however small a normal change is (data_generator.c:89-116,              *)
(* anomaly_detection.c:3-16).                                              *)
THEOREM AbnormalAlwaysDetected == TablesSpec => []AnomalyIffAbnormal
<1>1. ValueInv => AnomalyIffAbnormal
  BY DEF ValueInv
<1> QED BY <1>1, ValueInit, ValueStep, PTL DEF TablesSpec

-----------------------------------------------------------------------------
(* The tables, row by row: the position of the first sensor of a row and   *)
(* what its rows say in init_sensors, in SENSOR_LAYOUT and in the log.     *)

(* A set of numbers that is not empty has a least element.                 *)
LEMMA LeastOf ==
  ASSUME NEW T, T \subseteq Nat, T # {}
  PROVE  \E m \in T : \A j \in T : m <= j
<1>1. PICK m \in T : \A j \in T : ~ (<<j, m>> \in OpToRel(<, Nat))
  BY WFMin, NatLessThanWellFounded
<1>2. ASSUME NEW j \in T PROVE m <= j
  <2>1. m \in Nat /\ j \in Nat
    OBVIOUS
  <2>2. <<j, m>> \in Nat \X Nat /\ ~ (<<j, m>> \in OpToRel(<, Nat))
    BY <1>1, <2>1
  <2>3. ~ (j < m)
    BY <2>1, <2>2, Zenon DEF OpToRel
  <2> QED BY <2>1, <2>3
<1> QED BY <1>2

RowStart == <<0, 6, 12, 16, 20, 34, 40, 44, 48, 52, 60, 64, 72, 76, 86, 92, 98, 102, 107, 112,
              117, 119, 122, 128>>
RowModule == <<0, 0, 0, 0, 1, 1, 1, 1, 1, 2, 2, 3, 3, 4, 4, 4, 4, 5, 5, 6, 6, 6, 7>>
RowType == <<0, 2, 3, 8, 4, 5, 6, 7, 8, 0, 15, 9, 10, 5, 6, 7, 8, 11, 12, 0, 13, 14, 15>>

LEMMA RowWidths ==
  \A k \in 1 .. 23 :
    /\ RowStart[k + 1] - RowStart[k] \in 1 .. 14
    /\ RowStart[k] \in Nat /\ RowStart[k + 1] \in Nat
BY SMTT(60) DEF RowStart

LEMMA RowKeys == \A k \in 1 .. 23 : RowModule[k] \in 0 .. 7 /\ RowType[k] \in 0 .. 15
BY SMTT(60) DEF RowModule, RowType

LEMMA RowKeysDiffer ==
  \A j, k \in 1 .. 23 : RowModule[j] = RowModule[k] /\ RowType[j] = RowType[k] => j = k
BY SMTT(60) DEF RowModule, RowType

LEMMA RowsOf ==
  /\ Len(SensorRows) = 23
  /\ \A k \in 1 .. 23 :
       /\ SensorRows[k][1] = RowModule[k] /\ SensorRows[k][2] = RowType[k]
       /\ SensorRows[k][3] = RowStart[k + 1] - RowStart[k]
       /\ SensorRows[k][4] \in Nat \ {0}
<1>1. Len(SensorRows) = 23
  BY DEF SensorRows
<1>2. \A k \in 1 .. 23 :
        /\ SensorRows[k][1] = RowModule[k] /\ SensorRows[k][2] = RowType[k]
        /\ SensorRows[k][4] \in Nat \ {0}
  BY SMTT(60) DEF SensorRows, RowModule, RowType, Module, SensorType
<1>3. \A k \in 1 .. 23 : SensorRows[k][3] = RowStart[k + 1] - RowStart[k]
  BY SMTT(60) DEF SensorRows, RowStart, Module, SensorType
<1> QED BY <1>1, <1>2, <1>3

LEMMA LayoutOf ==
  /\ Len(SensorLayout) = 23
  /\ \A k \in 1 .. 23 :
       /\ SensorLayout[k][1] = RowModule[k] /\ SensorLayout[k][2] = RowType[k]
       /\ SensorLayout[k][3] = RowStart[k + 1] - RowStart[k]
<1> DEFINE Row(k, m, t, n) == /\ SensorLayout[k][1] = m /\ SensorLayout[k][2] = t
                              /\ SensorLayout[k][3] = n
<1>1. Row(1, 0, 0, 6)
  BY DEF SensorLayout
<1>2. Row(2, 0, 2, 6)
  BY DEF SensorLayout
<1>3. Row(3, 0, 3, 4)
  BY DEF SensorLayout
<1>4. Row(4, 0, 8, 4)
  BY DEF SensorLayout
<1>5. Row(5, 1, 4, 14)
  BY DEF SensorLayout
<1>6. Row(6, 1, 5, 6)
  BY DEF SensorLayout
<1>7. Row(7, 1, 6, 4)
  BY DEF SensorLayout
<1>8. Row(8, 1, 7, 4)
  BY DEF SensorLayout
<1>9. Row(9, 1, 8, 4)
  BY DEF SensorLayout
<1>10. Row(10, 2, 0, 8)
  BY DEF SensorLayout
<1>11. Row(11, 2, 15, 4)
  BY DEF SensorLayout
<1>12. Row(12, 3, 9, 8)
  BY DEF SensorLayout
<1>13. Row(13, 3, 10, 4)
  BY DEF SensorLayout
<1>14. Row(14, 4, 5, 10)
  BY DEF SensorLayout
<1>15. Row(15, 4, 6, 6)
  BY DEF SensorLayout
<1>16. Row(16, 4, 7, 6)
  BY DEF SensorLayout
<1>17. Row(17, 4, 8, 4)
  BY DEF SensorLayout
<1>18. Row(18, 5, 11, 5)
  BY DEF SensorLayout
<1>19. Row(19, 5, 12, 5)
  BY DEF SensorLayout
<1>20. Row(20, 6, 0, 5)
  BY DEF SensorLayout
<1>21. Row(21, 6, 13, 2)
  BY DEF SensorLayout
<1>22. Row(22, 6, 14, 3)
  BY DEF SensorLayout
<1>23. Row(23, 7, 15, 6)
  BY DEF SensorLayout
<1>24. \A k \in 1 .. 23 : SensorLayout[k][1] = RowModule[k]
  BY <1>1, <1>2, <1>3, <1>4, <1>5, <1>6, <1>7, <1>8, <1>9, <1>10, <1>11, <1>12, <1>13,
     <1>14, <1>15, <1>16, <1>17, <1>18, <1>19, <1>20, <1>21, <1>22, <1>23, SMTT(60) DEF
     RowModule
<1>25. \A k \in 1 .. 23 : SensorLayout[k][2] = RowType[k]
  BY <1>1, <1>2, <1>3, <1>4, <1>5, <1>6, <1>7, <1>8, <1>9, <1>10, <1>11, <1>12, <1>13,
     <1>14, <1>15, <1>16, <1>17, <1>18, <1>19, <1>20, <1>21, <1>22, <1>23, SMTT(60) DEF
     RowType
<1>26. \A k \in 1 .. 23 : SensorLayout[k][3] = RowStart[k + 1] - RowStart[k]
  BY <1>1, <1>2, <1>3, <1>4, <1>5, <1>6, <1>7, <1>8, <1>9, <1>10, <1>11, <1>12, <1>13,
     <1>14, <1>15, <1>16, <1>17, <1>18, <1>19, <1>20, <1>21, <1>22, <1>23, SMTT(60) DEF
     RowStart
<1>27. Len(SensorLayout) = 23
  BY DEF SensorLayout
<1> QED BY <1>24, <1>25, <1>26, <1>27

(* The log has one unit for every row, which is what the page shows for it *)
(* if it shows any.                                                        *)
LEMMA LogAgrees ==
  ASSUME NEW i, NEW k \in 1 .. 23
  PROVE  \E u \in {x[3] : x \in LogUnits} :
           UnitsById(<<RowModule[k], RowType[k], i>>) = {u} /\ (ShowsUnit(k) => UnitText(k) = u)
<1> DEFINE Row(n, u) ==
             /\ <<RowModule[n], RowType[n], u>> \in LogUnits
             /\ \A x \in LogUnits : x[1] = RowModule[n] /\ x[2] = RowType[n] => x[3] = u
             /\ (ShowsUnit(n) => UnitText(n) = u)
<1>1. Row(1, "degC")
  BY SMT DEF LogUnits, RowModule, RowType, UnitText, ShowsUnit, SensorLayout
<1>2. Row(2, "N")
  BY SMT DEF LogUnits, RowModule, RowType, UnitText, ShowsUnit, SensorLayout
<1>3. Row(3, "W")
  BY SMT DEF LogUnits, RowModule, RowType, UnitText, ShowsUnit, SensorLayout
<1>4. Row(4, "g")
  BY SMT DEF LogUnits, RowModule, RowType, UnitText, ShowsUnit, SensorLayout
<1>5. Row(5, "mm")
  BY SMT DEF LogUnits, RowModule, RowType, UnitText, ShowsUnit, SensorLayout
<1>6. Row(6, "A")
  BY SMT DEF LogUnits, RowModule, RowType, UnitText, ShowsUnit, SensorLayout
<1>7. Row(7, "V")
  BY SMT DEF LogUnits, RowModule, RowType, UnitText, ShowsUnit, SensorLayout
<1>8. Row(8, "mm/s")
  BY SMT DEF LogUnits, RowModule, RowType, UnitText, ShowsUnit, SensorLayout
<1>9. Row(9, "g")
  BY SMT DEF LogUnits, RowModule, RowType, UnitText, ShowsUnit, SensorLayout
<1>10. Row(10, "degC")
  BY SMT DEF LogUnits, RowModule, RowType, UnitText, ShowsUnit, SensorLayout
<1>11. Row(11, "W")
  BY SMT DEF LogUnits, RowModule, RowType, UnitText, ShowsUnit, SensorLayout
<1>12. Row(12, "kPa")
  BY SMT DEF LogUnits, RowModule, RowType, UnitText, ShowsUnit, SensorLayout
<1>13. Row(13, "L/min")
  BY SMT DEF LogUnits, RowModule, RowType, UnitText, ShowsUnit, SensorLayout
<1>14. Row(14, "A")
  BY SMT DEF LogUnits, RowModule, RowType, UnitText, ShowsUnit, SensorLayout
<1>15. Row(15, "V")
  BY SMT DEF LogUnits, RowModule, RowType, UnitText, ShowsUnit, SensorLayout
<1>16. Row(16, "rpm")
  BY SMT DEF LogUnits, RowModule, RowType, UnitText, ShowsUnit, SensorLayout
<1>17. Row(17, "g")
  BY SMT DEF LogUnits, RowModule, RowType, UnitText, ShowsUnit, SensorLayout
<1>18. Row(18, "um")
  BY SMT DEF LogUnits, RowModule, RowType, UnitText, ShowsUnit, SensorLayout
<1>19. Row(19, "-")
  BY SMT DEF LogUnits, RowModule, RowType, UnitText, ShowsUnit, SensorLayout
<1>20. Row(20, "degC")
  BY SMT DEF LogUnits, RowModule, RowType, UnitText, ShowsUnit, SensorLayout
<1>21. Row(21, "%RH")
  BY SMT DEF LogUnits, RowModule, RowType, UnitText, ShowsUnit, SensorLayout
<1>22. Row(22, "m/s")
  BY SMT DEF LogUnits, RowModule, RowType, UnitText, ShowsUnit, SensorLayout
<1>23. Row(23, "kW")
  BY SMT DEF LogUnits, RowModule, RowType, UnitText, ShowsUnit, SensorLayout
<1>24. PICK u : Row(k, u)
  <2> HIDE DEF Row
  <2> QED
    BY <1>1, <1>2, <1>3, <1>4, <1>5, <1>6, <1>7, <1>8, <1>9, <1>10, <1>11, <1>12, <1>13,
       <1>14, <1>15, <1>16, <1>17, <1>18, <1>19, <1>20, <1>21, <1>22, <1>23
<1> DEFINE m == RowModule[k]  t == RowType[k]
<1>25. /\ <<m, t, u>> \in LogUnits
       /\ \A x \in LogUnits : x[1] = m /\ x[2] = t => x[3] = u
       /\ (ShowsUnit(k) => UnitText(k) = u)
  BY <1>24
<1> HIDE DEF m, t
<1>26. UnitsById(<<m, t, i>>) = {u}
  <2>1. /\ <<m, t, u>>[1] = m /\ <<m, t, u>>[2] = t /\ <<m, t, u>>[3] = u
        /\ <<m, t, i>>[1] = m /\ <<m, t, i>>[2] = t
    OBVIOUS
  <2> QED BY <1>25, <2>1 DEF UnitsById
<1>27. u \in {x[3] : x \in LogUnits}
  <2>1. <<m, t, u>>[3] = u
    OBVIOUS
  <2> QED BY <1>25, <2>1, Zenon
<1> QED BY <1>25, <1>26, <1>27, Zenon DEF m, t

(* The recursion of Before, unfolded.                                      *)
LEMMA BeforeIs ==
  ASSUME NEW rows, Len(rows) = 23,
         \A k \in 1 .. 23 : rows[k][3] = RowStart[k + 1] - RowStart[k]
  PROVE  \A k \in 1 .. 24 : Before(rows)[k] = RowStart[k]
<1> DEFINE R(w) == w = [k \in 1 .. 24 |-> IF k = 1 THEN 0 ELSE w[k - 1] + rows[k - 1][3]]
<1>1. \A k \in 1 .. 24 : RowStart[k] = IF k = 1 THEN 0 ELSE RowStart[k - 1] + rows[k - 1][3]
  <2>1. RowStart[1] = 0
    BY DEF RowStart
  <2>2. \A k \in 1 .. 24 : RowStart[k] \in Nat
    BY SMTT(60) DEF RowStart
  <2>3. \A k \in 2 .. 24 : RowStart[k] = RowStart[k - 1] + (RowStart[k] - RowStart[k - 1])
    BY <2>2
  <2>4. \A k \in 2 .. 24 : k - 1 \in 1 .. 23 /\ (k - 1) + 1 = k
    OBVIOUS
  <2>5. \A k \in 2 .. 24 : rows[k - 1][3] = RowStart[k] - RowStart[k - 1]
    BY <2>4
  <2>6. \A k \in 1 .. 24 : k # 1 => k \in 2 .. 24
    OBVIOUS
  <2> QED BY <2>1, <2>3, <2>5, <2>6
<1>2. R([k \in 1 .. 24 |-> RowStart[k]])
  <2> DEFINE w == [k \in 1 .. 24 |-> RowStart[k]]
  <2>1. \A k \in 1 .. 24 : w[k] = RowStart[k]
                                  /\ (k # 1 => k - 1 \in 1 .. 24 /\ w[k - 1] = RowStart[k - 1])
    OBVIOUS
  <2>2. w = [k \in 1 .. 24 |-> w[k]]
    OBVIOUS
  <2> HIDE DEF w
  <2> QED BY <1>1, <2>1, <2>2
<1>3. PICK e : R(e) /\ Before(rows) = e
  <2>1. \E w : R(w)
    BY <1>2
  <2>2. Len(rows) + 1 = 24
    OBVIOUS
  <2> QED BY <2>1, <2>2 DEF Before
<1>4. e[1] = 0 /\ \A k \in 2 .. 24 : e[k] = e[k - 1] + (RowStart[k] - RowStart[k - 1])
  <2>1. \A k \in 1 .. 24 : e[k] = IF k = 1 THEN 0 ELSE e[k - 1] + rows[k - 1][3]
    BY <1>3
  <2>2. \A k \in 2 .. 24 : k - 1 \in 1 .. 23 /\ (k - 1) + 1 = k /\ k \in 1 .. 24 /\ k # 1
    OBVIOUS
  <2> QED BY <2>1, <2>2
<1> HIDE DEF R
<1>5. \A k \in 1 .. 24 : e[k] = RowStart[k]
  <2> DEFINE T == {k \in Nat : k \in 1 .. 24 /\ e[k] # RowStart[k]}
  <2> SUFFICES ASSUME T # {} PROVE FALSE
    OBVIOUS
  <2>1. PICK m \in T : \A j \in T : m <= j
    <3>1. T \subseteq 1 .. 24
      OBVIOUS
    <3> QED BY <3>1, LeastOf
  <2>2. \A k \in 1 .. 24 : RowStart[k] \in Nat
    BY SMTT(60) DEF RowStart
  <2>3. m \in 2 .. 24 /\ m - 1 \in 1 .. 24 /\ e[m - 1] = RowStart[m - 1]
    BY <1>4, <2>1 DEF RowStart
  <2> QED BY <1>4, <2>1, <2>2, <2>3
<1> QED BY <1>3, <1>5

LEMMA SensorRowStarts ==
  \A k \in 1 .. 24 : Before(SensorRows)[k] = RowStart[k]
BY RowsOf, BeforeIs

LEMMA LayoutStarts ==
  \A k \in 1 .. 24 : Before(SensorLayout)[k] = RowStart[k]
BY LayoutOf, BeforeIs

LEMMA TotalIs == Total = 128
BY RowsOf, SensorRowStarts DEF Total, RowStart

LEMMA TileCountIs == TileCount = 128
BY LayoutOf, LayoutStarts DEF TileCount, RowStart

(* The invariant: sensor i is a unit of the row whose positions i - 1 is   *)
(* among, so that no two sensors share an id.                              *)
InRow(i, k) == i - 1 \in RowStart[k] .. RowStart[k + 1] - 1
UnitOfRow(i, k) == <<RowModule[k], RowType[k], i - 1 - RowStart[k]>>
FromRow(i, k) ==
  /\ InRow(i, k)
  /\ sensors[i].sensor_id = MakeSensorId(RowModule[k], RowType[k], i - 1 - RowStart[k])
  /\ sensors[i].period_ms \in Nat \ {0}
TablesInv ==
  /\ \E S : sensors \in Seq(S)
  /\ Len(sensors) <= 128
  /\ \A i \in 1 .. Len(sensors) : \E k \in 1 .. 23 : FromRow(i, k)

LEMMA TablesInvInit == TablesInit => TablesInv
<1> SUFFICES ASSUME TablesInit PROVE TablesInv
  OBVIOUS
<1>1. sensors = << >> /\ sensors \in Seq({})
  BY DEF TablesInit
<1>2. Len(sensors) = 0
  BY <1>1
<1> QED BY <1>1, <1>2 DEF TablesInv

LEMMA TablesInvStep == TablesInv /\ [TablesNext]_tableVars => TablesInv'
<1> SUFFICES ASSUME TablesInv, [TablesNext]_tableVars PROVE TablesInv'
  OBVIOUS
<1>1. CASE UNCHANGED sensors
  BY <1>1 DEF TablesInv, FromRow
<1>2. CASE AddSensor
  <2> DEFINE n == Len(sensors)
  <2>1. PICK S : sensors \in Seq(S)
    BY DEF TablesInv
  <2>2. n < 128 /\ n \in Nat
    BY <1>2, <2>1, TotalIs DEF AddSensor
  <2>3. PICK k \in 1 .. 23 :
          /\ n \in RowStart[k] .. RowStart[k + 1] - 1
          /\ sensors' = Append(sensors,
               [sensor_id |-> MakeSensorId(RowModule[k], RowType[k], n - RowStart[k]),
                period_ms |-> SensorRows[k][4]])
    <3>1. \A j \in 1 .. 23 : j \in 1 .. 24 /\ j + 1 \in 1 .. 24
      OBVIOUS
    <3>2. \A j \in 1 .. 23 :
            Before(SensorRows)[j] = RowStart[j] /\ Before(SensorRows)[j + 1] = RowStart[j + 1]
      BY <3>1, SensorRowStarts
    <3>3. PICK j \in 1 .. 23 :
            /\ n \in Before(SensorRows)[j] .. Before(SensorRows)[j + 1] - 1
            /\ sensors' = Append(sensors,
                 [sensor_id |-> MakeSensorId(SensorRows[j][1], SensorRows[j][2], Unit(n, j)),
                  period_ms |-> SensorRows[j][4]])
      BY <1>2, RowsOf DEF AddSensor
    <3>4. Unit(n, j) = n - RowStart[j]
      BY <3>2 DEF Unit
    <3>5. SensorRows[j][1] = RowModule[j] /\ SensorRows[j][2] = RowType[j]
      BY RowsOf
    <3> QED BY <3>2, <3>3, <3>4, <3>5
  <2> DEFINE e == [sensor_id |-> MakeSensorId(RowModule[k], RowType[k], n - RowStart[k]),
                   period_ms |-> SensorRows[k][4]]
  <2>4. /\ e.sensor_id = MakeSensorId(RowModule[k], RowType[k], n - RowStart[k])
        /\ e.period_ms \in Nat \ {0}
    BY RowsOf
  <2> HIDE DEF e
  <2>5. sensors' = Append(sensors, e)
    BY <2>3 DEF e
  <2>6. sensors \in Seq(S \cup {e})
    BY <2>1
  <2>7. /\ sensors' \in Seq(S \cup {e}) /\ Len(sensors') = n + 1 /\ sensors'[n + 1] = e
        /\ \A i \in 1 .. n : sensors'[i] = sensors[i]
    BY <2>5, <2>6
  <2>8. ASSUME NEW i \in 1 .. n + 1
        PROVE  \E j \in 1 .. 23 : FromRow(i, j)'
    <3>1. CASE i \in 1 .. n
      <4>1. PICK j \in 1 .. 23 : FromRow(i, j)
        BY <3>1 DEF TablesInv
      <4> QED BY <2>7, <3>1, <4>1 DEF FromRow, InRow
    <3>2. CASE i = n + 1
      <4>1. i - 1 = n
        BY <2>2, <3>2
      <4>2. sensors'[i] = e
        BY <2>7, <3>2
      <4>3. InRow(i, k)
        BY <2>3, <4>1 DEF InRow
      <4>4. i - 1 - RowStart[k] = n - RowStart[k]
        BY <4>1
      <4>5. FromRow(i, k)'
        BY <2>4, <4>2, <4>3, <4>4 DEF FromRow, InRow
      <4> QED BY <4>5
    <3>3. i \in 1 .. n \/ i = n + 1
      <4> HIDE DEF n
      <4> QED BY <2>2
    <3> QED BY <3>1, <3>2, <3>3
  <2>9. Len(sensors') <= 128
    BY <2>2, <2>7
  <2>10. \A i \in 1 .. Len(sensors') : \E j \in 1 .. 23 : FromRow(i, j)'
    BY <2>7, <2>8
  <2>11. \E U : sensors' \in Seq(U)
    BY <2>7
  <2> HIDE DEF n
  <2> QED BY <2>9, <2>10, <2>11 DEF TablesInv
<1>3. CASE InitSensorState \/ UpdateSensorValue
  <2>1. UNCHANGED sensors
    BY <1>3 DEF InitSensorState, UpdateSensorValue
  <2> QED BY <1>1, <2>1
<1>4. CASE UNCHANGED tableVars
  BY <1>1, <1>4 DEF tableVars
<1> QED BY <1>2, <1>3, <1>4 DEF TablesNext

(* decode_sensor_id reads back what MAKE_SENSOR_ID packed.                  *)
LEMMA DecodedIs ==
  ASSUME NEW m \in 0 .. 7, NEW t \in 0 .. 15, NEW i \in 0 .. 13
  PROVE  Decoded(MakeSensorId(m, t, i)) = <<m, t, i>>
<1>1. m % 16 = m /\ t % 16 = t /\ i % 256 = i
  OBVIOUS
<1> DEFINE id == m * 4096 + t * 256 + i
<1>2. MakeSensorId(m, t, i) = id
  BY <1>1 DEF MakeSensorId
<1>3. id \div 4096 = m /\ id \div 256 = m * 16 + t /\ id % 256 = i
  BY Z3
<1>4. (m * 16 + t) % 16 = t
  BY Z3
<1> HIDE DEF id
<1> QED BY <1>1, <1>2, <1>3, <1>4 DEF Decoded

(* A unit of a row has that row of the layout, and its position as tile.   *)
LEMMA TileOf ==
  ASSUME NEW i \in 1 .. 128, NEW k \in 1 .. 23, InRow(i, k)
  PROVE  /\ LayoutRows(UnitOfRow(i, k)) = {k}
         /\ TilesOf(UnitOfRow(i, k)) = {i - 1}
<1> DEFINE u == i - 1 - RowStart[k]
<1>1. u \in 0 .. 13 /\ u < RowStart[k + 1] - RowStart[k] /\ RowStart[k] + u = i - 1
  <2> DEFINE a == RowStart[k]  b == RowStart[k + 1]
  <2>1. /\ b - a \in 1 .. 14
        /\ a \in Nat /\ b \in Nat
    BY RowWidths, Zenon
  <2>2. i - 1 \in a .. b - 1
    BY DEF InRow
  <2> HIDE DEF a, b
  <2>3. i - 1 - a \in 0 .. 13 /\ i - 1 - a < b - a /\ a + (i - 1 - a) = i - 1
    BY <2>1, <2>2
  <2> QED BY <2>3 DEF a, b
<1>2. /\ UnitOfRow(i, k)[1] = RowModule[k] /\ UnitOfRow(i, k)[2] = RowType[k]
      /\ UnitOfRow(i, k)[3] = u
  BY DEF UnitOfRow
<1> HIDE DEF u
<1>3. LayoutRows(UnitOfRow(i, k)) = {k}
  <2>1. ASSUME NEW j \in 1 .. 23
        PROVE  /\ SensorLayout[j][1] = UnitOfRow(i, k)[1]
               /\ SensorLayout[j][2] = UnitOfRow(i, k)[2]
               /\ UnitOfRow(i, k)[3] < SensorLayout[j][3]
               <=> j = k
    <3>1. CASE j = k
      BY <1>1, <1>2, <3>1, LayoutOf
    <3>2. CASE j # k
      BY <1>2, <3>2, LayoutOf, RowKeysDiffer
    <3> QED BY <3>1, <3>2
  <2>2. 1 .. Len(SensorLayout) = 1 .. 23
    BY LayoutOf
  <2> QED BY <2>1, <2>2 DEF LayoutRows
<1>4. TilesOf(UnitOfRow(i, k)) = {Before(SensorLayout)[k] + u}
  BY <1>2, <1>3 DEF TilesOf
<1> QED BY <1>1, <1>3, <1>4, LayoutStarts

LEMMA DecodedRow ==
  ASSUME NEW i \in 1 .. 128, NEW k \in 1 .. 23, FromRow(i, k)
  PROVE  Decoded(sensors[i].sensor_id) = UnitOfRow(i, k)
<1>1. i - 1 - RowStart[k] \in 0 .. 13
  <2> DEFINE a == RowStart[k]  b == RowStart[k + 1]
  <2>1. /\ b - a \in 1 .. 14
        /\ a \in Nat /\ b \in Nat
    BY RowWidths, Zenon
  <2>2. i - 1 \in a .. b - 1
    BY DEF FromRow, InRow
  <2> HIDE DEF a, b
  <2>3. i - 1 - a \in 0 .. 13
    BY <2>1, <2>2
  <2> QED BY <2>3 DEF a
<1> QED BY <1>1, RowKeys, DecodedIs DEF FromRow, UnitOfRow

LEMMA AllKnown == TablesInv => KnownEverywhere
<1> SUFFICES ASSUME TablesInv, sensors # << >>, followed = 0 PROVE KnownEverywhere
  BY DEF KnownEverywhere
<1> DEFINE unitOf(i) == Decoded(sensors[i].sensor_id)
           last == Len(sensors)
<1>1. last \in 1 .. 128
  <2>1. PICK S : sensors \in Seq(S)
    BY DEF TablesInv
  <2>2. last \in Nat /\ last # 0
    BY <2>1, EmptySeq
  <2>3. last <= 128
    BY DEF TablesInv
  <2> HIDE DEF last
  <2> QED BY <2>2, <2>3
<1>2. \A i \in 1 .. last : \E k \in 1 .. 23 : FromRow(i, k)
  BY DEF TablesInv
<1>3. ASSUME NEW i \in 1 .. last
      PROVE  \E k \in 1 .. 23 : unitOf(i) = UnitOfRow(i, k) /\ LayoutRows(unitOf(i)) = {k}
                                /\ TilesOf(unitOf(i)) = {i - 1}
  <2>1. PICK k \in 1 .. 23 : FromRow(i, k)
    BY <1>2
  <2>2. i \in 1 .. 128 /\ InRow(i, k)
    <3> HIDE DEF last
    <3> QED BY <1>1, <2>1 DEF FromRow
  <2>3. unitOf(i) = UnitOfRow(i, k)
    BY <2>1, <2>2, DecodedRow
  <2>4. LayoutRows(UnitOfRow(i, k)) = {k} /\ TilesOf(UnitOfRow(i, k)) = {i - 1}
    BY <2>2, TileOf
  <2> HIDE DEF unitOf
  <2> QED BY <2>3, <2>4
<1>4. PICK k \in 1 .. 23 : unitOf(last) = UnitOfRow(last, k) /\ LayoutRows(unitOf(last)) = {k}
                           /\ TilesOf(unitOf(last)) = {last - 1}
  <2> HIDE DEF unitOf, last
  <2>1. last \in 1 .. last
    BY <1>1
  <2> QED BY <1>3, <2>1
<1> DEFINE tilesOf(i) == TilesOf(Decoded(sensors[i].sensor_id))
           unit == Decoded(sensors[last].sensor_id)
<1>5. \A i \in 1 .. last : tilesOf(i) = {i - 1}
  <2> HIDE DEF last
  <2> QED BY <1>3
<1>6. \E u \in {x[3] : x \in LogUnits} :
        UnitsById(unit) = {u} /\ \A j \in LayoutRows(unit) : ShowsUnit(j) => UnitText(j) = u
  <2>1. PICK u \in {x[3] : x \in LogUnits} :
          UnitsById(unitOf(last)) = {u} /\ (ShowsUnit(k) => UnitText(k) = u)
    BY <1>4, LogAgrees DEF UnitOfRow
  <2>2. unit = unitOf(last)
    OBVIOUS
  <2> HIDE DEF unit, unitOf, last
  <2> QED BY <1>4, <2>1, <2>2, Zenon
<1> HIDE DEF tilesOf, unit, last
<1>7. \E p \in 0 .. TileCount - 1 :
        tilesOf(last) = {p} /\ \A i \in 1 .. last - 1 : tilesOf(i) # {p}
  <2>1. last - 1 \in 0 .. TileCount - 1 /\ tilesOf(last) = {last - 1}
    BY <1>1, <1>5, TileCountIs
  <2>2. ASSUME NEW i \in 1 .. last - 1 PROVE tilesOf(i) # {last - 1}
    <3>1. i \in 1 .. last /\ i - 1 # last - 1
      BY <1>1
    <3>2. tilesOf(i) = {i - 1}
      BY <1>5, <3>1
    <3> QED BY <3>1, <3>2
  <2> QED BY <2>1, <2>2
<1>8. last = Total => \A p \in 0 .. TileCount - 1 : \E i \in 1 .. last : tilesOf(i) = {p}
  <2> SUFFICES ASSUME last = Total, NEW p \in 0 .. TileCount - 1
               PROVE  \E i \in 1 .. last : tilesOf(i) = {p}
    OBVIOUS
  <2>1. p + 1 \in 1 .. last /\ (p + 1) - 1 = p
    BY TotalIs, TileCountIs
  <2> QED BY <1>5, <2>1
<1> QED BY <1>6, <1>7, <1>8, Zenon DEF KnownEverywhere, tilesOf, unit, last

(* The sensors and the tiles of the page correspond one to one, and the    *)
(* disk log has one unit for each sensor, the page's where that shows one  *)
(* (init_sensors against SENSOR_LAYOUT, app.js:18-90, and get_unit_by_id,  *)
(* file_logger.c:24-60).                                                   *)
THEOREM EverySensorKnown == TablesSpec => []KnownEverywhere
BY TablesInvInit, TablesInvStep, AllKnown, PTL DEF TablesSpec

-----------------------------------------------------------------------------
(* The buffers.                                                            *)

(* SumTo is the recursion of the sums over sensors and threads.            *)
SumTo(lo, hi, b, w) ==
  w = [i \in lo .. hi |-> IF i = lo THEN 0 ELSE w[i - 1] + b[i]]

LEMMA SumReaches ==
  ASSUME NEW lo \in Int, NEW n \in Nat, NEW b
  PROVE  \E w : SumTo(lo, lo + n, b, w)
<1> DEFINE T == {k \in Nat : ~ \E w : SumTo(lo, lo + k, b, w)}
<1> SUFFICES ASSUME T # {} PROVE FALSE
  OBVIOUS
<1>1. PICK m \in T : \A j \in T : m <= j
  BY LeastOf, T \subseteq Nat
<1>2. m \in Nat /\ ~ \E w : SumTo(lo, lo + m, b, w)
  OBVIOUS
<1>3. m # 0
  <2>1. SumTo(lo, lo + 0, b, [i \in lo .. lo + 0 |-> 0])
    BY DEF SumTo
  <2> QED BY <1>2, <2>1
<1>4. m - 1 \in Nat /\ ~ (m <= m - 1)
  BY <1>2, <1>3
<1>5. PICK w : SumTo(lo, lo + (m - 1), b, w)
  BY <1>1, <1>4
<1> HIDE DEF T
<1> DEFINE hi == lo + m
           x == [i \in lo .. hi |-> IF i = hi THEN w[i - 1] + b[i] ELSE w[i]]
<1>6. hi \in Int /\ hi > lo /\ lo + (m - 1) = hi - 1
  BY <1>2, <1>3
<1> HIDE DEF hi
<1>7. \A i \in lo .. hi : x[i] = IF i = hi THEN w[i - 1] + b[i] ELSE w[i]
  OBVIOUS
<1>8. x = [i \in lo .. hi |-> x[i]]
  OBVIOUS
<1> HIDE DEF x
<1>9. \A i \in lo .. hi - 1 : w[i] = IF i = lo THEN 0 ELSE w[i - 1] + b[i]
  BY <1>5, <1>6 DEF SumTo
<1>10. ASSUME NEW i \in lo .. hi
       PROVE  x[i] = IF i = lo THEN 0 ELSE x[i - 1] + b[i]
  <2>1. i \in Int
    BY <1>6
  <2>2. i # lo => i - 1 \in lo .. hi /\ i - 1 # hi
    BY <1>6, <2>1
  <2>3. i # lo => x[i - 1] = w[i - 1]
    BY <1>7, <2>2
  <2>4. CASE i = hi
    BY <1>6, <1>7, <2>3, <2>4
  <2>5. CASE i # hi
    <3>1. i \in lo .. hi - 1
      BY <1>6, <2>1, <2>5
    <3> QED BY <1>7, <1>9, <2>3, <2>5, <3>1
  <2> QED BY <2>4, <2>5
<1>11. SumTo(lo, hi, b, x)
  BY <1>8, <1>10 DEF SumTo
<1> QED BY <1>2, <1>11 DEF hi

(* The packets of a thread in a second: one each millisecond.              *)
PerThread == 1000

LEMMA SumBounded ==
  ASSUME NEW lo \in Int, NEW hi \in Int, hi >= lo, NEW b, NEW w, SumTo(lo, hi, b, w),
         \A i \in lo + 1 .. hi : b[i] \in 0 .. PerThread
  PROVE  w[hi] \in 0 .. PerThread * (hi - lo)
<1> DEFINE Bounded(k) == w[lo + k] \in 0 .. PerThread * k
           T == {k \in Nat : k <= hi - lo /\ ~ Bounded(k)}
<1>1. \A i \in lo .. hi : w[i] = IF i = lo THEN 0 ELSE w[i - 1] + b[i]
  BY DEF SumTo
<1>2. Bounded(0)
  <2>1. w[lo] = 0 /\ lo + 0 = lo
    BY <1>1
  <2> QED BY <2>1, SMT DEF PerThread
<1>3. ASSUME NEW k \in Nat, k + 1 <= hi - lo, Bounded(k)
      PROVE  Bounded(k + 1)
  <2> DEFINE p == w[lo + k]  q == b[lo + (k + 1)]
  <2>1. /\ lo + (k + 1) \in lo + 1 .. hi /\ (lo + (k + 1)) - 1 = lo + k
        /\ lo + (k + 1) \in lo .. hi /\ lo + (k + 1) # lo
    <3> HIDE DEF Bounded, T, p, q
    <3>1. k + 1 > 0 /\ k + 1 \in Nat
      OBVIOUS
    <3> QED BY <1>3, <3>1
  <2>2. w[lo + (k + 1)] = p + q
    BY <1>1, <2>1
  <2>3. p \in 0 .. PerThread * k /\ q \in 0 .. PerThread
    BY <1>3, <2>1
  <2> HIDE DEF p, q
  <2>4. p + q \in 0 .. PerThread * (k + 1)
    BY <2>3, SMT DEF PerThread
  <2> QED BY <2>2, <2>4
<1> HIDE DEF Bounded
<1>4. T = {}
  <2> SUFFICES ASSUME T # {} PROVE FALSE
    OBVIOUS
  <2>1. PICK m \in T : \A j \in T : m <= j
    BY LeastOf, T \subseteq Nat
  <2>2. m \in Nat /\ m <= hi - lo /\ ~ Bounded(m)
    OBVIOUS
  <2>3. m # 0
    BY <1>2, <2>2
  <2>4. m - 1 \in Nat /\ m - 1 <= hi - lo /\ ~ (m <= m - 1) /\ (m - 1) + 1 = m
    BY <2>2, <2>3
  <2>5. Bounded(m - 1)
    BY <2>1, <2>4
  <2>6. Bounded((m - 1) + 1)
    BY <1>3, <2>2, <2>4, <2>5
  <2> QED BY <2>2, <2>4, <2>6
<1>5. hi - lo \in Nat /\ lo + (hi - lo) = hi
  OBVIOUS
<1>6. Bounded(hi - lo)
  BY <1>4, <1>5
<1> QED BY <1>5, <1>6 DEF Bounded

(* A thread sends at most a packet per millisecond.                        *)
LEMMA PerSecond ==
  ASSUME NEW p \in Nat \ {0}
  PROVE  1000 \div p \in 0 .. PerThread
<1> DEFINE q == 1000 \div p  r == 1000 % p
<1>1. q \in Nat /\ r \in 0 .. p - 1 /\ 1000 = (p * q) + r
  BY Z3
<1> HIDE DEF q, r
<1>2. p * q >= q
  BY <1>1, Z3
<1>3. p * q \in Nat
  BY <1>1, Z3
<1>4. q <= 1000
  BY <1>1, <1>2, <1>3, SMT
<1> QED BY <1>1, <1>4, SMT DEF q, PerThread

LEMMA DueIs ==
  ASSUME TablesInv, NEW m \in 0 .. 7
  PROVE  DuePerSecond(m) \in 0 .. PerThread
<1> DEFINE n == Len(sensors)
           d(i) == IF Decoded(sensors[i].sensor_id)[1] = m
                   THEN 1000 \div sensors[i].period_ms ELSE 0
           b == [i \in 1 .. n |-> d(i)]
<1>1. n \in Nat
  <2>1. PICK S : sensors \in Seq(S)
    BY DEF TablesInv
  <2> QED BY <2>1
<1>2. \A i \in 1 .. n : d(i) \in 0 .. PerThread
  <2>1. \A i \in 1 .. n : sensors[i].period_ms \in Nat \ {0}
    BY DEF TablesInv, FromRow
  <2>2. ASSUME NEW i \in 1 .. n PROVE d(i) \in 0 .. PerThread
    <3> DEFINE p == sensors[i].period_ms
               mine == Decoded(sensors[i].sensor_id)[1] = m
    <3>1. p \in Nat \ {0}
      BY <2>1
    <3>2. d(i) = IF mine THEN 1000 \div p ELSE 0
      OBVIOUS
    <3> HIDE DEF d, p, mine
    <3>3. 1000 \div p \in 0 .. PerThread
      BY <3>1, PerSecond, SMT DEF PerThread
    <3> QED BY <3>2, <3>3, SMT DEF PerThread
  <2> QED BY <2>2
<1> HIDE DEF d
<1>3. \A i \in 1 .. n : b[i] = d(i)
  OBVIOUS
<1> HIDE DEF b
<1>4. PICK w : SumTo(0, 0 + n, b, w)
  <2> HIDE DEF n
  <2> QED BY <1>1, SumReaches
<1> DEFINE R(e) == e = [i \in 0 .. n |-> IF i = 0 THEN 0 ELSE e[i - 1] + d(i)]
<1>5. \A e : SumTo(0, n, b, e) <=> R(e)
  <2> HIDE DEF n
  <2>1. \A i \in 0 .. n : i # 0 => b[i] = d(i)
    BY <1>1, <1>3
  <2> QED BY <2>1 DEF SumTo
<1>6. R(w)
  <2> HIDE DEF R, n
  <2>1. 0 + n = n
    BY <1>1
  <2> QED BY <1>4, <1>5, <2>1
<1>7. PICK e : R(e) /\ DuePerSecond(m) = IF e[n] < 1000 THEN e[n] ELSE 1000
  <2> DEFINE f == CHOOSE e : R(e)
  <2>1. DuePerSecond(m) = IF f[n] < 1000 THEN f[n] ELSE 1000
    BY Zenon DEF DuePerSecond, d
  <2>2. R(f)
    <3> HIDE DEF R
    <3> QED BY <1>6, Zenon
  <2> HIDE DEF f, R, n
  <2> QED BY <2>1, <2>2
<1> HIDE DEF n, R
<1>8. SumTo(0, n, b, e)
  BY <1>5, <1>7
<1>9. \A i \in 0 + 1 .. n : b[i] \in 0 .. PerThread
  BY <1>1, <1>2, <1>3
<1>10. e[n] \in 0 .. PerThread * (n - 0)
  BY <1>1, <1>8, <1>9, SumBounded
<1> DEFINE x == e[n]
<1> HIDE DEF x
<1>11. x \in Int /\ x >= 0
  BY <1>1, <1>10, SMT DEF PerThread, x
<1>12. DuePerSecond(m) = IF x < 1000 THEN x ELSE 1000
  BY <1>7, SMT DEF x
<1> QED BY <1>11, <1>12, SMT DEF PerThread

LEMMA PacketsBounded ==
  ASSUME TablesInv
  PROVE  PacketsPerSecond \in 0 .. 8 * PerThread
<1> DEFINE b == [m \in 0 .. 7 |-> DuePerSecond(m)]
           R(e) == e = [m \in -1 .. 7 |-> IF m = -1 THEN 0 ELSE e[m - 1] + DuePerSecond(m)]
<1>1. \A m \in 0 .. 7 : b[m] = DuePerSecond(m) /\ b[m] \in 0 .. PerThread
  BY DueIs
<1> HIDE DEF b
<1>2. \A e : SumTo(-1, 7, b, e) <=> R(e)
  <2>1. \A m \in -1 .. 7 : m # -1 => b[m] = DuePerSecond(m)
    BY <1>1
  <2> QED BY <2>1 DEF SumTo
<1>3. PICK w : SumTo(-1, 7, b, w)
  <2>1. -1 \in Int /\ 8 \in Nat /\ -1 + 8 = 7
    OBVIOUS
  <2>2. \E w : SumTo(-1, -1 + 8, b, w)
    BY <2>1, SumReaches
  <2> QED BY <2>1, <2>2
<1>4. PICK e : R(e) /\ PacketsPerSecond = e[7]
  <2>1. \E f : R(f)
    BY <1>2, <1>3
  <2> QED BY <2>1 DEF PacketsPerSecond
<1> HIDE DEF R
<1> DEFINE lo == -1
<1>5. lo \in Int /\ lo + 1 = 0 /\ 7 - lo = 8 /\ 7 >= lo /\ 7 \in Int
  OBVIOUS
<1>6. SumTo(lo, 7, b, e)
  BY <1>2, <1>4
<1> HIDE DEF lo
<1>7. \A i \in lo + 1 .. 7 : b[i] \in 0 .. PerThread
  BY <1>1, <1>5
<1>8. e[7] \in 0 .. PerThread * (7 - lo)
  BY <1>5, <1>6, <1>7, SumBounded
<1> DEFINE x == e[7]
<1> HIDE DEF x
<1>9. x \in 0 .. PerThread * (7 - lo)
  BY <1>8, Zenon DEF x
<1>10. x \in 0 .. 8 * PerThread
  BY <1>5, <1>9, SMT DEF PerThread
<1> QED BY <1>4, <1>10, Zenon DEF x

LEMMA LogFits ==
  ASSUME TablesInv, LogCapacity >= 8 * PerThread
  PROVE  PacketsPerSecond <= LogCapacity
<1> DEFINE p == PacketsPerSecond
<1>1. p \in 0 .. 8 * PerThread
  BY PacketsBounded, Zenon
<1> HIDE DEF p
<1>2. p <= LogCapacity
  BY <1>1, TablesAssumption, SMT DEF PerThread
<1> QED BY <1>2, Zenon DEF p

LEMMA DigitsAre ==
  ASSUME NEW n \in Nat, n < 100000
  PROVE  Digits(n) \in 1 .. 5 /\ (n >= 10000 => Digits(n) = 5)
<1> DEFINE Fits(d) == n < Tens[d + 1] /\ (d > 1 => n >= Tens[d])
<1>1. /\ Tens[1] = 1 /\ Tens[2] = 10 /\ Tens[3] = 100 /\ Tens[4] = 1000 /\ Tens[5] = 10000
      /\ Tens[6] = 100000 /\ Tens[7] = 1000000 /\ Tens[8] = 10000000
  BY SMT DEF Tens
<1>2. Fits(1) <=> n < 10
  BY <1>1, SMT
<1>3. Fits(2) <=> n >= 10 /\ n < 100
  BY <1>1, SMT
<1>4. Fits(3) <=> n >= 100 /\ n < 1000
  BY <1>1, SMT
<1>5. Fits(4) <=> n >= 1000 /\ n < 10000
  BY <1>1, SMT
<1>6. Fits(5) <=> n >= 10000
  BY <1>1, SMT
<1>7. ~ Fits(6) /\ ~ Fits(7)
  BY <1>1, SMT
<1>8. Digits(n) = CHOOSE d \in 1 .. 7 : Fits(d)
  BY SMT DEF Digits
<1> HIDE DEF Fits
<1>9. \E d \in 1 .. 7 : Fits(d)
  <2>1. Fits(1) \/ Fits(2) \/ Fits(3) \/ Fits(4) \/ Fits(5)
    BY <1>2, <1>3, <1>4, <1>5, <1>6, SMT
  <2> QED BY <2>1, SMT
<1>10. Digits(n) \in 1 .. 7 /\ Fits(Digits(n))
  BY <1>8, <1>9, SMT
<1> QED BY <1>2, <1>3, <1>4, <1>5, <1>6, <1>7, <1>10, SMT

(* The reach of a value, and how long a number so large is printed.        *)
LEMMA PrintedLengthIs ==
  ASSUME NEW v \in Int, v < 100000000, v > -100000000
  PROVE  /\ PrintedLength(v) \in 1 .. 10
         /\ v <= -10000000 => PrintedLength(v) = 10
<1> DEFINE high == v \div 1000  low == (-v) \div 1000
<1>1. CASE v < 0
  <2>1. low \in Nat /\ low < 100000 /\ (v <= -10000000 => low >= 10000)
    BY <1>1, SMT
  <2>2. PrintedLength(v) = 5 + Digits(low)
    BY <1>1, SMT DEF PrintedLength
  <2> HIDE DEF low
  <2>3. Digits(low) \in 1 .. 5 /\ (low >= 10000 => Digits(low) = 5)
    BY <2>1, DigitsAre, SMT
  <2> QED BY <2>1, <2>2, <2>3, SMT
<1>2. CASE ~ (v < 0)
  <2>1. high \in Nat /\ high < 100000
    BY <1>2, SMT
  <2>2. PrintedLength(v) = 4 + Digits(high)
    BY <1>2, SMT DEF PrintedLength
  <2> HIDE DEF high
  <2>3. Digits(high) \in 1 .. 5
    BY <2>1, DigitsAre, SMT
  <2> QED BY <1>2, <2>2, <2>3, SMT
<1> QED BY <1>1, <1>2, SMT

LEMMA ValueReach ==
  ASSUME NEW c \in EquipmentClasses
  PROVE  /\ c[3] + 2 * Width(c) \in Int /\ c[2] - 2 * Width(c) \in Int
         /\ c[3] + 2 * Width(c) < 100000000 /\ c[3] + 2 * Width(c) > -100000000
         /\ c[2] - 2 * Width(c) < 100000000 /\ c[2] - 2 * Width(c) > -100000000
BY SMT DEF EquipmentClasses, Class, Width

(* The longest number of a report is the abnormal power consumption.       *)
LEMMA LongestIs == LongestNumber = 10
<1>1. ASSUME NEW c \in EquipmentClasses
      PROVE  /\ PrintedLength(c[3] + 2 * Width(c)) \in 1 .. 10
             /\ PrintedLength(c[2] - 2 * Width(c)) \in 1 .. 10
  <2> DEFINE high == c[3] + 2 * Width(c)  low == c[2] - 2 * Width(c)
  <2>1. /\ high \in Int /\ high < 100000000 /\ high > -100000000
        /\ low \in Int /\ low < 100000000 /\ low > -100000000
    BY ValueReach, SMT
  <2> HIDE DEF high, low
  <2>2. PrintedLength(high) \in 1 .. 10 /\ PrintedLength(low) \in 1 .. 10
    BY <2>1, PrintedLengthIs, SMT
  <2> QED BY <2>2 DEF high, low
<1>2. ASSUME NEW l \in NumberLengths PROVE l \in 1 .. 10
  <2>1. PICK c \in EquipmentClasses :
          l \in {PrintedLength(c[3] + 2 * Width(c)), PrintedLength(c[2] - 2 * Width(c))}
    BY Zenon DEF NumberLengths
  <2> QED BY <1>1, <2>1, Zenon
<1>3. 10 \in NumberLengths
  <2>1. PICK c \in EquipmentClasses : c[2] = 2000000 /\ c[3] = 10000000
    BY SMT DEF EquipmentClasses, Class
  <2> DEFINE low == c[2] - 2 * Width(c)
  <2>2. low \in Int /\ low <= -10000000 /\ low > -100000000 /\ low < 100000000
    BY <2>1, SMT DEF Width
  <2>3. PrintedLength(low) \in NumberLengths
    BY DEF NumberLengths
  <2> HIDE DEF low
  <2>4. PrintedLength(low) = 10
    BY <2>2, PrintedLengthIs, SMT
  <2> QED BY <2>3, <2>4
<1>4. \A l \in NumberLengths : l <= 10
  BY <1>2
<1>5. LongestNumber \in NumberLengths /\ \A l \in NumberLengths : l <= LongestNumber
  <2>1. \E n \in NumberLengths : \A l \in NumberLengths : l <= n
    BY <1>3, <1>4, Zenon
  <2> QED BY <2>1, Zenon DEF LongestNumber
<1> QED BY <1>2, <1>3, <1>5

LEMMA AllFit ==
  ASSUME TablesInv, MaxSensors >= 128, FixedSize >= 1568, JsonBufSize >= 10557,
         LogCapacity >= 8000
  PROVE  BuffersFit
<1> DEFINE n == Len(sensors)
<1>1. n \in Nat
  <2>1. PICK S : sensors \in Seq(S)
    BY DEF TablesInv
  <2> QED BY <2>1
<1>2. n <= 128
  BY DEF TablesInv
<1>3. PacketBytes = 14 + 18 + 12 * n
  BY DEF PacketBytes
<1>4. EntryLength = 82
  BY LongestIs DEF EntryLength
<1>5. ReportLength = 58 + n * 82 + 3
  BY <1>4 DEF ReportLength, StateCount
<1> HIDE DEF n
<1>6. PacketBytes <= FixedSize
  BY <1>1, <1>2, <1>3, TablesAssumption
<1>7. ReportLength <= JsonBufSize
  BY <1>1, <1>2, <1>5, TablesAssumption
<1>8. PacketsPerSecond <= LogCapacity
  <2>1. LogCapacity >= 8 * PerThread
    BY TablesAssumption, SMT DEF PerThread
  <2> QED BY <2>1, LogFits, SMT
<1>9. n <= MaxSensors
  BY <1>1, <1>2, TablesAssumption
<1> QED BY <1>6, <1>7, <1>8, <1>9 DEF BuffersFit, n

(* Nothing the sensors produce outgrows an array, a packet, the report or  *)
(* the log buffer (packet.c:60-76, json_builder.c:96-117,                  *)
(* file_logger.c:161), in any build whose sizes are at least these: the    *)
(* code's are 128, 4096, 32768 and 10000.                                  *)
THEOREM BuffersLargeEnough ==
  ASSUME MaxSensors >= 128, FixedSize >= 1568, JsonBufSize >= 10557, LogCapacity >= 8000
  PROVE  TablesSpec => []BuffersFit
BY TablesInvInit, TablesInvStep, AllFit, PTL DEF TablesSpec
=============================================================================
