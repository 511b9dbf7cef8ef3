---------------------------- MODULE PacketStream ----------------------------
(***************************************************************************)
(* What the equipment promises to whoever reads its socket: a sequence of  *)
(* whole packets numbered 1, 2, 3, ... by system_bytes, in which no sensor *)
(* is reported more often than its period allows and, even when the clock  *)
(* is set back, the packets of one module are in timestamp order.          *)
(***************************************************************************)
EXTENDS Integers, Sequences

CONSTANTS Modules, Sensors, ModuleOf, Period, MaxClock

VARIABLE stream

Init == stream = << >>

(* Packet p may follow the packets of s.                                   *)
InOrder(s, p) ==
  \A i \in 1 .. Len(s) :
    /\ \A x \in s[i].sensors \cap p.sensors : p.timestamp >= s[i].timestamp + Period[x]
    /\ s[i].module = p.module => p.timestamp > s[i].timestamp

Emit(m) ==
  \E t \in 0 .. MaxClock, readings \in SUBSET {x \in Sensors : ModuleOf[x] = m} :
    LET p == [module |-> m, sys |-> Len(stream) + 1, timestamp |-> t, sensors |-> readings]
    IN  /\ readings # {}
        /\ InOrder(stream, p)
        /\ stream' = Append(stream, p)

Next == \E m \in Modules : Emit(m)

Spec == Init /\ [][Next]_stream
=============================================================================
