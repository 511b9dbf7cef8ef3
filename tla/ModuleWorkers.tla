---------------------------- MODULE ModuleWorkers ----------------------------
(***************************************************************************)
(* The equipment: one thread per module runs module_worker                 *)
(* (equipment/run/run_equipment.c), samples those of its sensors that are  *)
(* due, and sends them as one packet over the shared socket under          *)
(* socket_mutex (equipment/packet/packet.c).                               *)
(*                                                                         *)
(* The threads share the arrays sensors and states but each touches only   *)
(* the entries of its own module, so a scan is one step.  A packet goes    *)
(* into the socket in Parts pieces, as far as the socket buffer has room:  *)
(* send blocks in between, and other threads run.                          *)
(***************************************************************************)
EXTENDS Integers, Sequences, FiniteSets

CONSTANTS Modules, Sensors,
          ModuleOf,     \* decode_sensor_id: sensor -> module
          Period,       \* period_ms: sensor -> milliseconds
          Nobody,       \* the mutex is free
          Parts,        \* pieces in which send copies a packet to the socket
          SocketRoom,   \* pieces the socket buffers hold
          MaxClock,     \* bound: largest value of the wall clock
          ClockSteps    \* may CLOCK_REALTIME be set back

ASSUME WorkersAssumption ==
  /\ ModuleOf \in [Sensors -> Modules]
  /\ Period \in [Sensors -> Nat \ {0}]
  /\ Nobody \notin Modules
  /\ Parts \in Nat \ {0} /\ SocketRoom \in Nat \ {0} /\ MaxClock \in Nat
  /\ ClockSteps \in BOOLEAN

VARIABLES clock,     \* get_time_ms(), CLOCK_REALTIME
          pc,        \* where each thread is
          now,       \* its local now
          due,       \* sensors[i].next_time_ms
          batch,     \* its local out_data, as the sensors in it
          packet,    \* its local packet in send_sensor_packet
          part,      \* pieces of it already sent
          holder,    \* owner of socket_mutex
          gSys,      \* g_sys
          wire,      \* pieces put into the socket, in order
          consumed,  \* pieces the server has read
          up,        \* the server has not closed the connection
          sampled    \* every <<sensor, time>> sampled so far

vars == <<clock, pc, now, due, batch, packet, part, holder, gSys, wire, consumed,
          up, sampled>>

Own(m) == {s \in Sensors : ModuleOf[s] = m}
Clock == 0 .. MaxClock
NoPacket == [module |-> Nobody, sys |-> 0, timestamp |-> 0, sensors |-> {}]
Packet == [module : Modules \cup {Nobody}, sys : Nat, timestamp : Clock,
           sensors : SUBSET Sensors]
Piece == [packet : Packet, part : 1 .. Parts]

TypeOK ==
  /\ clock \in Clock
  /\ pc \in [Modules -> {"scan", "lock", "build", "send", "unlock", "killed"}]
  /\ now \in [Modules -> Clock]
  /\ due \in [Sensors -> Nat]
  /\ batch \in [Modules -> SUBSET Sensors]
  /\ packet \in [Modules -> Packet]
  /\ part \in [Modules -> 0 .. Parts]
  /\ holder \in Modules \cup {Nobody}
  /\ gSys \in Nat
  /\ wire \in Seq(Piece)
  /\ consumed \in Nat
  /\ up \in BOOLEAN
  /\ sampled \subseteq Sensors \X Clock

(* run: init_sensors spreads the first deadlines, connect_server succeeds, *)
(* the threads start.                                                      *)
Init ==
  /\ clock = 0
  /\ pc = [m \in Modules |-> "scan"]
  /\ now = [m \in Modules |-> 0]
  /\ due \in {f \in [Sensors -> Clock] : \A s \in Sensors : f[s] < Period[s]}
  /\ batch = [m \in Modules |-> {}]
  /\ packet = [m \in Modules |-> NoPacket]
  /\ part = [m \in Modules |-> 0]
  /\ holder = Nobody /\ gSys = 1
  /\ wire = << >> /\ consumed = 0 /\ up = TRUE /\ sampled = {}

-----------------------------------------------------------------------------
(* One pass of the loop over the sensors: now is read once, every own      *)
(* sensor that is due is sampled and rescheduled.  A pass that finds none  *)
(* sleeps 1 ms and starts over.                                            *)
NextTime(s, t) == t + Period[s]

Scan(m) ==
  LET ready == {s \in Own(m) : clock >= due[s]}
  IN  /\ pc[m] = "scan"
      /\ now' = [now EXCEPT ![m] = clock]
      /\ batch' = [batch EXCEPT ![m] = ready]
      /\ due' = [s \in Sensors |-> IF s \in ready THEN NextTime(s, clock) ELSE due[s]]
      /\ sampled' = sampled \cup (ready \X {clock})
      /\ pc' = [pc EXCEPT ![m] = IF ready = {} THEN "scan" ELSE "lock"]
      /\ UNCHANGED <<clock, packet, part, holder, gSys, wire, consumed, up>>

(* pthread_mutex_lock.                                                     *)
NoMutex == TRUE
MutexFree == holder = Nobody

Lock(m) ==
  /\ pc[m] = "lock" /\ MutexFree
  /\ holder' = m
  /\ pc' = [pc EXCEPT ![m] = "build"]
  /\ UNCHANGED <<clock, now, due, batch, packet, part, gSys, wire, consumed, up, sampled>>

(* send_sensor_packet builds header and body: the timestamp is the now of  *)
(* the scan, system_bytes is g_sys++.                                      *)
TimestampAtSend(m) == clock
Timestamp(m) == now[m]

Build(m) ==
  /\ pc[m] = "build"
  /\ packet' = [packet EXCEPT ![m] =
       [module |-> m, sys |-> gSys, timestamp |-> Timestamp(m), sensors |-> batch[m]]]
  /\ gSys' = gSys + 1
  /\ part' = [part EXCEPT ![m] = 0]
  /\ pc' = [pc EXCEPT ![m] = "send"]
  /\ UNCHANGED <<clock, now, due, batch, holder, wire, consumed, up, sampled>>

(* send blocks until the whole packet is in the socket.                    *)
OneWriteOnly(m) == "unlock"
TooManyPieces(m) == IF part[m] = Parts THEN "unlock" ELSE "send"
ForgetUnlock(m) == IF part[m] + 1 = Parts THEN "scan" ELSE "send"
AfterPiece(m) == IF part[m] + 1 = Parts THEN "unlock" ELSE "send"

SendPiece(m) ==
  /\ pc[m] = "send" /\ up /\ Len(wire) - consumed < SocketRoom
  /\ wire' = Append(wire, [packet |-> packet[m], part |-> part[m] + 1])
  /\ part' = [part EXCEPT ![m] = part[m] + 1]
  /\ pc' = [pc EXCEPT ![m] = AfterPiece(m)]
  /\ UNCHANGED <<clock, now, due, batch, packet, holder, gSys, consumed, up, sampled>>

(* The server is gone: send fails and its result is ignored, or SIGPIPE,   *)
(* which the equipment does not ignore, ends the process.                  *)
SendFails(m) ==
  /\ pc[m] = "send" /\ ~up
  /\ pc' = [pc EXCEPT ![m] = "unlock"]
  /\ UNCHANGED <<clock, now, due, batch, packet, part, holder, gSys, wire, consumed,
                 up, sampled>>

Killed(m) ==
  /\ pc[m] = "send" /\ ~up
  /\ pc' = [n \in Modules |-> "killed"]
  /\ UNCHANGED <<clock, now, due, batch, packet, part, holder, gSys, wire, consumed,
                 up, sampled>>

Unlock(m) ==
  /\ pc[m] = "unlock"
  /\ holder' = Nobody
  /\ pc' = [pc EXCEPT ![m] = "scan"]
  /\ UNCHANGED <<clock, now, due, batch, packet, part, gSys, wire, consumed, up, sampled>>

-----------------------------------------------------------------------------
(* The server's end of the socket, and time.                               *)
ServerReads ==
  /\ up /\ consumed < Len(wire)
  /\ consumed' = consumed + 1
  /\ UNCHANGED <<clock, pc, now, due, batch, packet, part, holder, gSys, wire, up, sampled>>

ServerGone ==
  /\ up /\ up' = FALSE
  /\ UNCHANGED <<clock, pc, now, due, batch, packet, part, holder, gSys, wire, consumed,
                 sampled>>

Tick ==
  /\ clock < MaxClock /\ clock' = clock + 1
  /\ UNCHANGED <<pc, now, due, batch, packet, part, holder, gSys, wire, consumed, up, sampled>>

StepBack ==
  /\ ClockSteps /\ clock' \in 0 .. clock - 1
  /\ UNCHANGED <<pc, now, due, batch, packet, part, holder, gSys, wire, consumed, up, sampled>>

Worker(m) ==
  Scan(m) \/ Build(m) \/ SendPiece(m) \/ SendFails(m) \/ Killed(m) \/ Unlock(m)

Next ==
  \/ \E m \in Modules : Worker(m) \/ Lock(m)
  \/ ServerReads \/ ServerGone \/ Tick \/ StepBack

Spec == Init /\ [][Next]_vars

(* Every thread is scheduled, the server keeps reading, and a thread that  *)
(* waits for the mutex is given it in the end.                             *)
FairSpec ==
  /\ Spec
  /\ \A m \in Modules : WF_vars(Worker(m)) /\ SF_vars(Lock(m))
  /\ WF_vars(ServerReads)

-----------------------------------------------------------------------------
(* The pieces of a packet lie on the wire one after the other, so a server *)
(* that cuts the stream every FIXED_SIZE bytes cuts between packets        *)
(* ("pthread_mutex ... the atomicity of data packets",                     *)
(* equipment_report.md:13).                                                *)
WireAtomic ==
  \A i \in 1 .. Len(wire) :
    /\ wire[i].part = 1 + ((i - 1) % Parts)
    /\ wire[i].part > 1 => wire[i].packet = wire[i - 1].packet

(* Every value sampled is in exactly one place: in a packet whose last     *)
(* piece is on the wire, or in the batch of a thread that has not sent it  *)
(* yet.  Rescheduling a sensor before its value is sent loses and repeats  *)
(* nothing while the connection is up.                                     *)
Reported ==
  UNION {wire[i].packet.sensors \X {wire[i].packet.timestamp} :
         i \in {j \in 1 .. Len(wire) : wire[j].part = Parts}}
Waiting(m) ==
  IF pc[m] \in {"lock", "build", "send"} THEN batch[m] \X {now[m]} ELSE {}
Pending == UNION {Waiting(m) : m \in Modules}
ReadingsConserved == up => sampled = Reported \cup Pending /\ Reported \cap Pending = {}

(* The wire, cut every Parts pieces as the server cuts it, is a stream of  *)
(* whole packets, numbered without gap, in order for every module and with *)
(* every sensor's period respected.                                        *)
PacketAt(k) ==
  IF \A i \in 1 .. Parts :
       wire[(k - 1) * Parts + i] = [packet |-> wire[k * Parts].packet, part |-> i]
  THEN wire[k * Parts].packet ELSE NoPacket
Packets == [k \in 1 .. Len(wire) \div Parts |-> PacketAt(k)]
Stream == INSTANCE PacketStream WITH stream <- Packets
StreamSpec == Stream!Spec

(* What a thread has sampled it sends in the end, unless the server closes *)
(* the connection: no thread waits for ever for the mutex or for room in   *)
(* the socket.                                                             *)
SampleSent == \A m \in Modules : Waiting(m) # {} ~> Waiting(m) = {} \/ ~up
=============================================================================
