----------------------------- MODULE Secs2Codec -----------------------------
(***************************************************************************)
(* The packet format on both sides of the wire: the equipment builds a     *)
(* SECS-II body and an HSMS header (equipment/protocol, equipment/packet), *)
(* the server parses them back (server/decoder).                           *)
(*                                                                         *)
(* A data byte is a number below Base, so that multi-byte lengths occur    *)
(* with small numbers; a format byte keeps its eight bits.  A float is the *)
(* number its four bytes make.                                             *)
(***************************************************************************)
EXTENDS Integers, Sequences

CONSTANTS Base,         \* 256, the values of a byte
          FixedSize,    \* FIXED_SIZE, bytes of a packet (4096)
          MaxSensors,   \* MAX_SENSORS, readings of a packet (128)
          SysWrap,      \* 2^32, the range of g_sys
          Timestamps,   \* timestamps of a packet
          Ids, Floats   \* sensor ids and values in it

VARIABLES msg,      \* what send_sensor_packet is called with
          sys,      \* g_sys
          packet,   \* the packet: offset -> byte
          written,  \* body as far as it is built
          offset,   \* the parser's read position in the packet
          pkt,      \* the PacketData parsed so far
          pending,  \* sensor_count of parse_secs_body
          header,   \* the HSMSHeader parsed
          pc        \* "build", "send", "head", "sensors" or "parsed"

vars == <<msg, sys, packet, written, offset, pkt, pending, header, pc>>

Reading == Ids \X Floats
HeaderSize == 14
Bytes == 0 .. FixedSize - 1

-----------------------------------------------------------------------------
(* secs2.h: format codes.  Their two low bits are 01, for one length byte. *)
SECS_L  == 1     \* 0x01
SECS_U2 == 169   \* 0xA9
SECS_U8 == 161   \* 0xA1
SECS_F4 == 145   \* 0x91

(* secs2.c: the big-endian digits of a number, and an item's header.       *)
Power[k \in 0 .. 8] == IF k = 0 THEN 1 ELSE Base * Power[k - 1]
BigEndian(n, size) == [i \in 1 .. size |-> (n \div Power[size - i]) % Base]

LengthBytes(len) == IF len < Base THEN 1 ELSE IF len < Power[2] THEN 2 ELSE 3
ItemHeader(type, len) ==
  <<type + LengthBytes(len) - 1>> \o BigEndian(len, LengthBytes(len))
Item(type, value, size) == ItemHeader(type, size) \o BigEndian(value, size)

(* build_secs_body: before the loop over the readings, and in it.          *)
BodyHead(m) ==
  ItemHeader(SECS_L, 3) \o Item(SECS_U8, m.timestamp, 8)
    \o Item(SECS_U2, Len(m.sensors), 2) \o ItemHeader(SECS_L, Len(m.sensors))
SensorItem(reading) ==
  ItemHeader(SECS_L, 2) \o Item(SECS_U2, reading[1], 2) \o Item(SECS_F4, reading[2], 4)

(* build_hsms_header: session 0, S6F1, P-type and S-type 0.                *)
Header(bodyLen) ==
  BigEndian(bodyLen, 4) \o BigEndian(0, 2) \o <<6, 1, 0, 0>> \o BigEndian(sys, 4)

(* A full body leaves room in a packet: 14 + 18 + 12 * 128 <= 4096.        *)
ItemSize == Len(SensorItem(<<0, 0>>))
BodySize(n) ==
  Len(BodyHead([timestamp |-> 0, sensors |-> [i \in 1 .. n |-> <<0, 0>>]])) + n * ItemSize
ASSUME CodecAssumption ==
  /\ Base \in Nat /\ Base > 2 /\ MaxSensors \in Nat \ {0} /\ FixedSize \in Nat
  /\ HeaderSize + BodySize(MaxSensors) <= FixedSize
  /\ MaxSensors < Power[2] /\ SysWrap \in 2 .. Power[4]
  /\ Timestamps \subseteq 0 .. Power[8] - 1
  /\ Ids \subseteq 0 .. Power[2] - 1 /\ Floats \subseteq 0 .. Power[4] - 1

Messages(n) == [timestamp : Timestamps, sensors : [1 .. n -> Reading]]
Message == UNION {Messages(n) : n \in 1 .. MaxSensors}
NoData == [timestamp |-> 0, sensors |-> << >>]
NoHeader == [length |-> 0, stream |-> 0, function |-> 0, system_bytes |-> 0]
Padding == [i \in Bytes |-> 0]

Init ==
  /\ msg \in Message
  /\ sys = 1
  /\ packet = Padding /\ written = BodyHead(msg)
  /\ offset = 0 /\ pkt = NoData /\ pending = 0 /\ header = NoHeader
  /\ pc = "build"

-----------------------------------------------------------------------------
(* The equipment: the next packet, sensor by sensor, and its header.       *)
Encoded == (Len(written) - Len(BodyHead(msg))) \div ItemSize

AddSensor ==
  /\ pc = "build" /\ Encoded < Len(msg.sensors)
  /\ written' = written \o SensorItem(msg.sensors[Encoded + 1])
  /\ UNCHANGED <<msg, sys, packet, offset, pkt, pending, header, pc>>

LengthField == Len(written)

SendSensorPacket ==
  /\ pc = "build" /\ Encoded = Len(msg.sensors)
  /\ LET used == Header(LengthField) \o written
     IN  packet' = [i \in Bytes |-> IF i < Len(used) THEN used[i + 1] ELSE Padding[i]]
  /\ sys' = (sys + 1) % SysWrap
  /\ pc' = "send"
  /\ UNCHANGED <<msg, written, offset, pkt, pending, header>>

-----------------------------------------------------------------------------
(* The server: reading big-endian numbers and items at an offset.          *)
Number(at, size) ==
  LET digits[i \in 0 .. size] ==
        IF i = 0 THEN 0 ELSE digits[i - 1] * Base + packet[at + i - 1]
  IN  digits[size]

OneLengthByte(format) == 1
GET_LEN_BYTES(format) == format % 4

(* parse_u2_item, parse_u8_item, parse_f4_item: an unexpected length gives *)
(* -1, which the caller adds to its offset, and leaves the value alone.    *)
ParsedItem(at, size, old) ==
  LET lb == GET_LEN_BYTES(packet[at])
  IN  IF Number(at + 1, lb) = size
      THEN [value |-> Number(at + 1 + lb, size), size |-> 1 + lb + size]
      ELSE [value |-> old, size |-> -1]
ListHeaderSize(at) == 1 + GET_LEN_BYTES(packet[at])

(* handle_packet clears the PacketData; decode_packet parses the header.   *)
HandlePacket ==
  /\ pc = "send"
  /\ header' = [length |-> Number(0, 4), stream |-> packet[6],
                function |-> packet[7], system_bytes |-> Number(10, 4)]
  /\ pkt' = NoData
  /\ offset' = HeaderSize
  /\ pc' = "head"
  /\ UNCHANGED <<msg, sys, packet, written, pending>>

(* parse_secs_body up to its loop.                                         *)
ParseHead ==
  LET list  == ListHeaderSize(offset)
      time  == ParsedItem(offset + list, 8, pkt.timestamp)
      count == ParsedItem(offset + list + time.size, 2, pending)
      end   == offset + list + time.size + count.size
  IN  /\ pc = "head"
      /\ pkt' = [timestamp |-> time.value, sensors |-> << >>]
      /\ pending' = count.value
      /\ offset' = end + ListHeaderSize(end)
      /\ pc' = "sensors"
      /\ UNCHANGED <<msg, sys, packet, written, header>>

MoreSensors == Len(pkt.sensors) < pending /\ Len(pkt.sensors) < MaxSensors

(* One iteration of the loop: parse_sensor_item.                           *)
ParseSensor ==
  LET list  == ListHeaderSize(offset)
      id    == ParsedItem(offset + list, 2, 0)
      value == ParsedItem(offset + list + id.size, 4, 0)
  IN  /\ pc = "sensors" /\ MoreSensors
      /\ pkt' = [pkt EXCEPT !.sensors = Append(@, <<id.value, value.value>>)]
      /\ offset' = offset + list + id.size + value.size
      /\ UNCHANGED <<msg, sys, packet, written, pending, header, pc>>

ParseDone ==
  /\ pc = "sensors" /\ ~MoreSensors
  /\ pc' = "parsed"
  /\ UNCHANGED <<msg, sys, packet, written, offset, pkt, pending, header>>

(* The next call of send_sensor_packet, with zeroed buffers.               *)
NextMessage ==
  /\ pc = "parsed"
  /\ msg' \in Message
  /\ packet' = Padding /\ written' = BodyHead(msg')
  /\ offset' = 0 /\ pkt' = NoData /\ pending' = 0 /\ header' = NoHeader
  /\ pc' = "build"
  /\ UNCHANGED sys

Next ==
  \/ AddSensor \/ SendSensorPacket
  \/ HandlePacket \/ ParseHead \/ ParseSensor \/ ParseDone \/ NextMessage

Spec == Init /\ [][Next]_vars

-----------------------------------------------------------------------------
(* What the server decodes is what the equipment sent: timestamp, number   *)
(* of readings, every id and value, and the system bytes, for every length *)
(* of the length fields (secs2.c:4-42 against secs2_parser.c:57-206).      *)
DecodedIsSent ==
  pc = "parsed" =>
    /\ pkt = msg
    /\ (header.system_bytes + 1) % SysWrap = sys
    /\ header.stream = 6 /\ header.function = 1

=============================================================================
