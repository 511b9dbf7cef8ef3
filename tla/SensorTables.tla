---------------------------- MODULE SensorTables ----------------------------
(***************************************************************************)
(* The sensors as the three programs know them: the rows of init_sensors   *)
(* and the values update_sensor_value makes (equipment), the normal ranges *)
(* of the class tables (equipment and server), the units of the disk log   *)
(* (server), and the layout of the dashboard (monitoring/app.js).  Nothing *)
(* in the code compares them, nor them with the buffers they must fit in.  *)
(*                                                                         *)
(* Values are in thousandths, which is also how they are printed.          *)
(***************************************************************************)
EXTENDS Integers, Sequences, FiniteSets

CONSTANTS MaxSensors,   \* MAX_SENSORS, entries of sensors[] and states[] (128)
          MaxSensor,    \* MAX_SENSOR, entries of the server's states[] (1024)
          FixedSize,    \* FIXED_SIZE of a packet (4096)
          JsonBufSize,  \* JSON_BUF_SIZE (32768)
          LogCapacity,  \* entries of g_temp_buffer (10000)
          DeltaParts    \* 1 / DELTA_RATIO, changes that cross a range (10000)

ASSUME TablesAssumption ==
  /\ MaxSensors \in Nat /\ MaxSensor \in Nat /\ FixedSize \in Nat
  /\ JsonBufSize \in Nat /\ LogCapacity \in Nat /\ DeltaParts \in Nat \ {0}

VARIABLES sensors,    \* sensors[0 .. count - 1]: sensor_id and period_ms
          followed,   \* position of the sensor whose values are followed, or 0
          value,      \* its states[i].value
          abnormal    \* did update_sensor_value make an abnormal value last

tableVars == <<sensors, followed, value, abnormal>>

(* enum Module and enum SensorType.                                        *)
Module == [bond_head |-> 0, stage |-> 1, heater |-> 2, vacuum |-> 3, motor_drive |-> 4,
           vision |-> 5, environment |-> 6, power |-> 7]
SensorType ==
  [temperature |-> 0, pressure |-> 1, force |-> 2, ultrasonic |-> 3, position |-> 4,
   current |-> 5, voltage |-> 6, speed |-> 7, vibration |-> 8, vacuum |-> 9, flow |-> 10,
   alignment |-> 11, defect |-> 12, humidity |-> 13, airflow |-> 14, consumption |-> 15]

(* MAKE_SENSOR_ID, GET_CLASS_ID, decode_sensor_id.                         *)
MakeSensorId(m, t, i) == (m % 16) * 4096 + (t % 16) * 256 + (i % 256)
GetClassId(id) == (id \div 256) % 256
Decoded(id) == <<(id \div 4096) % 16, (id \div 256) % 16, id % 256>>

(* The calls of add_sensor: module, type, how many, and their period.      *)
SensorRows ==
  LET m == Module  t == SensorType
  IN  << <<m.bond_head, t.temperature, 6, 100>>, <<m.bond_head, t.force, 6, 50>>,
         <<m.bond_head, t.ultrasonic, 4, 50>>, <<m.bond_head, t.vibration, 4, 200>>,
         <<m.stage, t.position, 14, 20>>, <<m.stage, t.current, 6, 50>>,
         <<m.stage, t.voltage, 4, 50>>, <<m.stage, t.speed, 4, 20>>,
         <<m.stage, t.vibration, 4, 200>>,
         <<m.heater, t.temperature, 8, 200>>, <<m.heater, t.consumption, 4, 50>>,
         <<m.vacuum, t.vacuum, 8, 100>>, <<m.vacuum, t.flow, 4, 200>>,
         <<m.motor_drive, t.current, 10, 50>>, <<m.motor_drive, t.voltage, 6, 50>>,
         <<m.motor_drive, t.speed, 6, 20>>, <<m.motor_drive, t.vibration, 4, 100>>,
         <<m.vision, t.alignment, 5, 100>>, <<m.vision, t.defect, 5, 200>>,
         <<m.environment, t.temperature, 5, 1000>>, <<m.environment, t.humidity, 2, 1000>>,
         <<m.environment, t.airflow, 3, 1000>>, <<m.power, t.consumption, 6, 500>> >>

(* sensor_classes: class id -> normal range, the same text in both         *)
(* programs.                                                               *)
Class(m, t, min, max) == <<m * 16 + t, min, max>>
EquipmentClasses ==
  LET m == Module  t == SensorType
  IN  {Class(m.bond_head, t.temperature, 60000, 150000), Class(m.bond_head, t.force, 200, 5000),
       Class(m.bond_head, t.ultrasonic, 500, 5000), Class(m.bond_head, t.vibration, 0, 300),
       Class(m.stage, t.position, 0, 300000), Class(m.stage, t.current, 200, 2500),
       Class(m.stage, t.voltage, 24000, 48000), Class(m.stage, t.speed, 0, 500000),
       Class(m.stage, t.vibration, 0, 200),
       Class(m.heater, t.temperature, 100000, 250000),
       Class(m.heater, t.consumption, 200000, 1000000),
       Class(m.vacuum, t.vacuum, -80000, -30000), Class(m.vacuum, t.flow, 5000, 50000),
       Class(m.motor_drive, t.current, 500, 5000), Class(m.motor_drive, t.voltage, 24000, 48000),
       Class(m.motor_drive, t.speed, 0, 3000000), Class(m.motor_drive, t.vibration, 0, 400),
       Class(m.vision, t.alignment, -5000, 5000), Class(m.vision, t.defect, 0, 1000),
       Class(m.environment, t.temperature, 20000, 25000),
       Class(m.environment, t.humidity, 30000, 50000),
       Class(m.environment, t.airflow, 300, 1000),
       Class(m.power, t.consumption, 2000000, 10000000)}

ServerClasses == EquipmentClasses

(* find_sensor_class; both tables have at most one entry per class.        *)
FindSensorClass(classes, id) == CHOOSE c \in classes : c[1] = GetClassId(id)
HasClass(classes, id) == \E c \in classes : c[1] = GetClassId(id)

(* SENSOR_LAYOUT of the dashboard: module, type, qty, tName.               *)
SensorLayout ==
  << <<0, 0, 6, "Temp">>, <<0, 2, 6, "Force">>, <<0, 3, 4, "US Pwr">>, <<0, 8, 4, "Vib">>,
     <<1, 4, 14, "Pos">>, <<1, 5, 6, "Curr">>, <<1, 6, 4, "Volt">>, <<1, 7, 4, "Speed">>,
     <<1, 8, 4, "Vib">>, <<2, 0, 8, "Temp">>, <<2, 15, 4, "Power">>,
     <<3, 9, 8, "Press">>, <<3, 10, 4, "Flow">>,
     <<4, 5, 10, "Curr">>, <<4, 6, 6, "Volt">>, <<4, 7, 6, "Speed">>, <<4, 8, 4, "Vib">>,
     <<5, 11, 5, "Align">>, <<5, 12, 5, "Defect">>,
     <<6, 0, 5, "Temp">>, <<6, 13, 2, "Hum">>, <<6, 14, 3, "Air">>,
     <<7, 15, 6, "Power">> >>

(* The number of units in the rows before row k.                           *)
Before(rows) ==
  LET sum[k \in 1 .. Len(rows) + 1] ==
        IF k = 1 THEN 0 ELSE sum[k - 1] + rows[k - 1][3]
  IN  sum

(* buildMappingTables: the tiles of the sensor a report calls m, t, i, as  *)
(* rows of the layout, and the unit renderDetailPanel shows for a row.     *)
LayoutRows(unit) ==
  {k \in 1 .. Len(SensorLayout) :
     /\ SensorLayout[k][1] = unit[1] /\ SensorLayout[k][2] = unit[2]
     /\ unit[3] < SensorLayout[k][3]}
TilesOf(unit) == {Before(SensorLayout)[k] + unit[3] : k \in LayoutRows(unit)}
TileCount == Before(SensorLayout)[Len(SensorLayout) + 1]
ShowsUnit(k) == SensorLayout[k][4] \in {"Temp", "Volt"}
UnitText(k) ==
  CASE SensorLayout[k][4] = "Temp" -> "degC"
    [] SensorLayout[k][4] = "Volt" -> "V"
    [] OTHER -> ""

(* get_unit_by_id of the disk log: module, type, unit; any other is "".    *)
LogUnits ==
  {<<0, 0, "degC">>, <<0, 2, "N">>, <<0, 3, "W">>, <<0, 8, "g">>,
   <<1, 4, "mm">>, <<1, 5, "A">>, <<1, 6, "V">>, <<1, 7, "mm/s">>, <<1, 8, "g">>,
   <<2, 0, "degC">>, <<2, 15, "W">>, <<3, 9, "kPa">>, <<3, 10, "L/min">>,
   <<4, 5, "A">>, <<4, 6, "V">>, <<4, 7, "rpm">>, <<4, 8, "g">>,
   <<5, 11, "um">>, <<5, 12, "-">>, <<6, 0, "degC">>, <<6, 13, "%RH">>, <<6, 14, "m/s">>,
   <<7, 15, "kW">>}
UnitsById(unit) == {u[3] : u \in {x \in LogUnits : x[1] = unit[1] /\ x[2] = unit[2]}}

-----------------------------------------------------------------------------

TablesInit == sensors = << >> /\ followed = 0 /\ value = 0 /\ abnormal = FALSE

(* The next call of add_sensor in init_sensors.                            *)
Total == Before(SensorRows)[Len(SensorRows) + 1]
UnitFromOne(n, k) == n - Before(SensorRows)[k] + 1
Unit(n, k) == n - Before(SensorRows)[k]

AddSensor ==
  /\ Len(sensors) < Total
  /\ \E k \in 1 .. Len(SensorRows) :
       /\ Len(sensors) \in Before(SensorRows)[k] .. Before(SensorRows)[k + 1] - 1
       /\ sensors' = Append(sensors,
            [sensor_id |-> MakeSensorId(SensorRows[k][1], SensorRows[k][2], Unit(Len(sensors), k)),
             period_ms |-> SensorRows[k][4]])
  /\ UNCHANGED <<followed, value, abnormal>>

(* init_sensor_states: a value in the normal range, at one of its parts.   *)
NormalRange(id) == FindSensorClass(EquipmentClasses, id)
Width(c) == c[3] - c[2]
InitSensorState ==
  /\ Len(sensors) = Total /\ followed = 0
  /\ \E i \in 1 .. Total :
       /\ followed' = i
       /\ IF HasClass(EquipmentClasses, sensors[i].sensor_id)
          THEN LET c == NormalRange(sensors[i].sensor_id)
               IN  \E p \in 0 .. DeltaParts : value' = c[2] + (Width(c) * p) \div DeltaParts
          ELSE value' = 0
  /\ UNCHANGED <<sensors, abnormal>>

(* update_sensor_value: a rare value well outside the range, or a small    *)
(* change of the last value, also of an abnormal one, clamped to the range.*)
NotClamped(v, min, max) == v
Clamp(v, min, max) == IF v < min THEN min ELSE IF v > max THEN max ELSE v

AbnormalValue(c) ==
  \E half \in {1, 2, 4} :
     value' \in {c[3] + (Width(c) * half) \div 2, c[2] - (Width(c) * half) \div 2}
SmallChange(c) ==
  \E change \in {-1, 0, 1} :
     value' = Clamp(value + change * (Width(c) \div DeltaParts), c[2], c[3])

UpdateSensorValue ==
  /\ followed > 0 /\ HasClass(EquipmentClasses, sensors[followed].sensor_id)
  /\ \/ abnormal' = TRUE /\ AbnormalValue(NormalRange(sensors[followed].sensor_id))
     \/ abnormal' = FALSE /\ SmallChange(NormalRange(sensors[followed].sensor_id))
  /\ UNCHANGED <<sensors, followed>>

TablesNext == AddSensor \/ InitSensorState \/ UpdateSensorValue

TablesSpec == TablesInit /\ [][TablesNext]_tableVars

-----------------------------------------------------------------------------
(* The server's detect_anomaly on the value followed.                      *)
Detected ==
  LET id == sensors[followed].sensor_id
  IN  /\ HasClass(ServerClasses, id)
      /\ LET c == FindSensorClass(ServerClasses, id) IN value < c[2] \/ value > c[3]

(* The server flags a reading exactly when the equipment made it abnormal: *)
(* the class tables of the two programs agree, every sensor has its class, *)
(* and an abnormal value is back in range with the next reading            *)
(* (data_generator.c:89-116, anomaly_detection.c:3-16).                    *)
AnomalyIffAbnormal == followed > 0 => (Detected <=> abnormal)

(* Every sensor the equipment adds has one tile of the page, which no      *)
(* sensor added before it has; when all are added no tile of the page is   *)
(* left without a sensor, so that none stays dark and none shows two; and  *)
(* the disk log has one unit for the sensor, which is the page's where the *)
(* page shows one, for Temp and Volt alone (init_sensors against           *)
(* SENSOR_LAYOUT and buildMappingTables, app.js:18-90, 298, and            *)
(* get_unit_by_id, file_logger.c:24-60).  Whether a unit is the right one  *)
(* for the value beside it is not said here.                               *)
KnownEverywhere ==
  sensors # << >> /\ followed = 0 =>
    LET tilesOf(i) == TilesOf(Decoded(sensors[i].sensor_id))
        last == Len(sensors)
        unit == Decoded(sensors[last].sensor_id)
    IN  /\ \E p \in 0 .. TileCount - 1 :
             tilesOf(last) = {p} /\ \A i \in 1 .. last - 1 : tilesOf(i) # {p}
        /\ last = Total =>
             \A p \in 0 .. TileCount - 1 : \E i \in 1 .. last : tilesOf(i) = {p}
        /\ \E u \in {x[3] : x \in LogUnits} :
             /\ UnitsById(unit) = {u}
             /\ \A k \in LayoutRows(unit) : ShowsUnit(k) => UnitText(k) = u

-----------------------------------------------------------------------------
(* What the sensors make of the fixed buffers of the programs.             *)

(* build_secs_body behind the HSMS header: 14 and 18 bytes, then a list of *)
(* two items per reading, when all sensors fall due in one cycle.          *)
PacketBytes == 14 + 18 + 12 * Len(sensors)

(* snprintf of "%.3f": sign, digits, point and three more.                 *)
Tens == <<1, 10, 100, 1000, 10000, 100000, 1000000, 10000000>>
Digits(n) == CHOOSE d \in 1 .. 7 : n < Tens[d + 1] /\ (d > 1 => n >= Tens[d])
PrintedLength(v) ==
  IF v < 0 THEN 5 + Digits((-v) \div 1000) ELSE 4 + Digits(v \div 1000)

(* The longest entry build_periodic_json prints: an anomalous sensor, its  *)
(* id, m, t, i in full width, its average and value as long as any value   *)
(* update_sensor_value makes; header, footer and the final NUL.            *)
NumberLengths ==
  UNION {{PrintedLength(c[3] + 2 * Width(c)), PrintedLength(c[2] - 2 * Width(c))} :
           c \in EquipmentClasses}
LongestNumber == CHOOSE n \in NumberLengths : \A l \in NumberLengths : l <= n
EntryLength == 51 + 5 + 1 + 2 + 3 + 2 * LongestNumber
EveryState == MaxSensor
StateCount == Len(sensors)
ReportLength == 58 + StateCount * EntryLength + 3

(* A thread begins at most one cycle in the millisecond of its usleep, and *)
(* sends when at least one of its sensors has come due.                    *)
DuePerSecond(m) ==
  LET sum[i \in 0 .. Len(sensors)] ==
        IF i = 0 THEN 0
        ELSE sum[i - 1] + (IF Decoded(sensors[i].sensor_id)[1] = m
                           THEN 1000 \div sensors[i].period_ms ELSE 0)
  IN  IF sum[Len(sensors)] < 1000 THEN sum[Len(sensors)] ELSE 1000
PacketsPerSecond ==
  LET sum[m \in -1 .. 7] == IF m = -1 THEN 0 ELSE sum[m - 1] + DuePerSecond(m) IN sum[7]

(* Nothing the equipment's sensors produce outgrows a buffer whose size    *)
(* the code never compares with it: the arrays and the packet of the       *)
(* equipment (packet.c:60-76), the report, where the length snprintf       *)
(* returns is added unchecked (json_builder.c:96-117), and the packets of  *)
(* one flush interval in the log buffer, where more would be dropped       *)
(* without a word (file_logger.c:161).                                     *)
BuffersFit ==
  followed = 0 =>
    /\ Len(sensors) <= MaxSensors
    /\ PacketBytes <= FixedSize
    /\ ReportLength <= JsonBufSize
    /\ PacketsPerSecond <= LogCapacity
=============================================================================
