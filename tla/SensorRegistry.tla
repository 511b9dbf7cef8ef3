--------------------------- MODULE SensorRegistry ---------------------------
(***************************************************************************)
(* The server's table of sensor states: get_sensor_state finds or creates  *)
(* an entry, update_moving_average keeps a ring of the last readings and   *)
(* their running sum, detect_anomaly compares with the sensor's class, and *)
(* build_periodic_json reports every entry and clears its flag             *)
(* (server/sensor_dispatcher, server/monitor_server/json_builder).         *)
(*                                                                         *)
(* Values are integers, so the running sum is exact; the average is kept   *)
(* as sum and count.                                                       *)
(***************************************************************************)
EXTENDS Integers, Sequences, FiniteSets

CONSTANTS SensorIds,    \* the sensors the equipment has
          Values,       \* readings, integers
          WindowSize,   \* WINDOW_SIZE
          MaxSensor,    \* MAX_SENSOR, entries of states[]
          ClassOf,      \* sensor -> [normal_min, normal_max], or NoClass
          NoClass,      \* find_sensor_class returned NULL
          NoValue       \* the entry is reported without an anomaly

ASSUME RegistryAssumption ==
  /\ WindowSize \in Nat \ {0} /\ MaxSensor \in Nat
  /\ IsFiniteSet(SensorIds) /\ Cardinality(SensorIds) <= MaxSensor
  /\ Values \subseteq Int /\ NoValue \notin Values

VARIABLES states,   \* states[0 .. state_count - 1]
          report    \* what the last build_periodic_json showed

vars == <<states, report>>

Positions == 0 .. WindowSize - 1
State == [sensor_id : SensorIds, window : [Positions -> Int], index : Positions,
          count : 0 .. WindowSize, sum : Int, has_anomaly : BOOLEAN, anomaly_value : Int]

TypeOK ==
  /\ states \in Seq(State)
  /\ Len(report) <= Len(states)

Init == states = << >> /\ report = << >>

-----------------------------------------------------------------------------
Indices == 1 .. Len(states)
IsOf(s, i) == states[i].sensor_id = s

(* get_sensor_state: the first entry with the id, else a new, zeroed one   *)
(* at states[state_count++], with no check against MAX_SENSOR.             *)
LastOnly(s) == IF Len(states) > 0 /\ IsOf(s, Len(states)) THEN {Len(states)} ELSE {}
EntriesOf(s) == {i \in Indices : IsOf(s, i)}
Fresh(s) == [sensor_id |-> s, window |-> [p \in Positions |-> 0], index |-> 0, count |-> 0,
             sum |-> 0, has_anomaly |-> FALSE, anomaly_value |-> 0]
Registered(s) == IF EntriesOf(s) = {} THEN Append(states, Fresh(s)) ELSE states
Position(s) ==
  IF EntriesOf(s) = {} THEN Len(states) + 1
  ELSE CHOOSE i \in EntriesOf(s) : \A j \in EntriesOf(s) : i <= j

(* update_moving_average.                                                  *)
NoSubtract(e, v) == e.sum + v
NewSum(e, v) ==
  IF e.count < WindowSize THEN e.sum + v ELSE e.sum - e.window[e.index] + v
NextIndex(i) == (i + 1) % WindowSize

Averaged(e, v) ==
  [e EXCEPT !.sum = NewSum(e, v),
            !.window[e.index] = v,
            !.count = IF @ < WindowSize THEN @ + 1 ELSE @,
            !.index = NextIndex(@)]

(* detect_anomaly: outside [normal_min, normal_max]; never for a sensor    *)
(* without class.                                                          *)
DetectAnomaly(s, v) ==
  /\ ClassOf[s] # NoClass
  /\ v < ClassOf[s].normal_min \/ v > ClassOf[s].normal_max

Flagged(e, s, v) ==
  IF DetectAnomaly(s, v) THEN [e EXCEPT !.has_anomaly = TRUE, !.anomaly_value = v] ELSE e

(* One iteration of the loop of handle_packet over the sensors of a packet.*)
Reading(s, v) ==
  /\ states' = [Registered(s) EXCEPT ![Position(s)] = Flagged(Averaged(@, v), s, v)]
  /\ UNCHANGED report

(* build_periodic_json.                                                    *)
ClearFlag(e) == [e EXCEPT !.has_anomaly = FALSE]

BuildPeriodicJson ==
  /\ report' = [i \in Indices |->
       [sensor |-> states[i].sensor_id, sum |-> states[i].sum, count |-> states[i].count,
        value |-> IF states[i].has_anomaly THEN states[i].anomaly_value ELSE NoValue]]
  /\ states' = [i \in Indices |-> ClearFlag(states[i])]

Next == (\E s \in SensorIds, v \in Values : Reading(s, v)) \/ BuildPeriodicJson

Spec == Init /\ [][Next]_vars

-----------------------------------------------------------------------------
(* No sensor has two entries, so its average is never split over two and   *)
(* the table does not outgrow states[], whose end get_sensor_state does    *)
(* not check (sensor_state.c:15).                                          *)
OneEntryPerSensor ==
  /\ \A i, j \in Indices : IsOf(states[j].sensor_id, i) => i = j
  /\ Len(states) <= MaxSensor

(* The registry implements the report the monitoring programs rely on.     *)
Ordered(e) ==
  IF e.count < WindowSize
  THEN [k \in 1 .. e.count |-> e.window[k - 1]]
  ELSE [k \in 1 .. WindowSize |-> e.window[(e.index + k - 1) % WindowSize]]

Known == [i \in Indices |-> states[i].sensor_id]
Recent ==
  [s \in SensorIds |-> IF EntriesOf(s) = {} THEN << >> ELSE Ordered(states[Position(s)])]
Abnormal ==
  [s \in SensorIds |->
    IF \E i \in EntriesOf(s) : states[i].has_anomaly
    THEN states[Position(s)].anomaly_value ELSE NoValue]
Abstract == INSTANCE SensorReport
  WITH Normal <- [s \in SensorIds |-> {v \in Values : ~DetectAnomaly(s, v)}],
       known <- Known, recent <- Recent, abnormal <- Abnormal
ReportSpec == Abstract!Spec
=============================================================================
