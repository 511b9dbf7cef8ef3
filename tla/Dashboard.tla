------------------------------ MODULE Dashboard ------------------------------
(***************************************************************************)
(* The page in the browser (monitoring/app.js): the store of the sensors,  *)
(* the tiles, the detail panel of the sensor the user selected and the     *)
(* anomaly log, as reports arrive and the user clicks.                     *)
(*                                                                         *)
(* One JavaScript thread runs each callback to its end; a report is        *)
(* handled sensor by sensor.                                               *)
(***************************************************************************)
EXTENDS Integers, Sequences

CONSTANTS Tiles,        \* the sensors of the layout, by tile
          Unknown,      \* units of a report that are not in the layout
          Averages,     \* values of avg
          MaxHistory,   \* CONFIG.MAX_HISTORY (50)
          MaxLog,       \* the limit in addAnomalyLog (100)
          NoTile,       \* activeIdx is null, no such element
          MaxMessages   \* bound: reports received

ASSUME DashboardAssumption ==
  /\ MaxHistory \in Nat \ {0} /\ MaxLog \in Nat /\ MaxMessages \in Nat
  /\ NoTile \notin Tiles /\ Unknown \cap Tiles = {}

VARIABLES store,     \* store.sensors: tile -> history and anomaly
          tile,      \* what each tile shows
          active,    \* store.activeIdx
          panel,     \* what the detail panel shows
          log,       \* children of logContainer, the first child first
          todo,      \* readings of the report in progress
          reports,   \* reports received
          anomalies  \* <<report, tile>> of every anomaly received

pageVars == <<store, tile, active, panel, log, todo, reports, anomalies>>

Known == {t \in Tiles : store[t].history # << >>}

(* main: the tables are built, the grid is empty, nothing is selected.     *)
PageInit ==
  /\ store = [t \in Tiles |-> [history |-> << >>, anomaly |-> FALSE]]
  /\ tile = [t \in Tiles |-> NoTile]
  /\ active = NoTile /\ panel = NoTile
  /\ log = << >> /\ todo = << >> /\ reports = 0
  /\ anomalies = << >>

-----------------------------------------------------------------------------
(* A report: readings of distinct sensors, in the order the server lists   *)
(* them.                                                                   *)
Reading == [unit : Tiles \cup Unknown, avg : Averages, anomaly : BOOLEAN]
Report ==
  UNION {{r \in [1 .. n -> Reading] :
            \A i, j \in 1 .. n : r[i].unit = r[j].unit => i = j} : n \in 0 .. 2}

(* renderDetailPanel: nothing for a sensor without history.                *)
Last(s) == s[Len(s)]
Rendered(st) ==
  IF active # NoTile /\ st[active].history # << >>
  THEN [avg |-> Last(st[active].history), anomaly |-> st[active].anomaly]
  ELSE panel

(* A step of processIncomingData that leaves rest to do; with nothing left *)
(* it renders the panel of the selected sensor.                            *)
NoRefresh(st, rest) == panel' = panel /\ todo' = rest
Proceed(st, rest) ==
  /\ todo' = rest
  /\ panel' = IF rest = << >> THEN Rendered(st) ELSE panel

OnMessage ==
  /\ todo = << >> /\ reports < MaxMessages
  /\ \E r \in Report : Proceed(store, r)
  /\ reports' = reports + 1
  /\ UNCHANGED <<store, tile, active, log, anomalies>>

(* A unit that is not in idToIndexMap is passed over.                      *)
SkipUnknown ==
  /\ todo # << >> /\ todo[1].unit \in Unknown
  /\ Proceed(store, Tail(todo))
  /\ UNCHANGED <<store, tile, active, log, reports, anomalies>>

(* syncInternalStore, with addAnomalyLog, and updateTileVisual.            *)
Shifted(s) == IF Len(s) > MaxHistory THEN Tail(s) ELSE s

Synced(t, r) ==
  [store EXCEPT ![t] = [history |-> Shifted(Append(@.history, r.avg)),
                        anomaly |-> r.anomaly]]

DropFirst == IF Len(log) > MaxLog THEN Tail(log) ELSE log
Trimmed == IF Len(log) > MaxLog THEN SubSeq(log, 1, Len(log) - 1) ELSE log

Visual(t, r) == [tile EXCEPT ![t] = [avg |-> r.avg, anomaly |-> r.anomaly]]

SensorData ==
  /\ todo # << >> /\ todo[1].unit \in Tiles
  /\ LET r == todo[1]  t == r.unit  entry == <<reports, t>>
     IN  /\ store' = Synced(t, r)
         /\ tile' = Visual(t, r)
         /\ log' = IF r.anomaly THEN <<entry>> \o Trimmed ELSE log
         /\ anomalies' = IF r.anomaly THEN Append(anomalies, entry) ELSE anomalies
         /\ Proceed(store', Tail(todo))
  /\ UNCHANGED <<active, reports>>

(* handleSensorSelect: a click on a tile the store has no data for does    *)
(* nothing.                                                                *)
HandleSensorSelect(t) ==
  /\ todo = << >> /\ store[t].history # << >>
  /\ active' = t
  /\ panel' = [avg |-> Last(store[t].history), anomaly |-> store[t].anomaly]
  /\ UNCHANGED <<store, tile, log, todo, reports, anomalies>>

PageNext ==
  \/ OnMessage \/ SkipUnknown \/ SensorData
  \/ \E t \in Tiles : HandleSensorSelect(t)

PageSpec == PageInit /\ [][PageNext]_pageVars

-----------------------------------------------------------------------------
(* Between two callbacks the three views of a sensor agree: its tile and,  *)
(* if it is selected, the panel show the average and the anomaly of the    *)
(* last report that had it, which is what the store holds.                 *)
ViewsAgree ==
  todo = << >> =>
    /\ \A t \in Known :
         tile[t] = [avg |-> Last(store[t].history), anomaly |-> store[t].anomaly]
    /\ active # NoTile => panel = tile[active]

(* The log is the newest anomalies, the newest first, and grows to one     *)
(* more than the limit and no further: no anomaly is dropped below that,   *)
(* none while an older one is kept (app.js, addAnomalyLog, which looks at  *)
(* the limit before it adds).                                              *)
LogIsNewest ==
  /\ Len(log) = IF Len(anomalies) > MaxLog THEN MaxLog + 1 ELSE Len(anomalies)
  /\ \A i \in 1 .. Len(log) : log[i] = anomalies[Len(anomalies) - i + 1]
=============================================================================
