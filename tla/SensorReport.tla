---------------------------- MODULE SensorReport ----------------------------
(***************************************************************************)
(* What the monitoring programs are promised about the sensors (README.md, *)
(* "Monitoring Outbound"): a report lists every sensor heard of so far, in *)
(* order of appearance, with the average of its last WindowSize readings,  *)
(* and marks it anomalous, with the offending value, exactly when it was   *)
(* outside its normal range since the report before.                       *)
(***************************************************************************)
EXTENDS Integers, Sequences

CONSTANTS SensorIds, Values, WindowSize,
          Normal,   \* sensor -> values in its normal range
          NoValue

VARIABLES known,     \* sensors in order of first appearance
          recent,    \* sensor -> its last WindowSize readings, oldest first
          abnormal,  \* sensor -> last abnormal value since the last report
          report     \* the last report

vars == <<known, recent, abnormal, report>>

Init ==
  /\ known = << >>
  /\ recent = [s \in SensorIds |-> << >>]
  /\ abnormal = [s \in SensorIds |-> NoValue]
  /\ report = << >>

LastReadings(q) == IF Len(q) > WindowSize THEN Tail(q) ELSE q

Reading(s, v) ==
  /\ known' = IF \E i \in 1 .. Len(known) : known[i] = s THEN known ELSE Append(known, s)
  /\ recent' = [recent EXCEPT ![s] = LastReadings(Append(recent[s], v))]
  /\ abnormal' = [abnormal EXCEPT ![s] = IF v \in Normal[s] THEN @ ELSE v]
  /\ UNCHANGED report

Sum(q) ==
  LET upTo[i \in 0 .. Len(q)] == IF i = 0 THEN 0 ELSE upTo[i - 1] + q[i]
  IN  upTo[Len(q)]

Report ==
  /\ report' = [i \in 1 .. Len(known) |->
       LET s == known[i]
       IN  [sensor |-> s, sum |-> Sum(recent[s]), count |-> Len(recent[s]),
            value |-> abnormal[s]]]
  /\ abnormal' = [s \in SensorIds |-> NoValue]
  /\ UNCHANGED <<known, recent>>

Next == (\E s \in SensorIds, v \in Values : Reading(s, v)) \/ Report

Spec == Init /\ [][Next]_vars
=============================================================================
