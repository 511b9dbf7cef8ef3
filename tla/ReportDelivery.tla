--------------------------- MODULE ReportDelivery ---------------------------
(***************************************************************************)
(* The way of an anomaly from handle_packet to the monitoring programs:    *)
(* has_anomaly of the sensor's state is set while packets are handled,     *)
(* taken into a report and cleared by build_periodic_json, and the report  *)
(* sent by monitor_send_all, piece by piece (MonitorServer).  SensorReport *)
(* says what is in a report; this module says who gets it.                 *)
(***************************************************************************)
EXTENDS MonitorServer

VARIABLES flagged,  \* has_anomaly of some state
          carries,  \* the report made last has an anomaly in it
          owed      \* clients connected since the anomaly, that have not got it

deliveryVars == <<flagged, carries, owed>>
allVars == <<monVars, deliveryVars>>

Connected == {table[i] : i \in Slots} \cap Clients

DeliveryInit == MonInit /\ flagged = FALSE /\ carries = FALSE /\ owed = {}

-----------------------------------------------------------------------------
(* handle_packet, between two calls of the monitoring side.                *)
HandleAnomaly ==
  /\ ~sending
  /\ flagged' = TRUE
  /\ owed' = owed \cup Connected
  /\ UNCHANGED <<monVars, carries>>

(* build_periodic_json clears the flags it has reported, and is called     *)
(* only for a report that is then sent.                                    *)
OnEveryCall == TRUE
Building == due
ReportOrNot ==
  /\ ~sending /\ MonitorPeriodicTask
  /\ IF Building THEN carries' = flagged /\ flagged' = FALSE ELSE UNCHANGED <<carries, flagged>>
  /\ UNCHANGED owed

(* A client has the report once it has its last piece, in frame.           *)
SendOne ==
  /\ SendPiece
  /\ owed' = IF carries /\ part = BodyParts /\ Fits(table[slot]) THEN owed \ {table[slot]} ELSE owed
  /\ UNCHANGED <<flagged, carries>>

Otherwise ==
  /\ MonEnvironment \/ SendNothing \/ (~sending /\ MonitorAcceptClients)
  /\ UNCHANGED deliveryVars

DeliveryNext == HandleAnomaly \/ ReportOrNot \/ SendOne \/ Otherwise

DeliverySpec == DeliveryInit /\ [][DeliveryNext]_allVars

-----------------------------------------------------------------------------
(* Where accepted sockets block, an anomaly reaches every client that was  *)
(* connected when it was handled: as soon as no flag is set and no report  *)
(* is under way, each has received the whole report that carried it, or is *)
(* gone.  No flag is cleared without being sent, and neither a slow client *)
(* nor the failure of another skips anyone (json_builder.c:95-111,         *)
(* monitor_server.c:112-170, 183-189).                                     *)
AnomalyDelivered == ~nonBlocking /\ ~flagged /\ ~sending => owed \subseteq gone
=============================================================================
