--------------------------- MODULE MCMonitorServer ---------------------------
(* Three clients for two entries of the table.                             *)
EXTENDS ReportDelivery, TLC

CONSTANTS c1, c2, c3

ClientSymmetry == Permutations(Clients)
=============================================================================
