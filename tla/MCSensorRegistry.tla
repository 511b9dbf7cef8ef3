-------------------------- MODULE MCSensorRegistry --------------------------
(* One sensor with a class and one without; one normal reading of the      *)
(* first and two that are not.                                             *)
EXTENDS SensorRegistry, TLC

CONSTANTS temp, odd

MCValues == {2, 8, 9}
MCClassOf == temp :> [normal_min |-> 1, normal_max |-> 2] @@ odd :> NoClass
=============================================================================
