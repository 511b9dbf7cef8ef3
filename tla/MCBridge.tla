------------------------------ MODULE MCBridge ------------------------------
(* Two reports of different sizes on each of two connections.              *)
EXTENDS Bridge

MCBodySize == <<2, 1>>
=============================================================================
