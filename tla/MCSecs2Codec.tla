---------------------------- MODULE MCSecs2Codec ----------------------------
(* Bytes of four values, so that the lengths 4 and 8 take two length bytes. *)
EXTENDS Secs2Codec

MCTimestamps == {0, 7, Power[8] - 1}
=============================================================================
