---------------------------- MODULE MCDashEncode ----------------------------
(* DashEncode for TLC: a configuration cannot hold negative numbers. *)
EXTENDS DashEncode

(* Either stream starts up to two milliseconds early. *)
MCFirstTimes == -2..0
=============================================================================
