---------------------------- MODULE MCHostHistory ----------------------------
(* Hours of two ticks, raw rows kept for an hour and a half.               *)
EXTENDS HostHistory
=============================================================================
