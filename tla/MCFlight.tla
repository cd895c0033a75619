------------------------------ MODULE MCFlight ------------------------------
(***************************************************************************)
(* One session and a thread for each of two concurrent calls, one of which *)
(* may be a call its client has given up: with one table for the server's  *)
(* safety and the liveness of the sweeper, with two for its promise.       *)
(***************************************************************************)
EXTENDS Flight

CONSTANTS t1, h1, h2, x1, x2
=============================================================================
