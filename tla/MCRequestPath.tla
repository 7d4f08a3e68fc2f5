---------------------------- MODULE MCRequestPath ----------------------------
(* The instances of the three views, side by side. *)
EXTENDS RequestPath, MCConcurrencyController, MCModelExecution, MCResponseStream
===============================================================================
