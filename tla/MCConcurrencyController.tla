---------------------- MODULE MCConcurrencyController ----------------------
(***************************************************************************)
(* Four competing requests whose snapshots disagree about the limit: with  *)
(* limits 1 to 3 the queue grows to three entries, the limit is lowered    *)
(* under three holders, and one resize can serve two waiters at once.      *)
(***************************************************************************)
EXTENDS ConcurrencyController

MCLimits == 1 .. 3
=============================================================================
