------------------------ MODULE MCMiddlewareCatalog ------------------------
(***************************************************************************)
(* Two rescans of three modules and four maps: two rescans can interleave  *)
(* module by module, one can start on the half-filled map of the other,    *)
(* and a third can start inside or after the grace period of the second.   *)
(***************************************************************************)
EXTENDS MiddlewareCatalog

MCFiles == <<"policy", "budget", "custom">>
MCExt   == <<"custom">>
MCBound == {"policy", "budget"}
=============================================================================
