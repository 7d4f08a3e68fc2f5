-------------------------- MODULE MCGatewayRuntime --------------------------
(* The instances of the three registries, side by side. *)
EXTENDS GatewayRuntime, MCMiddlewareCatalog, MCRuntimeSnapshot
=============================================================================
