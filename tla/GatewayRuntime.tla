--------------------------- MODULE GatewayRuntime ---------------------------
(***************************************************************************)
(* The three registries soul-gateway replaces under its running requests:  *)
(* backend modules, middlewares and the snapshot of the tables.  A request *)
(* takes from each what it finds and keeps it, and none of them writes     *)
(* another's state, so a behaviour is what happens to one of them, chosen  *)
(* in the initial state.                                                   *)
(***************************************************************************)
EXTENDS BackendCatalog, MiddlewareCatalog, RuntimeSnapshot

VARIABLE registry     \* "backends", "middlewares" or "snapshot"

runtimeVars == <<registry, vars, middlewareVars, snapshotVars>>

RuntimeInit ==
  /\ registry \in {"backends", "middlewares", "snapshot"}
  /\ Init /\ MiddlewareInit /\ SnapshotInit
  /\ registry # "backends" => KeysOf(entries[1]) = Keys

RuntimeNext ==
  /\ \/ registry = "backends" /\ Next /\ UNCHANGED <<middlewareVars, snapshotVars>>
     \/ registry = "middlewares" /\ MiddlewareNext /\ UNCHANGED <<vars, snapshotVars>>
     \/ registry = "snapshot" /\ SnapshotNext /\ UNCHANGED <<vars, middlewareVars>>
  /\ UNCHANGED registry

\* Nothing is pinned, enqueued or under way in a registry that has not been
\* chosen, so its fairness asks for no step.
RuntimeSpec ==
  RuntimeInit /\ [][RuntimeNext]_runtimeVars /\ SnapshotFairness
=============================================================================
