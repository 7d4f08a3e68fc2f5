------------------------- MODULE MiddlewareCatalog -------------------------
(***************************************************************************)
(* soul-gateway's catalog of gateway middleware and its rescan             *)
(* (runtime/middleware/middleware-catalog.mjs, reloadMiddlewareCatalog in  *)
(* bootstrap/service-installers.mjs).                                      *)
(*                                                                         *)
(* rescan() replaces the catalog's map by an empty one, fills it module by *)
(* module with an await after each, and only then files the old map as     *)
(* the previous generation, which a timer drops.  Every step writes to     *)
(* the map that is current at that moment, whoever installed it; a failed  *)
(* rescan puts back the map it found.  Requests resolve their policy chain *)
(* in between.  #definitions and #factories always change together and are *)
(* one map here.                                                           *)
(***************************************************************************)
EXTENDS Integers, Sequences, FiniteSets

CONSTANTS
  Rescans,      \* reloadMiddlewareCatalog calls that may overlap
  Resolvers,    \* requests that resolve their gateway chain
  Files,        \* the modules a rescan installs, in order: enabled rows with
                \* a module path, then the built-in directory
  ExtFiles,     \* the extension middlewares registered after a rescan
  Bound,        \* the keys the requests' snapshot binds
  MaxMaps       \* bound: the number of maps created

ModuleKeys == {Files[i] : i \in 1 .. Len(Files)} \cup {ExtFiles[i] : i \in 1 .. Len(ExtFiles)}
MapIds     == 1 .. MaxMaps
NoMap      == 0

ASSUME RescanAssumption ==
  /\ MaxMaps \in Nat \ {0} /\ Len(Files) \in Nat /\ Len(ExtFiles) \in Nat
  /\ Bound \subseteq {Files[i] : i \in 1 .. Len(Files)}

VARIABLES
  heap,         \* the contents of every map ever created
  cur,          \* the map #factories refers to
  fresh,        \* the next map to create
  gen,          \* #generation
  prev,         \* #previous: its map and generation
  rescan,       \* where each rescan is, and the map and generation it found
  chain,        \* the keys in the chain each request resolved
  overlapped    \* history: two rescans were filling the catalog at once

middlewareVars == <<heap, cur, fresh, gen, prev, rescan, chain, overlapped>>

NoPrevious == [map |-> NoMap, gen |-> 0]
Unresolved == {"unresolved"}

Loading == {x \in Rescans : rescan[x].pc = "loading"}

\* Mutant: lookups forget the previous generation.
VisibleInCurrent == heap[cur]

\* getFactory: the current map, then the previous generation's.
Visible == heap[cur] \cup (IF prev.map = NoMap THEN {} ELSE heap[prev.map])

\* Boot loaded the catalog; its own previous generation has expired since.
MiddlewareInit ==
  /\ heap = [m \in MapIds |-> IF m = 1 THEN ModuleKeys ELSE {}]
  /\ cur = 1 /\ fresh = 2 /\ gen = 1
  /\ prev = NoPrevious
  /\ rescan = [x \in Rescans |-> [pc |-> "idle", at |-> 1, old |-> NoMap, oldGen |-> 0]]
  /\ chain = [r \in Resolvers |-> Unresolved]
  /\ overlapped = FALSE

\* rescan(): remember what is there and start with an empty map.
StartRescan(x) ==
  /\ rescan[x].pc = "idle" /\ fresh <= MaxMaps
  /\ rescan' = [rescan EXCEPT ![x] = [pc |-> "loading", at |-> 1, old |-> cur, oldGen |-> gen]]
  /\ cur' = fresh
  /\ fresh' = fresh + 1
  /\ overlapped' = (overlapped \/ Loading # {})
  /\ UNCHANGED <<heap, gen, prev, chain>>

\* loadFromDb and loadBuiltins: one module is imported and set.
InstallModule(x) ==
  /\ rescan[x].pc = "loading" /\ rescan[x].at <= Len(Files)
  /\ heap' = [heap EXCEPT ![cur] = @ \cup {Files[rescan[x].at]}]
  /\ rescan' = [rescan EXCEPT ![x].at = @ + 1]
  /\ UNCHANGED <<cur, fresh, gen, prev, chain, overlapped>>

\* #rotatePreviousGeneration: the timer of the generation it displaces is
\* cleared, so there is one timer, that of the previous generation.
Rotate(x) ==
  /\ rescan[x].pc = "loading" /\ rescan[x].at > Len(Files)
  /\ gen' = rescan[x].oldGen + 1
  /\ prev' = [map |-> rescan[x].old, gen |-> rescan[x].oldGen]
  /\ rescan' = [rescan EXCEPT ![x].pc = "extending", ![x].at = 1]
  /\ UNCHANGED <<heap, cur, fresh, chain, overlapped>>

\* An import, a read or an upsert throws: the catch block restores.
Fail(x) ==
  /\ rescan[x].pc = "loading"
  /\ cur' = rescan[x].old
  /\ gen' = rescan[x].oldGen
  /\ rescan' = [rescan EXCEPT ![x].pc = "idle"]
  /\ UNCHANGED <<heap, fresh, prev, chain, overlapped>>

\* registerExtensionMiddleware, one extension at a time.
Extend(x) ==
  /\ rescan[x].pc = "extending"
  /\ \/ /\ rescan[x].at <= Len(ExtFiles)
        /\ heap' = [heap EXCEPT ![cur] = @ \cup {ExtFiles[rescan[x].at]}]
        /\ rescan' = [rescan EXCEPT ![x].at = @ + 1]
     \/ \* all registered, or scan() or an upsert threw
        /\ rescan' = [rescan EXCEPT ![x].pc = "idle"]
        /\ UNCHANGED heap
  /\ UNCHANGED <<cur, fresh, gen, prev, chain, overlapped>>

\* The grace timer drops the previous generation.
ExpirePrevious ==
  /\ prev # NoPrevious
  /\ prev' = NoPrevious
  /\ UNCHANGED <<heap, cur, fresh, gen, rescan, chain, overlapped>>

\* resolveGatewayChain: a bound key without a factory is left out.
ResolveGatewayChain(r) ==
  /\ chain' = [chain EXCEPT ![r] = Bound \cap Visible]
  /\ UNCHANGED <<heap, cur, fresh, gen, prev, rescan, overlapped>>

MiddlewareNext ==
  \/ \E x \in Rescans : StartRescan(x) \/ InstallModule(x) \/ Rotate(x) \/ Fail(x) \/ Extend(x)
  \/ ExpirePrevious
  \/ \E r \in Resolvers : ResolveGatewayChain(r)

MiddlewareSpec == MiddlewareInit /\ [][MiddlewareNext]_middlewareVars
-----------------------------------------------------------------------------
\* A policy is hidden from requests only while a rescan is filling the map and
\* no previous generation covers for it: the first rescan after a grace period,
\* or one that outlasts it.  Before, between and after rescans, whether they
\* succeeded or failed half-way, and in every rescan that follows another
\* within the grace period, each bound policy is found.
OnlyUncoveredRescanHides ==
  ~overlapped /\ ~(Bound \subseteq Visible) => Loading # {} /\ prev = NoPrevious

\* "The catalog keeps generation-based state so in-flight requests can continue
\* using an older snapshot while a new catalog is loaded" (middleware-
\* catalog.mjs:10-11): a request always resolves every policy it is bound to.
\* It does not: rescan() files the old map as the previous generation only
\* when the new one is full.
OlderCatalogServesRescan == \A r \in Resolvers : chain[r] \in {Unresolved, Bound}
=============================================================================
