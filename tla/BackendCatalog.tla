--------------------------- MODULE BackendCatalog ---------------------------
(***************************************************************************)
(* soul-gateway's registry of backend modules and its hot reload           *)
(* (runtime/backends/backend-catalog.mjs, reloadBackendCatalog in          *)
(* bootstrap/service-installers.mjs, backend-dispatch-middleware.mjs).     *)
(*                                                                         *)
(* load() swaps in a fresh generation of built-in backends synchronously;  *)
(* extension backends are merged into whatever generation is current only  *)
(* after a directory scan the reload awaits.  A dispatch pins a generation *)
(* until its response is consumed.  Both loaders import a file under its   *)
(* modification time, so Node's module cache hands out the SAME module to  *)
(* every generation that finds the file unchanged: a module is its key and *)
(* the version of its file.  The fields of the current generation and of   *)
(* _oldGenerations are functions of the generation number here: load()     *)
(* moves _entries and _inflightCount to the old generation, which keeps    *)
(* them under the number they already had.                                 *)
(***************************************************************************)
EXTENDS Integers, FiniteSets

CONSTANTS
  Dispatches,      \* provider attempts that may hold a generation
  Reloads,         \* reloadBackendCatalog calls that may overlap
  Builtins,        \* keys of the modules in backends/builtin
  Extensions,      \* keys of the modules in EXTENSIONS_DIR/backends
  Flaky,           \* modules whose file may fail to import during a reload
  Edited,          \* keys of the files somebody may edit
  MaxVersion,      \* bound: how often a file is edited
  MaxGeneration    \* bound: the number of generations explored

ASSUME CatalogAssumption ==
  /\ IsFiniteSet(Dispatches)
  /\ MaxGeneration \in Nat \ {0}
  /\ MaxVersion \in Nat \ {0}
  /\ Flaky \subseteq Builtins \cup Extensions
  /\ Edited \subseteq Builtins \cup Extensions

Keys        == Builtins \cup Extensions
Versions    == 1 .. MaxVersion
Modules     == Keys \X Versions
Generations == 1 .. MaxGeneration
None        == 0           \* the generation of a dispatch that pins none
NoModule    == <<None, None>>

VARIABLES
  file,         \* the version of each module's file on disk
  current,      \* _generation
  entries,      \* the modules of each generation
  inflight,     \* the in-flight count of each generation
  kept,         \* the generations in _oldGenerations
  retired,      \* generations that were shut down
  down,         \* modules whose shutdown() was called
  reload,       \* where each reload is and the modules it has imported
  dispatch,     \* what each attempt does, the generation it pins, its module
  process       \* "serving", or how far shutdownAll has come

vars == <<file, current, entries, inflight, kept, retired, down, reload, dispatch, process>>

ReloadStates   == {"idle", "loading", "scanning", "merging"}
DispatchStates == {"idle", "running", "notLoaded"}
ReloadRecords  == [pc : ReloadStates, found : SUBSET Modules]
DispatchRecords == [pc     : DispatchStates,
                    gen    : Generations \cup {None},
                    module : Modules \cup {NoModule}]

TypeOK ==
  /\ file \in [Keys -> Versions]
  /\ current \in Generations
  /\ entries \in [Generations -> SUBSET Modules]
  /\ inflight \in [Generations -> Nat]
  /\ kept \subseteq Generations
  /\ retired \subseteq Generations
  /\ down \subseteq Modules
  /\ reload \in [Reloads -> ReloadRecords]
  /\ dispatch \in [Dispatches -> DispatchRecords]
  /\ process \in {"serving", "closing", "closed"}

\* The modules of a set of files; one that fails to import is logged and skipped.
Imports(keys) ==
  {{<<k, file[k]>> : k \in loaded} : loaded \in {some \in SUBSET keys : keys \ Flaky \subseteq some}}

KeysOf(modules) == {m[1] : m \in modules}
Pinning(g)      == {d \in Dispatches : dispatch[d].gen = g}

\* The boot sequence ran the first reload to its end.
Init ==
  /\ file     = [k \in Keys |-> 1]
  /\ current  = 1
  /\ \E found \in Imports(Keys) : entries = [g \in Generations |-> IF g = 1 THEN found ELSE {}]
  /\ inflight = [g \in Generations |-> 0]
  /\ kept     = {}
  /\ retired  = {}
  /\ down     = {}
  /\ reload   = [x \in Reloads |-> [pc |-> "idle", found |-> {}]]
  /\ dispatch = [d \in Dispatches |-> [pc |-> "idle", gen |-> None, module |-> NoModule]]
  /\ process  = "serving"
-----------------------------------------------------------------------------
\* Somebody saves a module's file: the next import of it is another module.
EditFile(k) ==
  /\ k \in Edited /\ file[k] < MaxVersion
  /\ file' = [file EXCEPT ![k] = @ + 1]
  /\ UNCHANGED <<current, entries, inflight, kept, retired, down, reload, dispatch, process>>

\* loadAll() imports the built-ins.
StartReload(x) ==
  /\ reload[x].pc = "idle" /\ process = "serving"
  /\ \E found \in Imports(Builtins) :
       reload' = [reload EXCEPT ![x] = [pc |-> "loading", found |-> found]]
  /\ UNCHANGED <<file, current, entries, inflight, kept, retired, down, dispatch, process>>

\* Mutant: the swap forgets the generation it replaces.
LoadForgettingOld(x) ==
  /\ reload[x].pc = "loading" /\ current < MaxGeneration
  /\ current' = current + 1
  /\ entries' = [entries EXCEPT ![current + 1] = reload[x].found]
  /\ reload' = [reload EXCEPT ![x] = [pc |-> "scanning", found |-> {}]]
  /\ UNCHANGED <<file, inflight, kept, retired, down, dispatch, process>>

(***************************************************************************)
(* load() swaps the built-ins in: the old generation is kept unless it was *)
(* empty, the new count starts at zero.                                    *)
(***************************************************************************)
Load(x) ==
  /\ reload[x].pc = "loading" /\ current < MaxGeneration
  /\ current' = current + 1
  /\ entries' = [entries EXCEPT ![current + 1] = reload[x].found]
  /\ inflight' = [inflight EXCEPT ![current + 1] = 0]
  /\ kept' = IF entries[current] # {} THEN kept \cup {current} ELSE kept
  /\ reload' = [reload EXCEPT ![x] = [pc |-> "scanning", found |-> {}]]
  /\ UNCHANGED <<file, retired, down, dispatch, process>>

\* scan() imports the extensions.
Scan(x) ==
  /\ reload[x].pc = "scanning"
  /\ \E found \in Imports(Extensions) :
       reload' = [reload EXCEPT ![x] = [pc |-> "merging", found |-> found]]
  /\ UNCHANGED <<file, current, entries, inflight, kept, retired, down, dispatch, process>>

\* The extensions directory cannot be read: the reload rejects half-way.
ScanFails(x) ==
  /\ reload[x].pc = "scanning"
  /\ reload' = [reload EXCEPT ![x].pc = "idle"]
  /\ UNCHANGED <<file, current, entries, inflight, kept, retired, down, dispatch, process>>

(***************************************************************************)
(* Each extension is registered in the generation that is current by now;  *)
(* a key that is already there is a collision, is logged and skipped.      *)
(***************************************************************************)
Merge(x) ==
  /\ reload[x].pc = "merging"
  /\ entries' = [entries EXCEPT
       ![current] = @ \cup {m \in reload[x].found : m[1] \notin KeysOf(@)}]
  /\ reload' = [reload EXCEPT ![x] = [pc |-> "idle", found |-> {}]]
  /\ UNCHANGED <<file, current, inflight, kept, retired, down, dispatch, process>>
-----------------------------------------------------------------------------
\* acquireGeneration and the lookup of the terminal: no await in between.
AcquireGeneration(d, key) ==
  /\ dispatch[d].gen = None
  /\ \/ \E m \in entries[current] :
          /\ m[1] = key
          /\ inflight' = [inflight EXCEPT ![current] = @ + 1]
          /\ dispatch' = [dispatch EXCEPT
                ![d] = [pc |-> "running", gen |-> current, module |-> m]]
     \/ \* "Backend not loaded": released at once, a ConfigurationError
        /\ key \notin KeysOf(entries[current])
        /\ dispatch' = [dispatch EXCEPT
              ![d] = [pc |-> "notLoaded", gen |-> None, module |-> NoModule]]
        /\ UNCHANGED inflight
  /\ UNCHANGED <<file, current, entries, kept, retired, down, reload, process>>

Unpin(d) ==
  dispatch' = [dispatch EXCEPT ![d] = [pc |-> "idle", gen |-> None, module |-> NoModule]]

\* Mutant: every release is booked on the current generation.
ReleaseOnCurrent(d) ==
  /\ dispatch[d].pc = "running"
  /\ inflight' = [inflight EXCEPT ![current] = IF @ > 0 THEN @ - 1 ELSE 0]
  /\ Unpin(d)
  /\ UNCHANGED <<file, current, entries, kept, retired, down, reload, process>>

(***************************************************************************)
(* The attempt failed, its response was buffered, or the last event of its *)
(* stream was consumed: releaseGeneration, once.  The last release of an   *)
(* old generation drops it and shuts its modules down, also those it       *)
(* shares with generations that live on.                                   *)
(***************************************************************************)
ReleaseGeneration(d) ==
  LET g       == dispatch[d].gen
      drained == g # current /\ g \in kept /\ inflight[g] <= 1
  IN  /\ dispatch[d].pc = "running"
      /\ inflight' = IF g = current \/ g \in kept
                     THEN [inflight EXCEPT ![g] = IF @ > 0 THEN @ - 1 ELSE 0]
                     ELSE inflight
      /\ kept' = IF drained THEN kept \ {g} ELSE kept
      /\ retired' = IF drained THEN retired \cup {g} ELSE retired
      /\ down' = IF drained THEN down \cup entries[g] ELSE down
      /\ Unpin(d)
      /\ UNCHANGED <<file, current, entries, reload, process>>
-----------------------------------------------------------------------------
\* shutdownAll first shuts the current modules down ...
ShutdownCurrent ==
  /\ process = "serving"
  /\ process' = "closing"
  /\ retired' = retired \cup {current}
  /\ down' = down \cup entries[current]
  /\ UNCHANGED <<file, current, entries, inflight, kept, reload, dispatch>>

\* ... and then, after their shutdown promises, forgets them and shuts down
\* the old generations.
ShutdownOld ==
  /\ process = "closing"
  /\ process' = "closed"
  /\ retired' = retired \cup kept
  /\ down' = down \cup UNION {entries[g] : g \in kept}
  /\ entries' = [entries EXCEPT ![current] = {}]
  /\ kept' = {}
  /\ UNCHANGED <<file, current, inflight, reload, dispatch>>

Next ==
  \/ \E k \in Keys : EditFile(k)
  \/ \E x \in Reloads : StartReload(x) \/ Load(x) \/ Scan(x) \/ ScanFails(x) \/ Merge(x)
  \/ \E d \in Dispatches : ReleaseGeneration(d) \/ \E key \in Keys : AcquireGeneration(d, key)
  \/ ShutdownCurrent \/ ShutdownOld

Spec == Init /\ [][Next]_vars
-----------------------------------------------------------------------------
\* The count of every generation that can still be released is the number of
\* attempts that pin it, although load() moves the counter between objects
\* while attempts hold it and a release may find its generation replaced.
InflightExact ==
  \A g \in kept \cup {current} : inflight[g] = Cardinality(Pinning(g))

\* Until the process shuts down, an attempt's generation is the current one
\* or is kept, and still has the module the attempt runs on.  That module's
\* shutdown() is called only for another generation, one that is retired and
\* had the same module because the file had not changed: a module that its
\* generation alone has is never shut down under its requests.
PinnedGenerationLives ==
  process = "serving" =>
    \A d \in Dispatches : dispatch[d].gen # None =>
      /\ dispatch[d].gen \in (kept \cup {current}) \ retired
      /\ dispatch[d].module \in entries[dispatch[d].gen]
      /\ dispatch[d].module \in down =>
           \E g \in retired : g # dispatch[d].gen /\ dispatch[d].module \in entries[g]

\* A built-in backend whose file loads is never missing, in any phase of any
\* number of overlapping reloads: load() swaps, it does not clear and refill.
BuiltinsAlwaysServed == process = "serving" => Builtins \ Flaky \subseteq KeysOf(entries[current])

\* An old generation that attempts still use is shut down with the last of them,
\* however many reloads came between, although load() moved its counter while
\* they held it: none stays behind because a release was booked elsewhere.  An
\* attempt whose stream is never read to its end keeps its generation.
LastReleaseRetires ==
  \A g \in kept : Pinning(g) # {} /\ Pinning(g)' = {} => g \in retired' \ kept'

UsedGenerationRetires == [][LastReleaseRetires]_vars

\* "in-flight requests keep running on the previous generation's terminals"
\* (backend-catalog.mjs:18-20): while the process serves, no request runs on
\* an extension's module that was shut down.  It does: an unchanged file's
\* module is shut down with the old generation while others go on using it.
\* (The shutdown() of every built-in module does nothing.)
NoModuleShutInUse ==
  process = "serving" =>
    \A d \in Dispatches : dispatch[d].module \in down => dispatch[d].module[1] \notin Extensions
=============================================================================
