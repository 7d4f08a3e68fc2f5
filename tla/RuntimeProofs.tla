--------------------------- MODULE RuntimeProofs ---------------------------
(***************************************************************************)
(* What can be replaced while requests run, for every value of the        *)
(* constants.                                                              *)
(*                                                                         *)
(* Backends: in-flight counts are exact, a reload never takes the modules  *)
(* from under a running dispatch, and the built-in backends stay served    *)
(* while the process serves.                                               *)
(*                                                                         *)
(* Middleware: as long as no two rescans fill the catalog at once, no      *)
(* request misses a bound policy while the previous generation is kept.    *)
(*                                                                         *)
(* Snapshot: a snapshot shows the database as it was at one instant.  The  *)
(* argument is about the queue for the connection: a refresh enqueues its  *)
(* SELECTs in one go, so nobody's statement runs between two of them.      *)
(***************************************************************************)
EXTENDS BackendCatalog, MiddlewareCatalog, RuntimeSnapshot,
        FiniteSetTheorems, SequenceTheorems, TLAPS

\* A dispatch pins a generation exactly while it runs, and none of the future.
PinsAreRunning ==
  \A d \in Dispatches :
    /\ dispatch[d].pc = "running" <=> dispatch[d].gen # None
    /\ dispatch[d].gen <= current

\* Old generations are older than the current one; what reloads retired is
\* neither kept nor current.
OldIsOld ==
  /\ \A g \in kept : g < current
  /\ process = "serving" => \A g \in retired : g < current /\ g \notin kept

\* load() keeps a generation unless it is empty: one that is pinned is not.
PinnedIsNotEmpty ==
  process = "serving" =>
    \A d \in Dispatches : dispatch[d].gen = current => entries[current] # {}

\* A reload that is about to swap has imported every built-in that loads.
ImportsAreWhole ==
  \A x \in Reloads : reload[x].pc = "loading" => Builtins \ Flaky \subseteq KeysOf(reload[x].found)

\* Only the modules of retired generations were shut down.
DownIsRetired ==
  process = "serving" => \A m \in down : \E g \in retired : m \in entries[g]

IInv ==
  /\ TypeOK
  /\ PinsAreRunning
  /\ OldIsOld
  /\ PinnedIsNotEmpty
  /\ ImportsAreWhole
  /\ DownIsRetired
  /\ InflightExact
  /\ PinnedGenerationLives
  /\ BuiltinsAlwaysServed

USE CatalogAssumption
-----------------------------------------------------------------------------
\* Generations are numbers from 1 on; None is none of them.
LEMMA GenerationFacts ==
  /\ Generations \subseteq Nat
  /\ 1 \in Generations
  /\ None \notin Generations
  /\ \A g \in Generations : g # MaxGeneration /\ g < MaxGeneration => g + 1 \in Generations
BY DEF Generations, None

\* A dispatch pins a generation or nothing.
LEMMA GenTyped ==
  ASSUME TypeOK
  PROVE  \A d \in Dispatches : dispatch[d].gen \in Generations \cup {None}
BY DEF TypeOK, DispatchRecords

\* What an import finds: modules of its directory, and each one that loads.
LEMMA ImportFacts ==
  ASSUME TypeOK, NEW keys \in SUBSET Keys, NEW found \in Imports(keys)
  PROVE  /\ found \subseteq Modules
         /\ keys \ Flaky \subseteq KeysOf(found)
<1>1. PICK loaded \in SUBSET keys : keys \ Flaky \subseteq loaded /\ found = {<<k, file[k]>> : k \in loaded}
  BY DEF Imports
<1>2. \A k \in loaded : <<k, file[k]>> \in Modules
  BY DEF TypeOK, Modules
<1>3. \A k \in loaded : k \in KeysOf(found)
  <2>. SUFFICES ASSUME NEW k \in loaded PROVE k \in KeysOf(found)
    OBVIOUS
  <2>1. <<k, file[k]>> \in found /\ <<k, file[k]>>[1] = k
    BY <1>1
  <2>. QED  BY <2>1 DEF KeysOf
<1>. QED  BY <1>1, <1>2, <1>3

\* The dispatches that pin a generation can be counted.
LEMMA PinningIsFinite ==
  ASSUME NEW g
  PROVE  /\ IsFiniteSet(Pinning(g))
         /\ Cardinality(Pinning(g)) \in Nat
<1>1. Pinning(g) \in SUBSET Dispatches
  BY DEF Pinning
<1>2. IsFiniteSet(Pinning(g))
  BY <1>1, FS_Subset
<1>. QED  BY <1>2, FS_CardinalityType

\* What a dispatch that starts does to the sets of pinning dispatches.
LEMMA PinOne ==
  ASSUME TypeOK, NEW d \in Dispatches, NEW h \in Generations, NEW pc \in DispatchStates,
         NEW m, dispatch[d].gen = None,
         dispatch' = [dispatch EXCEPT ![d] = [pc |-> pc, gen |-> h, module |-> m]]
  PROVE  /\ Cardinality(Pinning(h)') = Cardinality(Pinning(h)) + 1
         /\ \A g \in Generations : g # h => Pinning(g)' = Pinning(g)
<1>1. \A c \in Dispatches : dispatch'[c].gen = IF c = d THEN h ELSE dispatch[c].gen
  BY DEF TypeOK
<1>2. Pinning(h)' = Pinning(h) \cup {d} /\ d \notin Pinning(h)
  BY <1>1, GenerationFacts DEF Pinning
<1>3. \A g \in Generations : g # h => Pinning(g)' = Pinning(g)
  BY <1>1, GenerationFacts DEF Pinning
<1>4. Cardinality(Pinning(h) \cup {d}) = Cardinality(Pinning(h)) + 1
  <2>1. IsFiniteSet(Pinning(h)) /\ d \notin Pinning(h)
    BY <1>2, PinningIsFinite
  <2>. QED  BY ONLY <2>1, FS_AddElement
<1>. QED  BY <1>2, <1>3, <1>4

\* What a dispatch that ends does to them.
LEMMA UnpinOne ==
  ASSUME TypeOK, NEW d \in Dispatches, NEW h \in Generations, dispatch[d].gen = h, Unpin(d)
  PROVE  /\ Cardinality(Pinning(h)) >= 1
         /\ Cardinality(Pinning(h)') = Cardinality(Pinning(h)) - 1
         /\ \A g \in Generations : g # h => Pinning(g)' = Pinning(g)
<1>1. \A c \in Dispatches : dispatch'[c].gen = IF c = d THEN None ELSE dispatch[c].gen
  BY DEF TypeOK, Unpin
<1>2. Pinning(h)' = Pinning(h) \ {d} /\ d \in Pinning(h)
  BY <1>1, GenerationFacts DEF Pinning
<1>3. \A g \in Generations : g # h => Pinning(g)' = Pinning(g)
  BY <1>1, GenerationFacts DEF Pinning
<1>4. /\ Cardinality(Pinning(h) \ {d}) = Cardinality(Pinning(h)) - 1
      /\ IsFiniteSet(Pinning(h) \ {d})
  <2>1. IsFiniteSet(Pinning(h)) /\ d \in Pinning(h)
    BY <1>2, PinningIsFinite
  <2>. QED  BY ONLY <2>1, FS_RemoveElement
<1>5. Cardinality(Pinning(h) \ {d}) \in Nat
  BY <1>4, FS_CardinalityType
<1>. QED  BY <1>2, <1>3, <1>4, <1>5, PinningIsFinite

\* Two dispatches that pin one generation count for two.
LEMMA TwoPins ==
  ASSUME NEW d \in Dispatches, NEW c \in Dispatches, c # d,
         NEW g, dispatch[c].gen = g, dispatch[d].gen = g
  PROVE  Cardinality(Pinning(g)) >= 2
<1>1. {c, d} \in SUBSET Pinning(g)
  BY DEF Pinning
<1>2. IsFiniteSet({c}) /\ Cardinality({c}) = 1
  BY FS_Singleton
<1>3. {c} \cup {d} = {c, d} /\ d \notin {c}
  OBVIOUS
<1>4. Cardinality({c, d}) = 2
  <2>1. Cardinality({c} \cup {d}) = Cardinality({c}) + 1
    BY ONLY <1>2, <1>3, FS_AddElement
  <2>. QED  BY ONLY <1>2, <1>3, <2>1
<1>5. Cardinality({c, d}) <= Cardinality(Pinning(g))
  BY <1>1, PinningIsFinite, FS_Subset
<1>. QED  BY <1>4, <1>5, PinningIsFinite
-----------------------------------------------------------------------------
\* What a step that only edits files, or moves a reload, keeps.
LEMMA NothingMoves ==
  ASSUME IInv, TypeOK', ImportsAreWhole',
         UNCHANGED <<current, entries, inflight, kept, retired, down, dispatch, process>>
  PROVE  IInv'
<1>1. \A g : Pinning(g)' = Pinning(g)
  BY DEF Pinning
<1>2. PinsAreRunning' /\ OldIsOld' /\ PinnedIsNotEmpty' /\ DownIsRetired'
  BY DEF IInv, PinsAreRunning, OldIsOld, PinnedIsNotEmpty, DownIsRetired
<1>3. InflightExact' /\ PinnedGenerationLives' /\ BuiltinsAlwaysServed'
  BY <1>1 DEF IInv, InflightExact, PinnedGenerationLives, BuiltinsAlwaysServed, KeysOf
<1>. QED  BY <1>2, <1>3 DEF IInv

\* The first generation has every built-in backend that loads, and nothing pins it.
LEMMA InitIInv == Init => IInv
<1>. SUFFICES ASSUME Init PROVE IInv
  OBVIOUS
<1>1. PICK found \in Imports(Keys) :
        entries = [g \in Generations |-> IF g = 1 THEN found ELSE {}]
  BY DEF Init
<1>2. 1 \in Versions /\ file \in [Keys -> Versions]
  BY DEF Init, Versions
<1>3. found \subseteq Modules /\ Builtins \ Flaky \subseteq KeysOf(found)
  <2>1. PICK loaded \in SUBSET Keys : Keys \ Flaky \subseteq loaded /\ found = {<<k, file[k]>> : k \in loaded}
    BY DEF Imports
  <2>2. \A k \in loaded : <<k, file[k]>> \in Modules
    BY <1>2 DEF Modules
  <2>3. \A k \in loaded : k \in KeysOf(found)
    <3>. SUFFICES ASSUME NEW k \in loaded PROVE k \in KeysOf(found)
      OBVIOUS
    <3>1. <<k, file[k]>> \in found /\ <<k, file[k]>>[1] = k
      BY <2>1
    <3>. QED  BY <3>1 DEF KeysOf
  <2>4. Builtins \ Flaky \subseteq loaded
    BY <2>1 DEF Keys
  <2>. QED  BY <2>1, <2>2, <2>3, <2>4
<1>4. TypeOK
  <2>1. entries \in [Generations -> SUBSET Modules]
    BY <1>1, <1>3
  <2>2. dispatch \in [Dispatches -> DispatchRecords]
    BY DEF Init, DispatchRecords, DispatchStates
  <2>3. reload \in [Reloads -> ReloadRecords]
    BY DEF Init, ReloadRecords, ReloadStates
  <2>. QED  BY <1>2, <2>1, <2>2, <2>3, GenerationFacts DEF Init, TypeOK
<1>5. PinsAreRunning /\ OldIsOld
  BY GenerationFacts DEF Init, PinsAreRunning, OldIsOld, None
<1>6. PinnedIsNotEmpty /\ PinnedGenerationLives
  BY DEF Init, PinnedIsNotEmpty, PinnedGenerationLives, None
<1>7. InflightExact
  <2>1. Pinning(1) = {}
    BY DEF Init, Pinning, None
  <2>. QED  BY <2>1, GenerationFacts, FS_EmptySet DEF Init, InflightExact
<1>8. BuiltinsAlwaysServed
  BY <1>1, <1>3, GenerationFacts DEF Init, BuiltinsAlwaysServed
<1>9. ImportsAreWhole /\ DownIsRetired
  BY DEF Init, ImportsAreWhole, DownIsRetired
<1>. QED  BY <1>4, <1>5, <1>6, <1>7, <1>8, <1>9 DEF IInv

\* An edit changes what later imports find.
LEMMA EditFileIInv ==
  ASSUME IInv, NEW k \in Keys, EditFile(k)
  PROVE  IInv'
<1>1. file[k] + 1 \in Versions
  BY DEF IInv, TypeOK, EditFile, Versions
<1>2. TypeOK'
  BY <1>1 DEF IInv, TypeOK, EditFile
<1>3. ImportsAreWhole'
  BY DEF IInv, ImportsAreWhole, EditFile, KeysOf
<1>. QED  BY <1>2, <1>3, NothingMoves DEF EditFile

\* The start of a reload changes nothing but the reload.
LEMMA StartReloadIInv ==
  ASSUME IInv, NEW x \in Reloads, StartReload(x)
  PROVE  IInv'
<1>1. PICK found \in Imports(Builtins) :
        reload' = [reload EXCEPT ![x] = [pc |-> "loading", found |-> found]]
  BY DEF StartReload
<1>2. found \subseteq Modules /\ Builtins \ Flaky \subseteq KeysOf(found)
  BY ImportFacts DEF IInv, Keys
<1>3. TypeOK'
  BY <1>1, <1>2 DEF IInv, TypeOK, StartReload, ReloadRecords, ReloadStates
<1>4. ImportsAreWhole'
  BY <1>1, <1>2 DEF IInv, TypeOK, ImportsAreWhole, KeysOf
<1>. QED  BY <1>3, <1>4, NothingMoves DEF StartReload

\* A reload that has swapped is no longer about to.
LEMMA ReloadMoves ==
  ASSUME IInv, NEW x \in Reloads, NEW r \in ReloadRecords, r.pc # "loading",
         reload' = [reload EXCEPT ![x] = r]
  PROVE  reload' \in [Reloads -> ReloadRecords] /\ ImportsAreWhole'
<1>1. reload \in [Reloads -> ReloadRecords]
  BY DEF IInv, TypeOK
<1>. QED  BY <1>1 DEF IInv, ImportsAreWhole, KeysOf

\* The swap keeps what is pinned: by PinnedIsNotEmpty it is not empty.
LEMMA LoadIInv ==
  ASSUME IInv, NEW x \in Reloads, Load(x)
  PROVE  IInv'
<1>. DEFINE found == reload[x].found
<1>1. /\ entries' = [entries EXCEPT ![current + 1] = found]
      /\ found \subseteq Modules /\ Builtins \ Flaky \subseteq KeysOf(found)
  BY DEF Load, IInv, TypeOK, ReloadRecords, ImportsAreWhole
<1>. HIDE DEF found
<1>2. current \in Nat /\ current \in Generations /\ current + 1 \in Generations
  BY GenerationFacts DEF IInv, TypeOK, Load, Generations
<1>3. reload' \in [Reloads -> ReloadRecords] /\ ImportsAreWhole'
  <2>1. [pc |-> "scanning", found |-> {}] \in ReloadRecords
    BY DEF ReloadRecords, ReloadStates
  <2>. QED  BY <2>1, ReloadMoves DEF Load
<1>4. TypeOK'
  BY <1>1, <1>2, <1>3 DEF IInv, TypeOK, Load
<1>5. PinsAreRunning'
  <2>0. \A d \in Dispatches : dispatch[d].gen \in Generations \cup {None}
    BY GenTyped DEF IInv
  <2>1. \A d \in Dispatches : dispatch[d].gen \in Nat
    <3>1. Generations \cup {None} \subseteq Nat
      BY GenerationFacts DEF None
    <3>. QED  BY ONLY <2>0, <3>1
  <2>2. \A d \in Dispatches : dispatch[d].gen <= current => dispatch[d].gen <= current + 1
    BY <1>2, <2>1
  <2>3. current' = current + 1 /\ dispatch' = dispatch
    BY DEF Load
  <2>. QED  BY <2>2, <2>3 DEF IInv, PinsAreRunning
<1>6. kept \subseteq Generations /\ retired \subseteq Generations /\ kept' \subseteq kept \cup {current}
  BY DEF IInv, TypeOK, Load
<1>7. OldIsOld'
  BY <1>2, <1>6, GenerationFacts DEF IInv, OldIsOld, Load
<1>8. \A d \in Dispatches : dispatch[d].gen # current + 1
  <2>1. \A d \in Dispatches : dispatch[d].gen <= current
    BY DEF IInv, PinsAreRunning
  <2>. QED  BY <1>2, <2>1
<1>9. PinnedIsNotEmpty'
  BY <1>8 DEF PinnedIsNotEmpty, Load
<1>10. InflightExact'
  <2>1. \A g : Pinning(g)' = Pinning(g)
    BY DEF Load, Pinning
  <2>2. Pinning(current + 1) = {}
    BY <1>8 DEF Pinning
  <2>3. inflight'[current + 1] = Cardinality(Pinning(current + 1))
    BY <1>2, <2>2, FS_EmptySet DEF IInv, TypeOK, Load
  <2>4. \A g \in kept \cup {current} : inflight'[g] = inflight[g]
    BY <1>2, <1>6, GenerationFacts DEF IInv, OldIsOld, Load, TypeOK
  <2>5. \A g \in kept \cup {current} : inflight'[g] = Cardinality(Pinning(g))
    BY <2>4 DEF IInv, InflightExact
  <2>6. kept' \cup {current'} \subseteq (kept \cup {current}) \cup {current + 1}
    BY <1>6 DEF Load
  <2>. QED  BY <2>1, <2>3, <2>5, <2>6 DEF InflightExact
<1>11. process = "serving" => \A g \in retired : entries'[g] = entries[g]
  <2>1. process = "serving" => \A g \in retired : g # current + 1 /\ g \in Generations
    BY <1>2, <1>6, GenerationFacts DEF IInv, OldIsOld
  <2>. QED  BY <1>1, <2>1 DEF IInv, TypeOK
<1>12. DownIsRetired'
  BY <1>11 DEF IInv, DownIsRetired, Load
<1>13. PinnedGenerationLives'
  <2>. SUFFICES ASSUME process = "serving", NEW d \in Dispatches, dispatch[d].gen # None
                PROVE  /\ dispatch[d].gen \in (kept' \cup {current'}) \ retired
                       /\ dispatch[d].module \in entries'[dispatch[d].gen]
                       /\ dispatch[d].module \in down =>
                            \E g \in retired : g # dispatch[d].gen /\ dispatch[d].module \in entries'[g]
    BY DEF PinnedGenerationLives, Load
  <2>1. /\ dispatch[d].gen \in (kept \cup {current}) \ retired
        /\ dispatch[d].module \in entries[dispatch[d].gen]
        /\ dispatch[d].module \in down =>
             \E g \in retired : g # dispatch[d].gen /\ dispatch[d].module \in entries[g]
    BY DEF IInv, PinnedGenerationLives
  <2>2. dispatch[d].gen = current => current \in kept'
    BY DEF IInv, PinnedIsNotEmpty, Load
  <2>3. kept \subseteq kept'
    BY DEF Load
  <2>4. entries'[dispatch[d].gen] = entries[dispatch[d].gen]
    BY <1>1, <1>2, <1>6, <1>8, <2>1 DEF IInv, TypeOK
  <2>. QED  BY <1>11, <2>1, <2>2, <2>3, <2>4
<1>14. BuiltinsAlwaysServed'
  <2>1. entries'[current'] = found
    BY <1>1, <1>2 DEF IInv, TypeOK, Load
  <2>. QED  BY <1>1, <2>1 DEF BuiltinsAlwaysServed, KeysOf
<1>. QED  BY <1>3, <1>4, <1>5, <1>7, <1>9, <1>10, <1>12, <1>13, <1>14 DEF IInv

\* The scan imports the extensions, or fails.
LEMMA ScanIInv ==
  ASSUME IInv, NEW x \in Reloads, Scan(x) \/ ScanFails(x)
  PROVE  IInv'
<1>1. CASE Scan(x)
  <2>1. PICK found \in Imports(Extensions) :
          reload' = [reload EXCEPT ![x] = [pc |-> "merging", found |-> found]]
    BY <1>1 DEF Scan
  <2>2. [pc |-> "merging", found |-> found] \in ReloadRecords
    BY ImportFacts DEF IInv, Keys, ReloadRecords, ReloadStates
  <2>3. TypeOK' /\ ImportsAreWhole'
    BY <1>1, <2>1, <2>2, ReloadMoves DEF IInv, TypeOK, Scan
  <2>. QED  BY <1>1, <2>3, NothingMoves DEF Scan
<1>2. CASE ScanFails(x)
  <2>1. reload' = [reload EXCEPT ![x] = [reload[x] EXCEPT !.pc = "idle"]]
    BY <1>2 DEF ScanFails
  <2>2. [reload[x] EXCEPT !.pc = "idle"] \in ReloadRecords
        /\ [reload[x] EXCEPT !.pc = "idle"].pc = "idle"
    BY DEF IInv, TypeOK, ReloadRecords, ReloadStates
  <2>3. TypeOK' /\ ImportsAreWhole'
    BY <1>2, <2>1, <2>2, ReloadMoves DEF IInv, TypeOK, ScanFails
  <2>. QED  BY <1>2, <2>3, NothingMoves DEF ScanFails
<1>. QED  BY <1>1, <1>2

\* The merge adds entries to the current generation and takes none away.
LEMMA MergeIInv ==
  ASSUME IInv, NEW x \in Reloads, Merge(x)
  PROVE  IInv'
<1>1. PICK new \in SUBSET Modules : entries' = [entries EXCEPT ![current] = @ \cup new]
  <2>1. {m \in reload[x].found : m[1] \notin KeysOf(entries[current])} \in SUBSET Modules
    BY DEF IInv, TypeOK, ReloadRecords
  <2>. QED  BY <2>1 DEF Merge
<1>2. [pc |-> "idle", found |-> {}] \in ReloadRecords
  BY DEF ReloadRecords, ReloadStates
<1>3. TypeOK' /\ ImportsAreWhole'
  <2>1. reload' \in [Reloads -> ReloadRecords] /\ ImportsAreWhole'
    BY <1>2, ReloadMoves DEF Merge
  <2>. QED  BY <1>1, <2>1 DEF IInv, TypeOK, Merge
<1>4. \A g \in Generations : entries[g] \subseteq entries'[g]
  BY <1>1 DEF IInv, TypeOK
<1>5. current \in Generations /\ retired \subseteq Generations
      /\ \A d \in Dispatches : dispatch[d].gen # None => dispatch[d].gen \in Generations
  BY GenTyped DEF IInv, TypeOK
<1>6. \A g : Pinning(g)' = Pinning(g)
  BY DEF Merge, Pinning
<1>7. PinnedIsNotEmpty' /\ BuiltinsAlwaysServed' /\ DownIsRetired'
  BY <1>4, <1>5 DEF IInv, Merge, PinnedIsNotEmpty, BuiltinsAlwaysServed, DownIsRetired, KeysOf
<1>8. PinnedGenerationLives'
  BY <1>4, <1>5 DEF IInv, Merge, PinnedGenerationLives
<1>. QED
  BY <1>3, <1>6, <1>7, <1>8 DEF IInv, Merge, PinsAreRunning, OldIsOld, InflightExact

\* A dispatch pins the current generation only if it finds its backend there.
LEMMA AcquireIInv ==
  ASSUME IInv, NEW d \in Dispatches, NEW key \in Keys, AcquireGeneration(d, key)
  PROVE  IInv'
<1>1. /\ dispatch[d].gen = None
      /\ current \in Generations /\ current \in Nat /\ current # None
      /\ current \notin kept
      /\ dispatch \in [Dispatches -> DispatchRecords]
      /\ \A e \in Dispatches : dispatch[e].gen <= current
      /\ process = "serving" => current \notin retired
  BY GenerationFacts DEF IInv, AcquireGeneration, PinsAreRunning, TypeOK, OldIsOld
<1>2. UNCHANGED <<file, current, entries, kept, retired, down, reload, process>>
  BY DEF AcquireGeneration
<1>3. OldIsOld' /\ DownIsRetired' /\ ImportsAreWhole' /\ BuiltinsAlwaysServed'
  BY <1>2 DEF IInv, OldIsOld, DownIsRetired, ImportsAreWhole, BuiltinsAlwaysServed, KeysOf
<1>4. ASSUME NEW m \in entries[current],
             inflight' = [inflight EXCEPT ![current] = @ + 1],
             dispatch' = [dispatch EXCEPT
               ![d] = [pc |-> "running", gen |-> current, module |-> m]]
      PROVE  IInv'
  <2>1. \A e \in Dispatches :
          dispatch'[e] = IF e = d THEN [pc |-> "running", gen |-> current, module |-> m]
                                  ELSE dispatch[e]
    BY <1>1, <1>4
  <2>2. [pc |-> "running", gen |-> current, module |-> m] \in DispatchRecords
    BY <1>1 DEF IInv, TypeOK, DispatchRecords, DispatchStates
  <2>3. TypeOK'
    <3>1. dispatch' \in [Dispatches -> DispatchRecords]
      BY <1>1, <1>4, <2>2
    <3>2. inflight' \in [Generations -> Nat]
      BY <1>1, <1>4 DEF IInv, TypeOK
    <3>. QED  BY <1>2, <3>1, <3>2 DEF IInv, TypeOK
  <2>4. PinsAreRunning'
    BY <1>1, <1>2, <2>1 DEF IInv, PinsAreRunning
  <2>5. PinnedIsNotEmpty'
    BY <1>2, <1>4, <2>1 DEF IInv, PinnedIsNotEmpty
  <2>6. InflightExact'
    <3>. PICK h \in Generations : h = current
      BY <1>1
    <3>1. /\ Cardinality(Pinning(h)') = Cardinality(Pinning(h)) + 1
          /\ \A g \in Generations : g # h => Pinning(g)' = Pinning(g)
      <4>1. TypeOK /\ "running" \in DispatchStates
        BY DEF IInv, DispatchStates
      <4>2. dispatch' = [dispatch EXCEPT ![d] = [pc |-> "running", gen |-> h, module |-> m]]
        BY <1>4
      <4>. QED  BY <1>1, <4>1, <4>2, PinOne
    <3>2. inflight'[current] = inflight[current] + 1
      BY <1>1, <1>4 DEF IInv, TypeOK
    <3>3. \A g \in kept : inflight'[g] = inflight[g] /\ g \in Generations /\ g # current
      BY <1>1, <1>4 DEF IInv, TypeOK
    <3>. QED  BY <1>2, <3>1, <3>2, <3>3 DEF IInv, InflightExact
  <2>7. PinnedGenerationLives'
    <3>. SUFFICES ASSUME process = "serving", NEW e \in Dispatches, dispatch'[e].gen # None
                  PROVE  /\ dispatch'[e].gen \in (kept \cup {current}) \ retired
                         /\ dispatch'[e].module \in entries[dispatch'[e].gen]
                         /\ dispatch'[e].module \in down =>
                              \E g \in retired : g # dispatch'[e].gen /\ dispatch'[e].module \in entries[g]
      BY <1>2 DEF PinnedGenerationLives
    <3>1. CASE e = d
      BY <1>1, <1>4, <2>1, <3>1 DEF IInv, DownIsRetired
    <3>2. CASE e # d
      BY <2>1, <3>2 DEF IInv, PinnedGenerationLives
    <3>. QED  BY <3>1, <3>2
  <2>. QED  BY <1>3, <2>3, <2>4, <2>5, <2>6, <2>7 DEF IInv
<1>5. CASE /\ dispatch' = [dispatch EXCEPT
                 ![d] = [pc |-> "notLoaded", gen |-> None, module |-> NoModule]]
           /\ UNCHANGED inflight
  <2>1. \A e \in Dispatches :
          dispatch'[e] = IF e = d THEN [pc |-> "notLoaded", gen |-> None, module |-> NoModule]
                                  ELSE dispatch[e]
    BY <1>1, <1>5
  <2>2. [pc |-> "notLoaded", gen |-> None, module |-> NoModule] \in DispatchRecords
    BY DEF DispatchRecords, DispatchStates
  <2>3. TypeOK'
    BY <1>1, <1>2, <1>5, <2>2 DEF IInv, TypeOK
  <2>4. PinsAreRunning' /\ PinnedIsNotEmpty'
    BY <1>1, <1>2, <2>1 DEF IInv, PinsAreRunning, PinnedIsNotEmpty, None
  <2>5. \A g \in Generations : Pinning(g)' = Pinning(g)
    BY <1>1, <2>1, GenerationFacts DEF Pinning
  <2>6. InflightExact'
    BY <1>1, <1>2, <1>5, <2>5 DEF IInv, InflightExact, TypeOK
  <2>7. PinnedGenerationLives'
    BY <1>2, <2>1 DEF IInv, PinnedGenerationLives
  <2>. QED  BY <1>3, <2>3, <2>4, <2>6, <2>7 DEF IInv
<1>. QED  BY <1>4, <1>5 DEF AcquireGeneration

\* The last release drops an old generation: by exactness nobody else pins it.
LEMMA ReleaseIInv ==
  ASSUME IInv, NEW d \in Dispatches, ReleaseGeneration(d)
  PROVE  IInv'
<1>0. PICK g \in Generations : g = dispatch[d].gen
  <2>1. dispatch[d].gen # None
    BY DEF IInv, ReleaseGeneration, PinsAreRunning
  <2>. QED  BY <2>1, GenTyped DEF IInv
<1>. DEFINE drained == g # current /\ g \in kept /\ inflight[g] <= 1
<1>1. /\ dispatch[d].pc = "running" /\ g \in Generations /\ g \in Nat
      /\ current \in Generations /\ current \in Nat /\ current \notin kept
  <2>1. dispatch[d].pc = "running"
    BY DEF ReleaseGeneration
  <2>2. current \in Generations /\ \A h \in kept : h < current
    BY DEF IInv, TypeOK, OldIsOld
  <2>. QED  BY <1>0, <2>1, <2>2, GenerationFacts
<1>2. /\ inflight' = IF g = current \/ g \in kept
                     THEN [inflight EXCEPT ![g] = IF @ > 0 THEN @ - 1 ELSE 0]
                     ELSE inflight
      /\ kept' = IF drained THEN kept \ {g} ELSE kept
      /\ retired' = IF drained THEN retired \cup {g} ELSE retired
      /\ down' = IF drained THEN down \cup entries[g] ELSE down
      /\ Unpin(d)
      /\ UNCHANGED <<file, current, entries, reload, process>>
  BY <1>0 DEF ReleaseGeneration
<1>3. \A c \in Dispatches :
        dispatch'[c] = IF c = d THEN [pc |-> "idle", gen |-> None, module |-> NoModule]
                                ELSE dispatch[c]
  BY <1>2 DEF IInv, TypeOK, Unpin
<1>. HIDE DEF drained
<1>4. TypeOK'
  <2>1. inflight' \in [Generations -> Nat]
    <3>1. inflight \in [Generations -> Nat]
      BY DEF IInv, TypeOK
    <3>2. inflight[g] \in Nat /\ (IF inflight[g] > 0 THEN inflight[g] - 1 ELSE 0) \in Nat
      BY <1>1, <3>1
    <3>. QED  BY <1>1, <1>2, <3>1, <3>2
  <2>2. dispatch' \in [Dispatches -> DispatchRecords]
    BY <1>2 DEF IInv, TypeOK, Unpin, DispatchRecords, DispatchStates
  <2>3. down' \subseteq Modules
    BY <1>1, <1>2 DEF IInv, TypeOK
  <2>. QED  BY <1>1, <1>2, <2>1, <2>2, <2>3 DEF IInv, TypeOK
<1>5. PinsAreRunning'
  BY <1>1, <1>2, <1>3 DEF IInv, PinsAreRunning, None
<1>6. OldIsOld'
  <2>1. drained => g \in kept
    BY DEF drained
  <2>. QED  BY <1>2, <2>1 DEF IInv, OldIsOld
<1>7. PinnedIsNotEmpty'
  BY <1>1, <1>2, <1>3, GenerationFacts DEF IInv, PinnedIsNotEmpty
<1>8. /\ Cardinality(Pinning(g)) >= 1
      /\ Cardinality(Pinning(g)') = Cardinality(Pinning(g)) - 1
      /\ \A h \in Generations : h # g => Pinning(h)' = Pinning(h)
  <2>1. TypeOK /\ Unpin(d)
    BY <1>2 DEF IInv
  <2>. QED  BY <1>0, <2>1, UnpinOne
<1>9. InflightExact'
  <2>. SUFFICES ASSUME NEW h \in kept' \cup {current'}
                PROVE  inflight'[h] = Cardinality(Pinning(h)')
    BY DEF InflightExact
  <2>1. h \in kept \cup {current} /\ h \in Generations
    BY <1>1, <1>2 DEF IInv, TypeOK
  <2>2. inflight[h] = Cardinality(Pinning(h)) /\ inflight \in [Generations -> Nat]
    BY <2>1 DEF IInv, InflightExact, TypeOK
  <2>3. CASE h = g
    <3>1. Cardinality(Pinning(g)) \in Nat
      BY PinningIsFinite
    <3>2. inflight'[g] = IF inflight[g] > 0 THEN inflight[g] - 1 ELSE 0
      BY <1>1, <1>2, <2>1, <2>2, <2>3
    <3>3. Cardinality(Pinning(g)') = Cardinality(Pinning(g)) - 1 /\ Cardinality(Pinning(g)) >= 1
      BY <1>8
    <3>. QED  BY <2>2, <2>3, <3>1, <3>2, <3>3
  <2>4. CASE h # g
    BY <1>1, <1>2, <1>8, <2>1, <2>2, <2>4
  <2>. QED  BY <2>3, <2>4
<1>10. \A m \in down' : m \in down \/ (drained /\ m \in entries[g])
  BY <1>2
<1>11. DownIsRetired'
  BY <1>2, <1>10 DEF IInv, DownIsRetired
<1>12. PinnedGenerationLives'
  <2>. SUFFICES ASSUME process = "serving", NEW c \in Dispatches, dispatch'[c].gen # None
                PROVE  /\ dispatch'[c].gen \in (kept' \cup {current}) \ retired'
                       /\ dispatch'[c].module \in entries[dispatch'[c].gen]
                       /\ dispatch'[c].module \in down' =>
                            \E h \in retired' : h # dispatch'[c].gen /\ dispatch'[c].module \in entries[h]
    BY <1>2 DEF PinnedGenerationLives
  <2>1. c # d /\ dispatch'[c] = dispatch[c]
    BY <1>3
  <2>2. /\ dispatch[c].gen \in (kept \cup {current}) \ retired
        /\ dispatch[c].module \in entries[dispatch[c].gen]
        /\ dispatch[c].module \in down =>
             \E h \in retired : h # dispatch[c].gen /\ dispatch[c].module \in entries[h]
    BY <2>1 DEF IInv, PinnedGenerationLives
  <2>3. drained => dispatch[c].gen # g
    <3>. SUFFICES ASSUME drained, dispatch[c].gen = g PROVE FALSE
      OBVIOUS
    <3>1. Cardinality(Pinning(g)) >= 2
      BY <1>0, <2>1, TwoPins
    <3>2. inflight[g] <= 1 /\ inflight[g] = Cardinality(Pinning(g))
      BY DEF drained, IInv, InflightExact
    <3>. QED  BY <3>1, <3>2, PinningIsFinite
  <2>4. dispatch[c].module \in down' =>
          \E h \in retired' : h # dispatch[c].gen /\ dispatch[c].module \in entries[h]
    BY <1>2, <1>10, <2>2, <2>3
  <2>. QED  BY <1>2, <2>1, <2>2, <2>3, <2>4
<1>13. BuiltinsAlwaysServed' /\ ImportsAreWhole'
  BY <1>2 DEF IInv, BuiltinsAlwaysServed, ImportsAreWhole, KeysOf
<1>. QED  BY <1>4, <1>5, <1>6, <1>7, <1>9, <1>11, <1>12, <1>13 DEF IInv

\* Shutdown ends the serving of the process, and with it what is promised.
LEMMA ShutdownIInv ==
  ASSUME IInv, ShutdownCurrent \/ ShutdownOld
  PROVE  IInv'
<1>1. /\ UNCHANGED <<file, current, inflight, dispatch, reload>>
      /\ kept' \subseteq kept /\ process' \in {"closing", "closed"}
  BY DEF ShutdownCurrent, ShutdownOld
<1>2. \A g : Pinning(g)' = Pinning(g)
  BY <1>1 DEF Pinning
<1>3. TypeOK'
  <2>1. \A g \in Generations : entries[g] \subseteq Modules
    BY DEF IInv, TypeOK
  <2>2. kept \subseteq Generations /\ current \in Generations /\ down \subseteq Modules
        /\ retired \subseteq Generations
    BY DEF IInv, TypeOK
  <2>3. down' \subseteq Modules /\ retired' \subseteq Generations
    BY <2>1, <2>2 DEF ShutdownCurrent, ShutdownOld
  <2>4. entries' \in [Generations -> SUBSET Modules]
    BY DEF IInv, TypeOK, ShutdownCurrent, ShutdownOld
  <2>. QED  BY <1>1, <2>3, <2>4 DEF IInv, TypeOK
<1>4. PinsAreRunning' /\ OldIsOld' /\ PinnedIsNotEmpty'
  BY <1>1 DEF IInv, PinsAreRunning, OldIsOld, PinnedIsNotEmpty
<1>5. InflightExact'
  BY <1>1, <1>2 DEF IInv, InflightExact
<1>6. PinnedGenerationLives' /\ BuiltinsAlwaysServed' /\ DownIsRetired'
  BY <1>1 DEF PinnedGenerationLives, BuiltinsAlwaysServed, DownIsRetired
<1>7. ImportsAreWhole'
  BY <1>1 DEF IInv, ImportsAreWhole, KeysOf
<1>. QED  BY <1>3, <1>4, <1>5, <1>6, <1>7 DEF IInv
-----------------------------------------------------------------------------
\* The inductive invariant holds in every reachable state.
THEOREM CatalogInvariant == Spec => []IInv
<1>1. Init => IInv
  BY InitIInv
<1>2. IInv /\ [Next]_vars => IInv'
  <2>. SUFFICES ASSUME IInv, [Next]_vars PROVE IInv'
    OBVIOUS
  <2>1. ASSUME NEW x \in Reloads,
               StartReload(x) \/ Load(x) \/ Scan(x) \/ ScanFails(x) \/ Merge(x)
        PROVE  IInv'
    BY <2>1, StartReloadIInv, LoadIInv, ScanIInv, MergeIInv
  <2>2. ASSUME NEW d \in Dispatches, NEW key \in Keys, AcquireGeneration(d, key)
        PROVE  IInv'
    BY <2>2, AcquireIInv
  <2>3. ASSUME NEW d \in Dispatches, ReleaseGeneration(d)
        PROVE  IInv'
    BY <2>3, ReleaseIInv
  <2>4. CASE ShutdownCurrent \/ ShutdownOld
    BY <2>4, ShutdownIInv
  <2>5. ASSUME NEW k \in Keys, EditFile(k)
        PROVE  IInv'
    BY <2>5, EditFileIInv
  <2>6. CASE UNCHANGED vars
    <3>1. TypeOK' /\ ImportsAreWhole'
      BY <2>6 DEF vars, IInv, TypeOK, ImportsAreWhole, KeysOf
    <3>. QED  BY <2>6, <3>1, NothingMoves DEF vars
  <2>. QED  BY <2>1, <2>2, <2>3, <2>4, <2>5, <2>6 DEF Next
<1>. QED  BY <1>1, <1>2, PTL DEF Spec

\* Type correctness of the catalog.
THEOREM CatalogTypeOK == Spec => []TypeOK
<1>1. IInv => TypeOK
  BY DEF IInv
<1>. QED  BY <1>1, CatalogInvariant, PTL

\* The in-flight count of the current and of every old generation is the
\* number of dispatches that pin it (acquireGeneration, releaseGeneration, load).
THEOREM InflightCountsPins == Spec => []InflightExact
<1>1. IInv => InflightExact
  BY DEF IInv
<1>. QED  BY <1>1, CatalogInvariant, PTL

\* A running dispatch keeps its generation and its module; the module's
\* shutdown() runs only on behalf of another generation that shared it.
THEOREM PinnedGenerationsLive == Spec => []PinnedGenerationLives
<1>1. IInv => PinnedGenerationLives
  BY DEF IInv
<1>. QED  BY <1>1, CatalogInvariant, PTL

\* The last release of a kept generation finds its counter at one, whatever
\* load() did with it: the generation is retired in the same step.
THEOREM UsedGenerationsRetire == Spec => UsedGenerationRetires
<1>1. IInv /\ [Next]_vars => [LastReleaseRetires]_vars
  <2>. SUFFICES ASSUME IInv, [Next]_vars, NEW g \in kept, Pinning(g) # {}, Pinning(g)' = {}
                PROVE  g \in retired' \ kept'
    BY DEF LastReleaseRetires
  <2>1. PICK d \in Dispatches : dispatch[d].gen = g /\ dispatch'[d].gen # g
    BY DEF Pinning
  <2>2. /\ g \in Generations /\ g # None /\ g # current
        /\ dispatch \in [Dispatches -> DispatchRecords]
        /\ inflight[g] = Cardinality(Pinning(g))
    BY GenerationFacts DEF IInv, TypeOK, OldIsOld, InflightExact
  <2>3. PICK c \in Dispatches : ReleaseGeneration(c)
    <3>1. \A c \in Dispatches, key \in Keys : AcquireGeneration(c, key) => dispatch'[d] = dispatch[d]
      BY <2>1, <2>2 DEF AcquireGeneration
    <3>2. dispatch' # dispatch
      BY <2>1
    <3>. QED  BY <2>1, <3>1, <3>2 DEF Next, vars, EditFile, StartReload, Load, Scan, ScanFails, Merge,
                ShutdownCurrent, ShutdownOld
  <2>4. c = d
    BY <2>1, <2>2, <2>3 DEF ReleaseGeneration, Unpin
  <2>5. inflight[g] <= 1
    <3>1. Cardinality(Pinning(g)') = Cardinality(Pinning(g)) - 1
      BY <2>1, <2>2, <2>3, <2>4, UnpinOne DEF IInv, ReleaseGeneration
    <3>2. Cardinality(Pinning(g)') = 0
      BY FS_EmptySet
    <3>. QED  BY <2>2, <3>1, <3>2, PinningIsFinite
  <2>. QED  BY <2>1, <2>2, <2>3, <2>4, <2>5 DEF ReleaseGeneration
<1>. QED  BY <1>1, CatalogInvariant, PTL DEF Spec, UsedGenerationRetires

\* Built-in backends that load are served in every phase of every reload.
THEOREM BuiltinsServed == Spec => []BuiltinsAlwaysServed
<1>1. IInv => BuiltinsAlwaysServed
  BY DEF IInv
<1>. QED  BY <1>1, CatalogInvariant, PTL

-----------------------------------------------------------------------------
(* The catalog of gateway middleware. *)

HIDE CatalogAssumption

Places == [pc : {"idle", "loading", "extending"}, at : Nat \ {0}, 
           old : MapIds \cup {NoMap}, oldGen : Nat]

RescanTyped ==
  /\ heap \in [MapIds -> SUBSET ModuleKeys]
  /\ cur \in MapIds /\ fresh \in Nat \ {0} /\ gen \in Nat
  /\ prev \in [map : MapIds \cup {NoMap}, gen : Nat]
  /\ rescan \in [Rescans -> Places]
  /\ overlapped \in BOOLEAN

\* The map a rescan found is one; only no generation has no map.
FoundIsMap ==
  /\ \A x \in Loading : rescan[x].old \in MapIds
  /\ prev.map = NoMap => prev = NoPrevious

\* Maps that are not being filled are whole, and the one that is being filled
\* has what its rescan installed; a rescan that fails restores a whole map.
Whole(m) == Bound \subseteq heap[m]

Filling ==
  /\ \A x, y \in Loading : x = y
  /\ Loading = {} => Whole(cur)
  /\ prev.map # NoMap => Whole(prev.map)
  /\ \A x \in Loading :
       /\ Whole(rescan[x].old)
       /\ \A i \in 1 .. Len(Files) : i < rescan[x].at => Files[i] \in heap[cur]

(***************************************************************************)
(* The inductive invariant.  That the previous generation is whole needs   *)
(* that what a rescan found was, and this in turn that the map its         *)
(* predecessor left has every module: the count `at` of those installed.   *)
(***************************************************************************)
RescanInv == RescanTyped /\ FoundIsMap /\ (~overlapped => Filling)

-----------------------------------------------------------------------------
\* A rescan that goes on to another place, and keeps what it found.
LEMMA RescanMoved ==
  ASSUME NEW p \in Places, NEW pc \in {"idle", "loading", "extending"}, NEW at \in Nat \ {0}
  PROVE  [p EXCEPT !.pc = pc] \in Places /\ [p EXCEPT !.at = at] \in Places
BY DEF Places

\* Boot left a whole catalog.
LEMMA RescanInitInv == MiddlewareInit => RescanInv
<1>. SUFFICES ASSUME MiddlewareInit PROVE RescanInv
  OBVIOUS
<1>1. Loading = {}
  BY DEF MiddlewareInit, Loading
<1>2. 1 \in MapIds /\ Bound \subseteq ModuleKeys
  BY RescanAssumption DEF MapIds, ModuleKeys
<1>3. RescanTyped
  <2>1. heap \in [MapIds -> SUBSET ModuleKeys]
    BY DEF MiddlewareInit
  <2>2. rescan \in [Rescans -> Places]
    BY DEF MiddlewareInit, Places
  <2>3. prev \in [map : MapIds \cup {NoMap}, gen : Nat]
    BY DEF MiddlewareInit, NoPrevious
  <2>4. cur \in MapIds /\ fresh \in Nat \ {0} /\ gen \in Nat
    BY <1>2 DEF MiddlewareInit
  <2>5. overlapped \in BOOLEAN
    BY DEF MiddlewareInit
  <2>. QED  BY <2>1, <2>2, <2>3, <2>4, <2>5 DEF RescanTyped
<1>4. FoundIsMap
  BY <1>1 DEF MiddlewareInit, FoundIsMap
<1>5. Filling
  BY <1>1, <1>2 DEF MiddlewareInit, Filling, Whole, NoPrevious
<1>. QED  BY <1>3, <1>4, <1>5 DEF RescanInv

\* A rescan starts: the map it found stays whole, its own is empty.
LEMMA StartRescanStep ==
  ASSUME RescanInv, NEW x \in Rescans, StartRescan(x)
  PROVE  RescanInv'
<1>1. fresh \in MapIds
  BY DEF RescanInv, RescanTyped, StartRescan, MapIds
<1>2. /\ rescan'[x] = [pc |-> "loading", at |-> 1, old |-> cur, oldGen |-> gen]
      /\ \A y \in Rescans \ {x} : rescan'[y] = rescan[y]
      /\ UNCHANGED <<heap, prev, gen>>
  BY DEF RescanInv, RescanTyped, StartRescan
<1>3. RescanTyped'
  BY <1>1 DEF RescanInv, RescanTyped, StartRescan, Places
<1>4. Loading' = Loading \cup {x}
  BY <1>2 DEF Loading
<1>5. FoundIsMap'
  BY <1>2, <1>4 DEF RescanInv, RescanTyped, FoundIsMap, Loading
<1>6. ASSUME ~overlapped'
      PROVE  Filling'
  <2>1. ~overlapped /\ Loading = {} /\ Filling
    BY <1>6 DEF StartRescan, RescanInv, RescanTyped
  <2>2. Loading' = {x} /\ Whole(cur)
    BY <1>4, <2>1 DEF Filling
  <2>. QED  BY <1>2, <2>1, <2>2, RescanAssumption DEF Filling, Whole
<1>. QED  BY <1>3, <1>5, <1>6 DEF RescanInv

\* A module is set in the current map: maps only grow.
LEMMA InstallModuleStep ==
  ASSUME RescanInv, NEW x \in Rescans, InstallModule(x)
  PROVE  RescanInv'
<1>1. /\ x \in Loading /\ rescan[x].at \in Nat /\ rescan[x].at <= Len(Files)
      /\ rescan'[x] = [rescan[x] EXCEPT !.at = @ + 1]
      /\ rescan'[x].pc = rescan[x].pc /\ rescan'[x].old = rescan[x].old
      /\ rescan'[x].at = rescan[x].at + 1
      /\ \A y \in Rescans \ {x} : rescan'[y] = rescan[y]
      /\ UNCHANGED <<cur, fresh, gen, prev, overlapped>>
  BY DEF RescanInv, RescanTyped, InstallModule, Loading, Places
<1>2. /\ \A m \in MapIds : heap[m] \subseteq heap'[m]
      /\ rescan[x].at \in 1 .. Len(Files) => Files[rescan[x].at] \in heap'[cur]
  BY DEF RescanInv, RescanTyped, InstallModule
<1>3. Loading' = Loading
  BY <1>1 DEF Loading
<1>4. FoundIsMap'
  BY <1>1, <1>3 DEF RescanInv, FoundIsMap, Loading
<1>5. ASSUME ~overlapped'
      PROVE  Filling'
  <2>1. Filling /\ Loading = {x} /\ FoundIsMap /\ RescanTyped
    BY <1>1, <1>5 DEF RescanInv, Filling
  <2>2. ASSUME NEW i \in 1 .. Len(Files), i < rescan'[x].at
        PROVE  Files[i] \in heap'[cur]
    <3>1. i < rescan[x].at \/ i = rescan[x].at
      BY <1>1, <2>2, RescanAssumption
    <3>. QED  BY <1>2, <2>1, <2>2, <3>1 DEF Filling, RescanTyped
  <2>3. \A m \in MapIds : Whole(m) => Whole(m)'
    BY <1>2 DEF Whole
  <2>. QED  BY <1>1, <1>3, <2>1, <2>2, <2>3 DEF Filling, FoundIsMap, RescanTyped, Whole
<1>6. RescanTyped'
  <2>1. rescan[x].at \in Nat \ {0}
    BY DEF RescanInv, RescanTyped, Places
  <2>2. Files[rescan[x].at] \in ModuleKeys
    BY <1>1, <2>1 DEF ModuleKeys
  <2>3. heap' \in [MapIds -> SUBSET ModuleKeys]
    BY <2>2 DEF RescanInv, RescanTyped, InstallModule
  <2>4. rescan' \in [Rescans -> Places]
    <3>1. rescan' = [rescan EXCEPT ![x] = [rescan[x] EXCEPT !.at = rescan[x].at + 1]]
      BY DEF InstallModule, RescanInv, RescanTyped
    <3>2. [rescan[x] EXCEPT !.at = rescan[x].at + 1] \in Places
      <4>1. rescan[x].at + 1 \in Nat \ {0} /\ rescan[x] \in Places
        BY <2>1 DEF RescanInv, RescanTyped
      <4>. QED  BY <4>1, RescanMoved
    <3>. QED  BY <3>1, <3>2 DEF RescanInv, RescanTyped
  <2>. QED  BY <1>1, <2>3, <2>4 DEF RescanInv, RescanTyped
<1>. QED  BY <1>4, <1>5, <1>6 DEF RescanInv

\* A rescan is done: the map it found is the previous generation's.
LEMMA RotateStep ==
  ASSUME RescanInv, NEW x \in Rescans, Rotate(x)
  PROVE  RescanInv'
<1>1. /\ x \in Loading /\ rescan[x].at > Len(Files)
      /\ rescan'[x].pc = "extending" /\ \A y \in Rescans \ {x} : rescan'[y] = rescan[y]
      /\ prev' = [map |-> rescan[x].old, gen |-> rescan[x].oldGen]
      /\ gen' = rescan[x].oldGen + 1
      /\ UNCHANGED <<heap, cur, fresh, overlapped>>
  BY DEF RescanInv, RescanTyped, Rotate, Loading, Places
<1>2. Loading' = Loading \ {x}
  BY <1>1 DEF Loading
<1>3. rescan[x].old \in MapIds /\ rescan[x].oldGen \in Nat
  BY <1>1 DEF RescanInv, RescanTyped, FoundIsMap, Places, Loading
<1>4. RescanTyped'
  <2>1. rescan' \in [Rescans -> Places]
    <3>1. rescan' = [rescan EXCEPT ![x] = [rescan[x] EXCEPT !.pc = "extending", !.at = 1]]
      BY DEF Rotate, RescanInv, RescanTyped
    <3>. DEFINE p == [rescan[x] EXCEPT !.pc = "extending"]
    <3>2. rescan' = [rescan EXCEPT ![x] = [p EXCEPT !.at = 1]]
      BY <3>1
    <3>3. p \in Places
      BY RescanMoved DEF RescanInv, RescanTyped
    <3>. HIDE DEF p
    <3>4. [p EXCEPT !.at = 1] \in Places
      BY <3>3 DEF Places
    <3>. QED  BY <3>2, <3>4 DEF RescanInv, RescanTyped
  <2>. QED  BY <1>1, <1>3, <2>1 DEF RescanInv, RescanTyped
<1>5. FoundIsMap'
  <2>1. rescan[x].old # NoMap
    BY <1>3, RescanAssumption DEF MapIds, NoMap
  <2>. QED  BY <1>1, <1>2, <2>1 DEF RescanInv, FoundIsMap, Loading
<1>6. ASSUME ~overlapped'
      PROVE  Filling'
  <2>1. Filling /\ Loading = {x}
    BY <1>1, <1>6 DEF RescanInv, Filling
  <2>2. Whole(cur)
    <3>1. \A i \in 1 .. Len(Files) : i < rescan[x].at
      <4>1. rescan[x].at \in Nat
        BY DEF RescanInv, RescanTyped, Places
      <4>. QED  BY <1>1, <4>1, RescanAssumption
    <3>2. \A i \in 1 .. Len(Files) : Files[i] \in heap[cur]
      BY <1>1, <2>1, <3>1 DEF Filling
    <3>. QED  BY <3>2, RescanAssumption DEF Whole
  <2>. QED  BY <1>1, <1>2, <2>1, <2>2 DEF Filling, Whole
<1>. QED  BY <1>4, <1>5, <1>6 DEF RescanInv

\* A rescan fails: the map it found is current again.
LEMMA FailStep ==
  ASSUME RescanInv, NEW x \in Rescans, Fail(x)
  PROVE  RescanInv'
<1>1. /\ x \in Loading /\ rescan'[x].pc = "idle"
      /\ \A y \in Rescans \ {x} : rescan'[y] = rescan[y]
      /\ cur' = rescan[x].old /\ gen' = rescan[x].oldGen
      /\ UNCHANGED <<heap, fresh, prev, overlapped>>
  BY DEF RescanInv, RescanTyped, Fail, Loading, Places
<1>2. Loading' = Loading \ {x}
  BY <1>1 DEF Loading
<1>3. rescan[x].old \in MapIds /\ rescan[x].oldGen \in Nat
  BY <1>1 DEF RescanInv, RescanTyped, FoundIsMap, Places, Loading
<1>4. RescanTyped'
  <2>1. rescan' \in [Rescans -> Places]
    BY RescanMoved DEF RescanInv, RescanTyped, Fail
  <2>. QED  BY <1>1, <1>3, <2>1 DEF RescanInv, RescanTyped
<1>5. FoundIsMap'
  BY <1>1, <1>2 DEF RescanInv, FoundIsMap, Loading
<1>6. ASSUME ~overlapped'
      PROVE  Filling'
  <2>1. Filling /\ Loading = {x}
    BY <1>1, <1>6 DEF RescanInv, Filling
  <2>. QED  BY <1>1, <1>2, <2>1 DEF Filling, Whole
<1>. QED  BY <1>4, <1>5, <1>6 DEF RescanInv

\* Extensions are added to what is there.
LEMMA ExtendStep ==
  ASSUME RescanInv, NEW x \in Rescans, Extend(x)
  PROVE  RescanInv'
<1>1. /\ rescan[x].pc = "extending" /\ rescan'[x].pc \in {"extending", "idle"}
      /\ \A y \in Rescans \ {x} : rescan'[y] = rescan[y]
      /\ UNCHANGED <<cur, fresh, gen, prev, overlapped>>
  BY DEF RescanInv, RescanTyped, Extend, Places
<1>2. \A m \in MapIds : heap[m] \subseteq heap'[m]
  BY DEF RescanInv, RescanTyped, Extend
<1>3. x \notin Loading /\ Loading' = Loading
  BY <1>1 DEF Loading
<1>4. RescanTyped'
  <2>1. rescan[x].at \in Nat \ {0}
    BY DEF RescanInv, RescanTyped, Places
  <2>2. rescan[x].at <= Len(ExtFiles) => ExtFiles[rescan[x].at] \in ModuleKeys
    BY <2>1, RescanAssumption DEF ModuleKeys
  <2>3. heap' \in [MapIds -> SUBSET ModuleKeys]
    BY <2>2 DEF RescanInv, RescanTyped, Extend
  <2>4. rescan' \in [Rescans -> Places]
    <3>1. rescan[x].at + 1 \in Nat \ {0} /\ rescan[x] \in Places
      BY <2>1 DEF RescanInv, RescanTyped
    <3>2. /\ [rescan[x] EXCEPT !.at = rescan[x].at + 1] \in Places
          /\ [rescan[x] EXCEPT !.pc = "idle"] \in Places
      BY <3>1, RescanMoved
    <3>3. \/ rescan' = [rescan EXCEPT ![x] = [rescan[x] EXCEPT !.at = rescan[x].at + 1]]
          \/ rescan' = [rescan EXCEPT ![x] = [rescan[x] EXCEPT !.pc = "idle"]]
      BY DEF Extend, RescanInv, RescanTyped
    <3>. QED  BY <3>2, <3>3 DEF RescanInv, RescanTyped
  <2>. QED  BY <1>1, <2>3, <2>4 DEF RescanInv, RescanTyped
<1>5. FoundIsMap'
  BY <1>1, <1>3 DEF RescanInv, FoundIsMap, Loading
<1>6. ASSUME ~overlapped'
      PROVE  Filling'
  <2>1. Filling /\ FoundIsMap /\ RescanTyped
    BY <1>1, <1>6 DEF RescanInv
  <2>2. \A m \in MapIds : Whole(m) => Whole(m)'
    BY <1>2 DEF Whole
  <2>3. /\ \A y \in Loading : rescan'[y] = rescan[y] /\ rescan[y].old \in MapIds
        /\ cur \in MapIds /\ prev.map \in MapIds \cup {NoMap}
    BY <1>1, <1>3, <2>1 DEF FoundIsMap, RescanTyped, Loading
  <2>4. \A i \in 1 .. Len(Files) : Files[i] \in heap[cur] => Files[i] \in heap'[cur]
    BY <1>2, <2>3
  <2>. QED  BY <1>1, <1>3, <2>1, <2>2, <2>3, <2>4 DEF Filling, Whole
<1>. QED  BY <1>4, <1>5, <1>6 DEF RescanInv

\* Every step keeps the invariant.
LEMMA RescanNextInv == RescanInv /\ [MiddlewareNext]_middlewareVars => RescanInv'
<1>. SUFFICES ASSUME RescanInv, [MiddlewareNext]_middlewareVars PROVE RescanInv'
  OBVIOUS
<1>1. CASE UNCHANGED middlewareVars
  BY <1>1 DEF middlewareVars, RescanInv, RescanTyped, FoundIsMap, Filling, Whole, Loading
<1>2. CASE ExpirePrevious
  <2>1. prev' = NoPrevious /\ UNCHANGED <<heap, cur, fresh, gen, rescan, overlapped>>
    BY <1>2 DEF ExpirePrevious
  <2>2. RescanTyped'
    BY <2>1 DEF RescanInv, RescanTyped, NoPrevious
  <2>. QED  BY <2>1, <2>2 DEF RescanInv, FoundIsMap, Filling, Whole, Loading, NoPrevious
<1>3. ASSUME NEW r \in Resolvers, ResolveGatewayChain(r)
      PROVE  RescanInv'
  BY <1>3 DEF ResolveGatewayChain, RescanInv, RescanTyped, FoundIsMap, Filling, Whole, Loading
<1>. QED
  BY <1>1, <1>2, <1>3, StartRescanStep, InstallModuleStep, RotateStep, FailStep, ExtendStep
    DEF MiddlewareNext

\* The inductive invariant holds in every reachable state.
THEOREM MiddlewareInvariant == MiddlewareSpec => []RescanInv
<1>. QED  BY RescanInitInv, RescanNextInv, PTL DEF MiddlewareSpec

\* Whatever rescans do and wherever they fail, as long as they do not overlap:
\* a bound policy is hidden only by a rescan no previous generation covers.
THEOREM OnlyUncoveredRescansHide == MiddlewareSpec => []OnlyUncoveredRescanHides
<1>1. RescanInv => OnlyUncoveredRescanHides
  BY DEF RescanInv, FoundIsMap, Filling, Whole, OnlyUncoveredRescanHides, Visible
<1>. QED  BY <1>1, MiddlewareInvariant, PTL

\* A request whose chain misses a policy resolved it during such a rescan.
ChainsComplete ==
  \A r \in Resolvers : chain'[r] # chain[r] /\ ~overlapped /\ chain'[r] # Bound
                        => Loading # {} /\ prev = NoPrevious

\* Requests that resolve their chain at any other time miss no policy.
THEOREM ResolvedChainsComplete == MiddlewareSpec => [][ChainsComplete]_middlewareVars
<1>1. RescanInv /\ [MiddlewareNext]_middlewareVars => [ChainsComplete]_middlewareVars
  <2>1. SUFFICES ASSUME RescanInv, MiddlewareNext, NEW r \in Resolvers, chain'[r] # chain[r],
                        ~overlapped, Loading = {} \/ prev # NoPrevious
                 PROVE  chain'[r] = Bound
    BY DEF ChainsComplete
  <2>2. PICK q \in Resolvers : ResolveGatewayChain(q)
    BY <2>1 DEF MiddlewareNext, StartRescan, InstallModule, Rotate, Fail, Extend, ExpirePrevious
  <2>3. Bound \subseteq Visible
    BY <2>1 DEF RescanInv, FoundIsMap, Filling, Whole, Visible
  <2>. QED  BY <2>1, <2>2, <2>3 DEF ResolveGatewayChain
<1>. QED  BY <1>1, MiddlewareInvariant, PTL DEF MiddlewareSpec

-----------------------------------------------------------------------------
(* The runtime snapshot. *)

JobType == [who : Writers, op : Operations]

Contents ==
  [row : Nat, children : Nat \cup {Half}, cooled : SUBSET Children, at : [Tables -> Nat]]

Rows == [row : Nat, children : Nat \cup {Half}, cooled : SUBSET Children, commits : Nat]

Typed ==
  /\ db \in Rows /\ saved \in Nat
  /\ lock \in Seq(JobType) /\ ready \in Seq(Writers) /\ scanning \in SUBSET Writers
  /\ loader \in [Writers -> Contents] /\ installed \in Contents

\* Statements that come first in no batch a caller enqueues.
Late == {"children", "cooled", "inTransaction"}

\* The SELECTs of a refresh stand one behind the other, a transaction holds
\* the head, and only the SELECTs of one refresh share a caller.
Fit(q) ==
  \A i \in 1 .. Len(q) :
    /\ q[i].op = "children" => i = 1 \/ q[i - 1] = Job(q[i].who, "row")
    /\ q[i].op = "cooled" => i = 1 \/ q[i - 1] = Job(q[i].who, "children")
    /\ q[i].op = "inTransaction" => i = 1
    /\ \A j \in i + 1 .. Len(q) : q[j].who = q[i].who => q[i].op \in {"row", "children"}

Queued(q, w)  == \E i \in 1 .. Len(q) : q[i].who = w
InReady(q, w) == \E i \in 1 .. Len(q) : q[i] = w

\* What a caller w enqueues in one go.
Batch(b, w) ==
  /\ b \in Seq(JobType) /\ b # <<>> /\ Fit(b)
  /\ Head(b).op \notin Late
  /\ \A i \in 1 .. Len(b) : b[i].who = w

\* A caller is in one place at a time.
Apart ==
  \A w \in Writers :
    /\ Queued(lock, w) => ~InReady(ready, w) /\ w \notin scanning
    /\ InReady(ready, w) => w \notin scanning

\* What is known when the statement at the head of the queue has its turn.
HeadTells ==
  /\ db.children = Half <=> lock # <<>> /\ Head(lock).op = "inTransaction"
  /\ lock # <<>> /\ Head(lock).op = "children" =>
       loader[Head(lock).who].at["row"] = db.commits
  /\ lock # <<>> /\ Head(lock).op = "cooled" =>
       /\ loader[Head(lock).who].at["row"] = db.commits
       /\ loader[Head(lock).who].at["children"] = db.commits
       /\ loader[Head(lock).who].children # Half

OneInstant(x) == (\A t, u \in Tables : x.at[t] = x.at[u]) /\ x.children # Half

WholeReads == \A i \in 1 .. Len(ready) : OneInstant(loader[ready[i]])

\* The inductive invariant.
QueueInv == Typed /\ Fit(lock) /\ Apart /\ HeadTells /\ WholeReads /\ OneInstant(installed)

-----------------------------------------------------------------------------
\* When the head of the queue leaves, what follows still fits, and a SELECT
\* that comes to the head follows the one before it in its refresh.
LEMMA TailFits ==
  ASSUME NEW q \in Seq(JobType), Fit(q), q # <<>>
  PROVE  /\ Head(q) \in JobType /\ Tail(q) \in Seq(JobType) /\ Fit(Tail(q))
         /\ \A w : Queued(Tail(q), w) => Queued(q, w)
         /\ Queued(q, Head(q).who)
         /\ Head(q).op \notin {"row", "children"} => ~Queued(Tail(q), Head(q).who)
         /\ Tail(q) # <<>> =>
              /\ Head(Tail(q)).op # "inTransaction"
              /\ Head(Tail(q)).op = "children" => Head(q) = Job(Head(Tail(q)).who, "row")
              /\ Head(Tail(q)).op = "cooled" => Head(q) = Job(Head(Tail(q)).who, "children")
<1>. DEFINE n == Len(q)
            p == Tail(q)
            m == Len(p)
<1>1. n \in Nat \ {0} /\ p \in Seq(JobType) /\ m = n - 1 /\ Head(q) = q[1] /\ Head(q) \in JobType
  BY HeadTailProperties, LenProperties
<1>2. \A i \in 1 .. m : p[i] = q[i + 1]
  BY HeadTailProperties
<1>3. p # <<>> => m \in Nat \ {0} /\ Head(p) = p[1]
  BY <1>1, EmptySeq
<1>. HIDE DEF p
<1>4. Fit(p)
  <2>. SUFFICES ASSUME NEW i \in 1 .. m
       PROVE  /\ p[i].op = "children" => i = 1 \/ p[i - 1] = Job(p[i].who, "row")
              /\ p[i].op = "cooled" => i = 1 \/ p[i - 1] = Job(p[i].who, "children")
              /\ p[i].op = "inTransaction" => i = 1
              /\ \A j \in i + 1 .. m : p[j].who = p[i].who => p[i].op \in {"row", "children"}
    BY DEF Fit
  <2>. HIDE DEF m, n
  <2>1. i \in Nat /\ i + 1 \in 1 .. n /\ i + 1 # 1 /\ p[i] = q[i + 1] /\ (i + 1) - 1 = i
    BY <1>1, <1>2
  <2>2. i # 1 => i - 1 \in 1 .. m /\ p[i - 1] = q[i]
    BY <1>1, <1>2, <2>1
  <2>3. /\ q[i + 1].op = "children" => q[i] = Job(q[i + 1].who, "row")
        /\ q[i + 1].op = "cooled" => q[i] = Job(q[i + 1].who, "children")
        /\ q[i + 1].op # "inTransaction"
        /\ \A j \in i + 2 .. n : q[j].who = q[i + 1].who => q[i + 1].op \in {"row", "children"}
    BY <2>1 DEF Fit, n
  <2>4. ASSUME NEW j \in i + 1 .. m, p[j].who = p[i].who  PROVE p[i].op \in {"row", "children"}
    <3>1. j + 1 \in i + 2 .. n /\ p[j] = q[j + 1]
      BY <1>1, <1>2, <2>1
    <3>. QED  BY <2>1, <2>3, <2>4, <3>1
  <2>. QED  BY <2>1, <2>2, <2>3, <2>4
<1>5. \A w : Queued(p, w) => Queued(q, w)
  <2>. SUFFICES ASSUME NEW w, NEW i \in 1 .. m, p[i].who = w  PROVE Queued(q, w)
    BY DEF Queued
  <2>. HIDE DEF m, n
  <2>1. i + 1 \in 1 .. n /\ p[i] = q[i + 1]
    BY <1>1, <1>2
  <2>. QED  BY <2>1 DEF Queued, n
<1>6. Queued(q, Head(q).who)
  BY <1>1 DEF Queued
<1>7. Head(q).op \notin {"row", "children"} => ~Queued(p, Head(q).who)
  <2>. SUFFICES ASSUME Head(q).op \notin {"row", "children"}, NEW i \in 1 .. m, p[i].who = Head(q).who
                PROVE  FALSE
    BY DEF Queued
  <2>. HIDE DEF m
  <2>1. i + 1 \in 2 .. n /\ p[i] = q[i + 1] /\ 1 \in 1 .. n
    BY <1>1, <1>2
  <2>. QED  BY <1>1, <2>1 DEF Fit
<1>8. ASSUME p # <<>>
      PROVE  /\ Head(p).op # "inTransaction"
             /\ Head(p).op = "children" => Head(q) = Job(Head(p).who, "row")
             /\ Head(p).op = "cooled" => Head(q) = Job(Head(p).who, "children")
  <2>. HIDE DEF m
  <2>1. 2 \in 1 .. n /\ Head(p) = q[2]
    BY <1>1, <1>2, <1>3, <1>8
  <2>. QED  BY <1>1, <2>1 DEF Fit
<1>. QED  BY <1>1, <1>4, <1>5, <1>6, <1>7, <1>8 DEF p

\* A caller that is not queued enqueues a batch.
LEMMA BatchFits ==
  ASSUME NEW q \in Seq(JobType), Fit(q), NEW w \in Writers, ~Queued(q, w), NEW b, Batch(b, w)
  PROVE  /\ q \o b \in Seq(JobType) /\ Fit(q \o b) /\ q \o b # <<>>
         /\ q = <<>> => Head(q \o b).op \notin Late
         /\ q # <<>> => Head(q \o b) = Head(q)
         /\ \A v : Queued(q \o b, v) => v = w \/ Queued(q, v)
<1>. DEFINE n == Len(q)
            k == Len(b)
            p == q \o b
<1>1. b \in Seq(JobType) /\ n \in Nat /\ k \in Nat \ {0} /\ p \in Seq(JobType) /\ Len(p) = n + k
  BY ConcatProperties, LenProperties, EmptySeq DEF Batch
<1>2. \A i \in 1 .. n + k : p[i] = IF i <= n THEN q[i] ELSE b[i - n]
  BY <1>1, ConcatProperties
<1>3. p # <<>> /\ Head(p) = p[1] /\ (q # <<>> => n # 0 /\ Head(q) = q[1]) /\ (q = <<>> => n = 0) /\ Head(b) = b[1]
  BY <1>1, EmptySeq
<1>. HIDE DEF p
<1>4. /\ \A i \in 1 .. k : b[i].who = w
      /\ b[1].op \notin Late /\ Fit(b)
      /\ \A i \in 1 .. n : q[i].who # w
  BY <1>3 DEF Batch, Queued
<1>5. Fit(p)
  <2>. SUFFICES ASSUME NEW i \in 1 .. n + k
       PROVE  /\ p[i].op = "children" => i = 1 \/ p[i - 1] = Job(p[i].who, "row")
              /\ p[i].op = "cooled" => i = 1 \/ p[i - 1] = Job(p[i].who, "children")
              /\ p[i].op = "inTransaction" => i = 1
              /\ \A j \in i + 1 .. n + k : p[j].who = p[i].who => p[i].op \in {"row", "children"}
    BY <1>1 DEF Fit
  <2>1. CASE i <= n
    <3>1. /\ q[i].op = "children" => i = 1 \/ q[i - 1] = Job(q[i].who, "row")
          /\ q[i].op = "cooled" => i = 1 \/ q[i - 1] = Job(q[i].who, "children")
          /\ q[i].op = "inTransaction" => i = 1
          /\ \A j \in i + 1 .. n : q[j].who = q[i].who => q[i].op \in {"row", "children"}
      BY <1>1, <2>1 DEF Fit
    <3>. HIDE DEF n, k
    <3>2. p[i] = q[i] /\ (i # 1 => p[i - 1] = q[i - 1])
      BY <1>1, <1>2, <2>1
    <3>3. ASSUME NEW j \in i + 1 .. n + k, p[j].who = p[i].who  PROVE p[i].op \in {"row", "children"}
      <4>1. CASE j <= n
        <5>1. p[j] = q[j] /\ j \in i + 1 .. n
          BY <1>1, <1>2, <4>1
        <5>. QED  BY <3>1, <3>2, <3>3, <5>1
      <4>2. CASE j > n
        <5>1. p[j] = b[j - n] /\ j - n \in 1 .. k
          BY <1>1, <1>2, <4>2
        <5>2. q[i].who # w
          BY <1>1, <1>4, <2>1
        <5>. QED  BY <1>4, <3>2, <3>3, <5>1, <5>2
      <4>. QED  BY <1>1, <4>1, <4>2
    <3>. QED  BY <3>1, <3>2, <3>3
  <2>2. CASE i > n
    <3>. DEFINE h == i - n
    <3>0. h \in 1 .. k
      BY <1>1, <2>2
    <3>1. /\ b[h].op = "children" => h = 1 \/ b[h - 1] = Job(b[h].who, "row")
          /\ b[h].op = "cooled" => h = 1 \/ b[h - 1] = Job(b[h].who, "children")
          /\ b[h].op = "inTransaction" => h = 1
          /\ \A j \in h + 1 .. k : b[j].who = b[h].who => b[h].op \in {"row", "children"}
      BY <1>4, <3>0 DEF Fit
    <3>. HIDE DEF n, k
    <3>2. p[i] = b[h] /\ (h # 1 => p[i - 1] = b[h - 1])
      BY <1>1, <1>2, <2>2
    <3>3. h = 1 => b[h].op \notin Late
      BY <1>4
    <3>4. ASSUME NEW j \in i + 1 .. n + k, p[j].who = p[i].who  PROVE p[i].op \in {"row", "children"}
      <4>1. p[j] = b[j - n] /\ j - n \in h + 1 .. k
        BY <1>1, <1>2, <2>2
      <4>. QED  BY <3>1, <3>2, <3>4, <4>1
    <3>. HIDE DEF h
    <3>. QED  BY <3>1, <3>2, <3>3, <3>4 DEF Late
  <2>. QED  BY <1>1, <2>1, <2>2
<1>6. q = <<>> => Head(p).op \notin Late
  BY <1>1, <1>2, <1>3, <1>4
<1>7. q # <<>> => Head(p) = Head(q)
  BY <1>1, <1>2, <1>3
<1>8. ASSUME NEW v, Queued(p, v)  PROVE v = w \/ Queued(q, v)
  <2>1. PICK i \in 1 .. n + k : p[i].who = v
    BY <1>1, <1>8 DEF Queued
  <2>2. CASE i <= n
    BY <1>1, <1>2, <2>1, <2>2 DEF Queued
  <2>3. CASE i > n
    <3>1. p[i] = b[i - n] /\ i - n \in 1 .. k
      BY <1>1, <1>2, <2>3
    <3>. QED  BY <1>4, <2>1, <3>1
  <2>. QED  BY <1>1, <2>1, <2>2, <2>3
<1>. QED  BY <1>1, <1>3, <1>5, <1>6, <1>7, <1>8 DEF p

\* One statement is a batch, and appending it is enqueueing it.
LEMMA OneIsBatch ==
  ASSUME NEW q \in Seq(JobType), NEW w \in Writers, NEW op \in Operations \ Late
  PROVE  Batch(<<Job(w, op)>>, w) /\ Append(q, Job(w, op)) = q \o <<Job(w, op)>>
<1>1. Job(w, op) \in JobType /\ Job(w, op).op = op /\ Job(w, op).who = w
  BY DEF Job, JobType
<1>. DEFINE b == <<Job(w, op)>>
<1>2. b \in Seq(JobType) /\ Len(b) = 1 /\ b[1] = Job(w, op) /\ b # <<>> /\ Head(b) = Job(w, op)
  BY <1>1
<1>3. Fit(b)
  BY <1>1, <1>2 DEF Fit, Late
<1>4. Append(q, Job(w, op)) = q \o b
  BY <1>1, AppendIsConcat
<1>. QED  BY <1>1, <1>2, <1>3, <1>4 DEF Batch

\* The SELECTs of a refresh are a batch.
LEMMA ReadsAreBatch ==
  ASSUME NEW w \in Writers
  PROVE  Batch(Reads(w), w)
<1>. DEFINE b == Reads(w)
<1>1. /\ Job(w, "row") \in JobType /\ Job(w, "children") \in JobType /\ Job(w, "cooled") \in JobType
  BY DEF Job, JobType, Operations, Tables
<1>2. /\ b \in Seq(JobType) /\ Len(b) = 3 /\ b # <<>> /\ Head(b) = Job(w, "row")
      /\ b[1] = Job(w, "row") /\ b[2] = Job(w, "children") /\ b[3] = Job(w, "cooled")
  BY <1>1 DEF Reads
<1>. HIDE DEF b
<1>3. /\ b[1].op = "row" /\ b[1].who = w /\ b[2].op = "children" /\ b[2].who = w
      /\ b[3].op = "cooled" /\ b[3].who = w
  BY <1>2 DEF Job
<1>4. \A i \in 1 .. Len(b) : i = 1 \/ i = 2 \/ i = 3
  BY <1>2
<1>5. Fit(b)
  <2>. SUFFICES ASSUME NEW i \in 1 .. Len(b)
       PROVE  /\ b[i].op = "children" => i = 1 \/ b[i - 1] = Job(b[i].who, "row")
              /\ b[i].op = "cooled" => i = 1 \/ b[i - 1] = Job(b[i].who, "children")
              /\ b[i].op = "inTransaction" => i = 1
              /\ \A j \in i + 1 .. Len(b) : b[j].who = b[i].who => b[i].op \in {"row", "children"}
    BY DEF Fit
  <2>1. CASE i = 1
    BY <1>3, <2>1
  <2>2. CASE i = 2
    BY <1>2, <1>3, <2>2
  <2>3. CASE i = 3
    BY <1>2, <1>3, <2>3
  <2>. QED  BY <1>4, <2>1, <2>2, <2>3
<1>6. Batch(b, w)
  <2>1. \A i \in 1 .. Len(b) : b[i].who = w
    BY <1>3, <1>4
  <2>2. Head(b).op \notin Late
    BY <1>2 DEF Late, Job
  <2>. QED  BY <1>2, <1>5, <2>1, <2>2 DEF Batch
<1>. QED  BY <1>6 DEF b

-----------------------------------------------------------------------------
\* A caller enqueues a batch; a reload that ends does so too.
LEMMA Enqueue ==
  ASSUME QueueInv, NEW w \in Writers, ~Queued(lock, w), ~InReady(ready, w), NEW b, Batch(b, w),
         lock' = lock \o b, scanning' = scanning \ {w},
         UNCHANGED <<db, saved, loader, ready, installed>>
  PROVE  QueueInv'
<1>1. /\ lock' \in Seq(JobType) /\ Fit(lock') /\ lock' # <<>>
      /\ lock = <<>> => Head(lock').op \notin Late
      /\ lock # <<>> => Head(lock') = Head(lock)
      /\ \A v : Queued(lock', v) => v = w \/ Queued(lock, v)
  BY BatchFits DEF QueueInv, Typed
<1>2. Typed'
  BY <1>1 DEF QueueInv, Typed
<1>3. Apart'
  BY <1>1 DEF QueueInv, Apart
<1>4. HeadTells'
  <2>1. CASE lock = <<>>
    BY <1>1, <2>1 DEF QueueInv, HeadTells, Late
  <2>2. CASE lock # <<>>
    BY <1>1, <2>2 DEF QueueInv, HeadTells
  <2>. QED  BY <2>1, <2>2
<1>5. WholeReads'
  BY DEF QueueInv, WholeReads
<1>. QED  BY <1>1, <1>2, <1>3, <1>4, <1>5 DEF QueueInv

\* A statement that is no SELECT of a refresh leaves the head, and its
\* caller may enqueue what follows from it.
LEMMA StatementRuns ==
  ASSUME QueueInv, lock # <<>>, Head(lock).op \notin Tables,
         db' \in Rows, saved' \in Nat, db'.children # Half,
         lock' = Tail(lock) \/ \E b : Batch(b, Head(lock).who) /\ lock' = Tail(lock) \o b,
         UNCHANGED <<loader, ready, scanning, installed>>
  PROVE  QueueInv'
<1>. DEFINE w == Head(lock).who
<1>1. /\ Head(lock) \in JobType /\ Tail(lock) \in Seq(JobType) /\ Fit(Tail(lock))
      /\ \A v : Queued(Tail(lock), v) => Queued(lock, v)
      /\ Queued(lock, w) /\ ~Queued(Tail(lock), w)
      /\ Tail(lock) # <<>> => Head(Tail(lock)).op \notin Late
  <2>1. /\ Head(lock).op \notin {"row", "children"}
        /\ \A v : Head(lock) # Job(v, "row") /\ Head(lock) # Job(v, "children")
    BY DEF Tables, Job
  <2>. QED  BY <2>1, TailFits DEF QueueInv, Typed, Late
<1>2. w \in Writers
  BY <1>1 DEF JobType
<1>3. /\ lock' \in Seq(JobType) /\ Fit(lock')
      /\ \A v : Queued(lock', v) => Queued(lock, v)
      /\ lock' # <<>> => Head(lock').op \notin Late
  <2>1. CASE lock' = Tail(lock)
    BY <1>1, <2>1
  <2>2. ASSUME NEW b, Batch(b, w), lock' = Tail(lock) \o b
        PROVE  /\ lock' \in Seq(JobType) /\ Fit(lock')
               /\ \A v : Queued(lock', v) => Queued(lock, v)
               /\ lock' # <<>> => Head(lock').op \notin Late
    <3>1. /\ lock' \in Seq(JobType) /\ Fit(lock')
          /\ Tail(lock) = <<>> => Head(lock').op \notin Late
          /\ Tail(lock) # <<>> => Head(lock') = Head(Tail(lock))
          /\ \A v : Queued(lock', v) => v = w \/ Queued(Tail(lock), v)
      BY <1>1, <1>2, <2>2, BatchFits
    <3>. QED  BY <1>1, <3>1
  <2>. QED  BY <2>1, <2>2
<1>4. Typed'
  BY <1>3 DEF QueueInv, Typed
<1>5. Apart'
  BY <1>3 DEF QueueInv, Apart
<1>6. HeadTells'
  BY <1>3 DEF HeadTells, Late
<1>7. WholeReads'
  BY DEF QueueInv, WholeReads
<1>. QED  BY <1>3, <1>4, <1>5, <1>6, <1>7 DEF QueueInv

\* Neither the queue nor what refreshes have read changes.
LEMMA QueueRests ==
  ASSUME QueueInv, db' \in Rows, db'.children = db.children, db'.commits = db.commits,
         scanning' \in SUBSET Writers,
         \A w \in scanning' : w \in scanning \/ (~Queued(lock, w) /\ ~InReady(ready, w)),
         UNCHANGED <<saved, lock, loader, ready, installed>>
  PROVE  QueueInv'
<1>1. Typed'
  BY DEF QueueInv, Typed
<1>2. Apart'
  BY DEF QueueInv, Apart
<1>3. HeadTells'
  BY DEF QueueInv, HeadTells
<1>4. WholeReads'
  BY DEF QueueInv, WholeReads
<1>. QED  BY <1>1, <1>2, <1>3, <1>4 DEF QueueInv

\* A writer that is free is nowhere.
LEMMA FreeIsNowhere ==
  ASSUME NEW w, Free(w)
  PROVE  ~Queued(lock, w) /\ ~InReady(ready, w) /\ w \notin scanning
BY DEF Free, Queued, InReady

\* The statement at the head of the queue.
LEMMA Held ==
  ASSUME NEW w, NEW op, Holds(w, op)
  PROVE  lock # <<>> /\ Head(lock).who = w /\ Head(lock).op = op
BY DEF Holds, Job

-----------------------------------------------------------------------------
\* A handler's or a cooldown's first statement.
LEMMA EnqueueOne ==
  ASSUME QueueInv, NEW w \in Writers, NEW op \in Operations \ Late, Free(w),
         lock' = Append(lock, Job(w, op)),
         UNCHANGED <<db, saved, loader, ready, scanning, installed>>
  PROVE  QueueInv'
<1>1. Batch(<<Job(w, op)>>, w) /\ lock' = lock \o <<Job(w, op)>>
  BY OneIsBatch DEF QueueInv, Typed
<1>2. ~Queued(lock, w) /\ ~InReady(ready, w) /\ w \notin scanning
  BY FreeIsNowhere
<1>3. scanning' = scanning \ {w}
  BY <1>2
<1>. QED  BY <1>1, <1>2, <1>3, Enqueue

\* Submitting a handler's first statement.
LEMMA SubmitStep ==
  ASSUME QueueInv, NEW a \in Admins, NEW op \in Operations, Submit(a, op)
  PROVE  QueueInv'
<1>1. a \in Writers /\ op \in Operations \ Late
  BY DEF Writers, Submit, Late
<1>. QED  BY <1>1, EnqueueOne DEF Submit, refreshVars, reloadVars

\* The cooldown of a child that failed.
LEMMA CooldownChildStep ==
  ASSUME QueueInv, NEW r \in Requests, NEW m \in Children, CooldownChild(r, m)
  PROVE  QueueInv'
<1>1. <<r, m>> \in Writers /\ "create" \in Operations \ Late
  BY DEF Writers, Operations, OneStatement, Late
<1>. QED  BY <1>1, EnqueueOne DEF CooldownChild, refreshVars, reloadVars

\* The reload's extensions are merged, and its refresh is enqueued.
LEMMA FinishBackendReloadStep ==
  ASSUME QueueInv, NEW a \in Admins, FinishBackendReload(a)
  PROVE  QueueInv'
<1>1. a \in Writers /\ a \in scanning
  BY DEF Writers, FinishBackendReload
<1>2. ~Queued(lock, a) /\ ~InReady(ready, a)
  BY <1>1 DEF QueueInv, Apart
<1>3. Batch(Reads(a), a)
  BY <1>1, ReadsAreBatch
<1>4. /\ lock' = lock \o Reads(a) /\ scanning' = scanning \ {a}
      /\ UNCHANGED <<db, saved, loader, ready, installed>>
  BY DEF FinishBackendReload, refreshVars
<1>. QED  BY <1>1, <1>2, <1>3, <1>4, Enqueue

-----------------------------------------------------------------------------
\* BEGIN and DELETE: the transaction keeps the head.
LEMMA DeleteChildrenStep ==
  ASSUME QueueInv, NEW a \in Admins, DeleteChildren(a)
  PROVE  QueueInv'
<1>. DEFINE t == Job(a, "inTransaction")
<1>1. lock # <<>> /\ Head(lock) = Job(a, "connect") /\ Head(lock).op = "connect" /\ Head(lock).who = a
  BY DEF DeleteChildren, Holds, Job
<1>2. a \in Writers /\ t \in JobType /\ t.op = "inTransaction" /\ t.who = a
  BY DEF Writers, Job, JobType, Operations, OneStatement
<1>3. /\ Tail(lock) \in Seq(JobType) /\ Fit(Tail(lock))
      /\ \A v : Queued(Tail(lock), v) => Queued(lock, v)
      /\ Queued(lock, a) /\ ~Queued(Tail(lock), a)
      /\ Tail(lock) # <<>> => Head(Tail(lock)).op \notin Late
  <2>1. /\ Head(lock).op \notin {"row", "children"}
        /\ \A v : Head(lock) # Job(v, "row") /\ Head(lock) # Job(v, "children")
    BY <1>1 DEF Job
  <2>. QED  BY <1>1, <2>1, TailFits DEF QueueInv, Typed, Late
<1>. DEFINE p == Tail(lock)
            n == Len(p)
            q == <<t>> \o p
<1>4. /\ n \in Nat /\ q \in Seq(JobType) /\ Len(q) = n + 1 /\ q # <<>>
      /\ q[1] = t /\ Head(q) = t /\ \A i \in 2 .. n + 1 : q[i] = p[i - 1]
  BY <1>2, <1>3, ConcatProperties
<1>5. p # <<>> => n # 0 /\ p[1] = Head(p)
  BY <1>3, EmptySeq
<1>6. Fit(q)
  <2>. HIDE DEF q, p
  <2>. SUFFICES ASSUME NEW i \in 1 .. n + 1
       PROVE  /\ q[i].op = "children" => i = 1 \/ q[i - 1] = Job(q[i].who, "row")
              /\ q[i].op = "cooled" => i = 1 \/ q[i - 1] = Job(q[i].who, "children")
              /\ q[i].op = "inTransaction" => i = 1
              /\ \A j \in i + 1 .. n + 1 : q[j].who = q[i].who => q[i].op \in {"row", "children"}
    BY <1>4 DEF Fit
  <2>1. CASE i = 1
    <3>1. ASSUME NEW j \in 2 .. n + 1, q[j].who = a  PROVE FALSE
      <4>1. j - 1 \in 1 .. n /\ p[j - 1].who = a
        BY <1>4, <3>1
      <4>. QED  BY <1>3, <4>1 DEF Queued, p
    <3>. HIDE DEF t, n
    <3>. QED  BY <1>2, <1>4, <2>1, <3>1
  <2>2. CASE i # 1
    <3>. DEFINE h == i - 1
    <3>1. h \in 1 .. n /\ q[i] = p[h] /\ (h # 1 => q[i - 1] = p[h - 1])
      BY <1>4, <2>2
    <3>2. Fit(p)
      BY <1>3 DEF p
    <3>3. /\ p[h].op = "children" => h = 1 \/ p[h - 1] = Job(p[h].who, "row")
          /\ p[h].op = "cooled" => h = 1 \/ p[h - 1] = Job(p[h].who, "children")
          /\ p[h].op = "inTransaction" => h = 1
          /\ \A j \in h + 1 .. n : p[j].who = p[h].who => p[h].op \in {"row", "children"}
      BY <3>1, <3>2 DEF Fit
    <3>4. h = 1 => p[h].op \notin Late
      <4>1. n # 0 => p # <<>>
        BY EmptySeq
      <4>. QED  BY <1>3, <1>4, <1>5, <3>1, <4>1 DEF p
    <3>5. ASSUME NEW j \in i + 1 .. n + 1, q[j].who = q[i].who  PROVE q[i].op \in {"row", "children"}
      <4>1. q[j] = p[j - 1] /\ j - 1 \in h + 1 .. n
        BY <1>4, <2>2
      <4>. QED  BY <3>1, <3>3, <3>5, <4>1
    <3>. HIDE DEF h, n
    <3>. QED  BY <3>1, <3>3, <3>4, <3>5 DEF Late
  <2>. QED  BY <2>1, <2>2
<1>7. \A v : Queued(q, v) => Queued(lock, v)
  <2>. HIDE DEF q, p
  <2>. SUFFICES ASSUME NEW v, NEW i \in 1 .. n + 1, q[i].who = v  PROVE Queued(lock, v)
    BY <1>4 DEF Queued
  <2>1. CASE i = 1
    BY <1>2, <1>3, <1>4, <2>1
  <2>2. CASE i # 1
    <3>1. i - 1 \in 1 .. n /\ p[i - 1].who = v
      BY <1>4, <2>2
    <3>2. Queued(p, v)
      BY <3>1 DEF Queued
    <3>. QED  BY <1>3, <3>2 DEF p
  <2>. QED  BY <2>1, <2>2
<1>8. lock' = q /\ saved' = db.children /\ UNCHANGED <<loader, ready, scanning, installed>>
  BY DEF DeleteChildren, refreshVars, reloadVars
<1>9. db' \in Rows /\ db'.children = Half
  BY DEF DeleteChildren, QueueInv, Typed, Rows
<1>10. saved' \in Nat
  BY <1>1, <1>8 DEF QueueInv, Typed, Rows, HeadTells
<1>. HIDE DEF q
<1>11. Typed'
  BY <1>4, <1>8, <1>9, <1>10 DEF QueueInv, Typed
<1>12. Apart'
  BY <1>7, <1>8 DEF QueueInv, Apart
<1>13. HeadTells'
  BY <1>2, <1>4, <1>8, <1>9 DEF HeadTells
<1>14. WholeReads'
  BY <1>8 DEF QueueInv, WholeReads
<1>. QED  BY <1>6, <1>8, <1>11, <1>12, <1>13, <1>14 DEF QueueInv

-----------------------------------------------------------------------------
\* A change that is committed leaves rows; their children are the changed ones.
LEMMA CommitRows ==
  ASSUME NEW rows \in Rows, Commit(rows), db.commits \in Nat
  PROVE  db' \in Rows /\ db'.children = rows.children
<1>1. db' = [rows EXCEPT !.commits = rows.commits + 1]
  BY DEF Commit
<1>. QED  BY <1>1 DEF Rows

\* Outside a transaction the children are whole.
LEMMA ChildrenWhole ==
  ASSUME QueueInv, lock # <<>>, Head(lock).op # "inTransaction"
  PROVE  db.children # Half
BY DEF QueueInv, HeadTells

\* The INSERTs and COMMIT.
LEMMA CommitChildrenStep ==
  ASSUME QueueInv, NEW a \in Admins, CommitChildren(a)
  PROVE  QueueInv'
<1>1. lock # <<>> /\ Head(lock).who = a /\ Head(lock).op = "inTransaction" /\ a \in Writers
  BY Held DEF CommitChildren, Writers
<1>. DEFINE rows == [db EXCEPT !.children = db.commits + 1]
<1>2. rows \in Rows /\ rows.children # Half /\ db.commits \in Nat
  BY DEF QueueInv, Typed, Rows, Half
<1>3. Commit(rows) /\ saved' = 0 /\ UNCHANGED <<loader, ready, scanning, installed>>
  BY DEF CommitChildren, refreshVars, reloadVars
<1>. HIDE DEF rows
<1>4. db' \in Rows /\ db'.children # Half
  BY <1>2, <1>3, CommitRows
<1>5. PICK next \in {"update", "listChildren"} : lock' = Append(Tail(lock), Job(a, next))
  BY DEF CommitChildren
<1>6. next \in Operations \ Late /\ Tail(lock) \in Seq(JobType)
  BY <1>1, TailFits DEF Operations, OneStatement, Late, QueueInv, Typed
<1>7. Batch(<<Job(a, next)>>, a) /\ lock' = Tail(lock) \o <<Job(a, next)>>
  BY <1>1, <1>5, <1>6, OneIsBatch
<1>8. Head(lock).op \notin Tables
  BY <1>1 DEF Tables
<1>. QED  BY <1>1, <1>3, <1>4, <1>7, <1>8, StatementRuns

\* ROLLBACK: the children are what BEGIN found.
LEMMA RollbackChildrenStep ==
  ASSUME QueueInv, NEW a \in Admins, RollbackChildren(a)
  PROVE  QueueInv'
<1>1. lock # <<>> /\ Head(lock).op \notin Tables
  BY Held DEF RollbackChildren, Tables
<1>2. db' = [db EXCEPT !.children = saved]
  BY DEF RollbackChildren
<1>3. db' \in Rows /\ db'.children # Half
  BY <1>2 DEF QueueInv, Typed, Rows, Half
<1>4. saved' \in Nat
  BY DEF RollbackChildren
<1>. QED  BY <1>1, <1>3, <1>4, StatementRuns DEF RollbackChildren, HandlerFails, refreshVars, reloadVars

\* A statement that changes the edited row leaves whole rows.
LEMMA RowCommitted ==
  ASSUME QueueInv, lock # <<>>, Head(lock).op # "inTransaction",
         Commit([db EXCEPT !.row = db.commits + 1])
  PROVE  db' \in Rows /\ db'.children # Half
<1>. DEFINE n    == db.commits + 1
            rows == [db EXCEPT !.row = n]
<1>1. db \in Rows /\ n \in Nat /\ db.children # Half /\ db.commits \in Nat /\ Commit(rows)
  BY ChildrenWhole DEF QueueInv, Typed, Rows
<1>. HIDE DEF n
<1>2. rows \in Rows /\ rows.children # Half
  BY <1>1 DEF Rows
<1>. HIDE DEF rows
<1>. QED  BY <1>1, <1>2, CommitRows

\* A handler of several statements: the row is changed and the next statement
\* is enqueued, or this one throws.
LEMMA StatementOrFailure ==
  ASSUME QueueInv, NEW a \in Admins, NEW op \in {"insert", "update", "first"}, Holds(a, op),
         NEW next \in {"connect", "listChildren", "edit"},
         \/ /\ Commit([db EXCEPT !.row = db.commits + 1])
            /\ lock' = Append(Tail(lock), Job(a, next))
         \/ HandlerFails(a) /\ UNCHANGED db,
         UNCHANGED <<saved, loader, ready, scanning, installed>>
  PROVE  QueueInv'
<1>1. lock # <<>> /\ Head(lock).who = a /\ Head(lock).op = op /\ a \in Writers
  BY Held DEF Writers
<1>2. Head(lock).op \notin Tables /\ Head(lock).op # "inTransaction" /\ saved' \in Nat
  BY <1>1 DEF Tables, QueueInv, Typed
<1>3. CASE /\ Commit([db EXCEPT !.row = db.commits + 1])
           /\ lock' = Append(Tail(lock), Job(a, next))
  <2>1. db' \in Rows /\ db'.children # Half
    BY <1>1, <1>2, <1>3, RowCommitted
  <2>2. next \in Operations \ Late /\ Tail(lock) \in Seq(JobType)
    BY <1>1, TailFits DEF Operations, OneStatement, Late, QueueInv, Typed
  <2>3. Batch(<<Job(a, next)>>, a) /\ lock' = Tail(lock) \o <<Job(a, next)>>
    BY <1>1, <1>3, <2>2, OneIsBatch
  <2>. QED  BY <1>1, <1>2, <2>1, <2>3, StatementRuns
<1>4. CASE HandlerFails(a) /\ UNCHANGED db
  <2>1. db' \in Rows /\ db'.children # Half /\ lock' = Tail(lock)
    BY <1>1, <1>2, <1>4, ChildrenWhole DEF HandlerFails, QueueInv, Typed
  <2>. QED  BY <1>1, <1>2, <2>1, StatementRuns
<1>. QED  BY <1>3, <1>4

\* The INSERT of a tier, before its children.
LEMMA InsertTierStep ==
  ASSUME QueueInv, NEW a \in Admins, InsertTier(a)
  PROVE  QueueInv'
BY StatementOrFailure DEF InsertTier, refreshVars, reloadVars

\* The tier's own row; the handler goes on to list the children.
LEMMA UpdateTierStep ==
  ASSUME QueueInv, NEW a \in Admins, UpdateTier(a)
  PROVE  QueueInv'
BY StatementOrFailure DEF UpdateTier, refreshVars, reloadVars

\* The first of two statements that each change a row.
LEMMA FirstStatementStep ==
  ASSUME QueueInv, NEW a \in Admins, FirstStatement(a)
  PROVE  QueueInv'
BY StatementOrFailure DEF FirstStatement, refreshVars, reloadVars

\* A statement that asks for a refresh: its rows are whole.
LEMMA RefreshingStatement ==
  ASSUME QueueInv, NEW w \in Writers, lock # <<>>, Head(lock).who = w, Head(lock).op \notin Tables,
         db' \in Rows, db'.children # Half,
         lock' = Tail(lock) \o Reads(w),
         UNCHANGED <<saved, loader, ready, scanning, installed>>
  PROVE  QueueInv'
<1>1. Batch(Reads(w), w)
  BY ReadsAreBatch
<1>2. saved' \in Nat
  BY DEF QueueInv, Typed
<1>. QED  BY <1>1, <1>2, StatementRuns

\* The last statement of a handler: it asks for the refresh, or throws.
LEMMA LastStatement ==
  ASSUME QueueInv, NEW a \in Admins, NEW op \in {"listChildren", "edit", "clear"}, Holds(a, op),
         db' \in Rows, db'.children # Half, AskForRefresh(a) \/ HandlerFails(a),
         UNCHANGED <<saved, loader, ready, scanning, installed>>
  PROVE  QueueInv'
<1>1. lock # <<>> /\ Head(lock).who = a /\ Head(lock).op \notin Tables /\ a \in Writers
  BY Held DEF Writers, Tables
<1>2. CASE AskForRefresh(a)
  BY <1>1, <1>2, RefreshingStatement DEF AskForRefresh
<1>3. CASE HandlerFails(a)
  <2>1. saved' \in Nat /\ lock' = Tail(lock)
    BY <1>3 DEF HandlerFails, QueueInv, Typed
  <2>. QED  BY <1>1, <2>1, StatementRuns
<1>. QED  BY <1>2, <1>3

\* The read for the answer, then the refresh.
LEMMA ListChildrenStep ==
  ASSUME QueueInv, NEW a \in Admins, ListChildren(a)
  PROVE  QueueInv'
<1>1. lock # <<>> /\ Head(lock).op # "inTransaction"
  BY Held DEF ListChildren
<1>2. db' \in Rows /\ db'.children # Half
  BY <1>1, ChildrenWhole DEF ListChildren, QueueInv, Typed
<1>. QED  BY <1>2, LastStatement DEF ListChildren, refreshVars, reloadVars

\* One row is changed, then the refresh.
LEMMA EditRowStep ==
  ASSUME QueueInv, NEW a \in Admins, EditRow(a)
  PROVE  QueueInv'
<1>1. lock # <<>> /\ Head(lock).op # "inTransaction"
  BY Held DEF EditRow
<1>2. db' \in Rows /\ db'.children # Half
  BY <1>1, ChildrenWhole, RowCommitted DEF EditRow, QueueInv, Typed
<1>3. AskForRefresh(a) \/ HandlerFails(a)
  BY DEF EditRow
<1>. QED  BY <1>2, <1>3, LastStatement DEF EditRow, refreshVars, reloadVars

\* The cooldowns are cleared, then the refresh.
LEMMA ClearCooldownsStep ==
  ASSUME QueueInv, NEW a \in Admins, ClearCooldowns(a)
  PROVE  QueueInv'
<1>1. lock # <<>> /\ Head(lock).op # "inTransaction"
  BY Held DEF ClearCooldowns
<1>2. db \in Rows /\ db.children # Half /\ db.commits \in Nat
  BY <1>1, ChildrenWhole DEF QueueInv, Typed, Rows
<1>. DEFINE rows == [db EXCEPT !.cooled = {}]
<1>3. rows \in Rows /\ rows.children # Half
  BY <1>2 DEF Rows
<1>4. Commit(rows) \/ UNCHANGED db
  BY DEF ClearCooldowns
<1>5. AskForRefresh(a) \/ HandlerFails(a)
  BY DEF ClearCooldowns
<1>. HIDE DEF rows
<1>6. db' \in Rows /\ db'.children # Half
  BY <1>2, <1>3, <1>4, CommitRows
<1>. QED  BY <1>5, <1>6, LastStatement DEF ClearCooldowns, refreshVars, reloadVars

\* A cooldown is inserted, then the refresh; or the INSERT fails.
LEMMA CreateCooldownStep ==
  ASSUME QueueInv, NEW w \in Requests \X Children, CreateCooldown(w)
  PROVE  QueueInv'
<1>1. lock # <<>> /\ Head(lock).who = w /\ Head(lock).op = "create" /\ w \in Writers /\ w[2] \in Children
  BY Held DEF CreateCooldown, Writers
<1>2. Head(lock).op \notin Tables /\ db.children # Half
  BY <1>1, ChildrenWhole DEF Tables
<1>3. CASE lock' = Tail(lock) /\ UNCHANGED db
  <2>1. db' \in Rows /\ saved' \in Nat /\ db'.children # Half
    BY <1>2, <1>3 DEF CreateCooldown, QueueInv, Typed
  <2>. QED  BY <1>1, <1>2, <1>3, <2>1, StatementRuns DEF CreateCooldown, refreshVars, reloadVars
<1>4. CASE Commit([db EXCEPT !.cooled = @ \cup {w[2]}]) /\ lock' = Tail(lock) \o Reads(w)
  <2>. DEFINE rows == [db EXCEPT !.cooled = db.cooled \cup {w[2]}]
  <2>1. rows \in Rows /\ rows.children # Half /\ db.commits \in Nat
    BY <1>1, <1>2 DEF QueueInv, Typed, Rows
  <2>2. Commit(rows)
    BY <1>4
  <2>. HIDE DEF rows
  <2>3. db' \in Rows /\ db'.children # Half
    BY <2>1, <2>2, CommitRows
  <2>. QED  BY <1>1, <1>2, <1>4, <2>3, RefreshingStatement DEF CreateCooldown, refreshVars, reloadVars
<1>. QED  BY <1>3, <1>4 DEF CreateCooldown

-----------------------------------------------------------------------------
\* What a SELECT adds to what its refresh has read.
LEMMA WithTable ==
  ASSUME NEW read \in Contents, NEW t \in Tables, db \in Rows
  PROVE  /\ With(read, t) \in Contents
         /\ With(read, t).at[t] = db.commits
         /\ \A u \in Tables : u # t => With(read, t).at[u] = read.at[u]
         /\ With(read, t).children = IF t = "children" THEN db.children ELSE read.children
<1>. DEFINE at == [read.at EXCEPT ![t] = db.commits]
<1>1. /\ at \in [Tables -> Nat] /\ at[t] = db.commits
      /\ \A u \in Tables : u # t => at[u] = read.at[u]
  BY DEF Contents, Rows
<1>2. With(read, t) = [row      |-> IF t = "row" THEN db.row ELSE read.row,
                       children |-> IF t = "children" THEN db.children ELSE read.children,
                       cooled   |-> IF t = "cooled" THEN db.cooled ELSE read.cooled,
                       at       |-> at]
  BY DEF With
<1>. HIDE DEF at
<1>. QED  BY <1>1, <1>2 DEF Contents, Rows

\* A SELECT runs: the next of its refresh follows with nothing in between,
\* and after the last one the refresh has seen one instant.
LEMMA ReadStep ==
  ASSUME QueueInv, NEW w \in Writers, Read(w)
  PROVE  QueueInv'
<1>1. PICK t \in Tables :
        /\ Holds(w, t)
        /\ loader' = [loader EXCEPT ![w] = With(@, t)]
        /\ lock' = Tail(lock)
        /\ ready' = IF t = "cooled" THEN Append(ready, w) ELSE ready
        /\ UNCHANGED <<db, saved, scanning, installed>>
  BY DEF Read, reloadVars
<1>2. lock # <<>> /\ Head(lock) = Job(w, t) /\ Head(lock).who = w /\ Head(lock).op = t
  BY <1>1 DEF Holds, Job
<1>3. db \in Rows /\ loader[w] \in Contents
  BY DEF QueueInv, Typed
<1>. DEFINE read == With(loader[w], t)
<1>4. /\ read \in Contents /\ read.at[t] = db.commits
      /\ \A u \in Tables : u # t => read.at[u] = loader[w].at[u]
      /\ read.children = IF t = "children" THEN db.children ELSE loader[w].children
  BY <1>3, WithTable
<1>. HIDE DEF read
<1>5. loader' \in [Writers -> Contents] /\ \A v \in Writers : loader'[v] = IF v = w THEN read ELSE loader[v]
  BY <1>1, <1>4 DEF QueueInv, Typed, read
<1>6. /\ Tail(lock) \in Seq(JobType) /\ Fit(Tail(lock))
      /\ \A v : Queued(Tail(lock), v) => Queued(lock, v)
      /\ Queued(lock, w)
      /\ t = "cooled" => ~Queued(Tail(lock), w)
      /\ Tail(lock) # <<>> =>
              /\ Head(Tail(lock)).op # "inTransaction"
              /\ Head(Tail(lock)).op = "children" => Job(w, t) = Job(Head(Tail(lock)).who, "row")
              /\ Head(Tail(lock)).op = "cooled" => Job(w, t) = Job(Head(Tail(lock)).who, "children")
  <2>1. t = "cooled" => t \notin {"row", "children"}
    OBVIOUS
  <2>. QED  BY <1>2, <2>1, TailFits DEF QueueInv, Typed
<1>7. db.children # Half
  BY <1>2, ChildrenWhole DEF Tables
<1>8. ~InReady(ready, w) /\ w \notin scanning
  BY <1>6 DEF QueueInv, Apart
<1>9. ready' \in Seq(Writers) /\ \A v : InReady(ready', v) => InReady(ready, v) \/ (t = "cooled" /\ v = w)
  <2>1. CASE t # "cooled"
    BY <1>1, <2>1 DEF QueueInv, Typed
  <2>2. CASE t = "cooled"
    <3>1. ready \in Seq(Writers) /\ ready' = Append(ready, w)
      BY <1>1, <2>2 DEF QueueInv, Typed
    <3>2. ready' \in Seq(Writers)
      BY <3>1
    <3>3. ASSUME NEW v, InReady(ready', v)  PROVE InReady(ready, v) \/ v = w
      BY <3>1, <3>3 DEF InReady
    <3>. QED  BY <2>2, <3>2, <3>3
  <2>. QED  BY <2>1, <2>2
<1>10. Typed'
  BY <1>1, <1>5, <1>6, <1>9 DEF QueueInv, Typed
<1>11. Apart'
  BY <1>1, <1>6, <1>8, <1>9 DEF QueueInv, Apart
<1>12. HeadTells'
  <2>1. Tail(lock) # <<>> =>
          /\ Head(Tail(lock)).op # "inTransaction"
          /\ Head(Tail(lock)).op = "children" => Head(Tail(lock)).who = w /\ t = "row"
          /\ Head(Tail(lock)).op = "cooled" => Head(Tail(lock)).who = w /\ t = "children"
    BY <1>6 DEF Job
  <2>2. t = "row" => loader'[w].at["row"] = db.commits
    BY <1>4, <1>5
  <2>3. t = "children" =>
          /\ loader'[w].at["row"] = db.commits /\ loader'[w].at["children"] = db.commits
          /\ loader'[w].children # Half
    <3>1. t = "children" => loader[w].at["row"] = db.commits
      BY <1>2 DEF QueueInv, HeadTells
    <3>. QED  BY <1>4, <1>5, <1>7, <3>1 DEF Tables
  <2>4. lock' = Tail(lock) /\ db' = db
    BY <1>1
  <2>. QED  BY <1>7, <2>1, <2>2, <2>3, <2>4 DEF HeadTells
<1>13. t = "cooled" => OneInstant(loader'[w])
  <2>. SUFFICES ASSUME t = "cooled"  PROVE OneInstant(loader'[w])
    OBVIOUS
  <2>1. /\ loader[w].at["row"] = db.commits /\ loader[w].at["children"] = db.commits
        /\ loader[w].children # Half
    BY <1>2 DEF QueueInv, HeadTells
  <2>2. /\ read.at["row"] = db.commits /\ read.at["children"] = db.commits /\ read.at["cooled"] = db.commits
        /\ read.children # Half
    BY <1>4, <2>1 DEF Tables
  <2>3. \A u \in Tables : read.at[u] = db.commits
    BY <2>2 DEF Tables
  <2>. QED  BY <1>5, <2>2, <2>3 DEF OneInstant
<1>14. WholeReads'
  <2>. SUFFICES ASSUME NEW i \in 1 .. Len(ready')  PROVE OneInstant(loader'[ready'[i]])
    BY DEF WholeReads, OneInstant
  <2>1. ready \in Seq(Writers)
    BY DEF QueueInv, Typed
  <2>2. ASSUME NEW j \in 1 .. Len(ready)  PROVE OneInstant(loader'[ready[j]])
    <3>1. ready[j] \in Writers /\ ready[j] # w /\ OneInstant(loader[ready[j]])
      BY <1>8, <2>1 DEF InReady, QueueInv, WholeReads
    <3>. QED  BY <1>5, <3>1
  <2>3. CASE t # "cooled"
    BY <1>1, <2>2, <2>3
  <2>4. CASE t = "cooled"
    <3>1. ready'[i] = w \/ (i \in 1 .. Len(ready) /\ ready'[i] = ready[i])
      BY <1>1, <2>1, <2>4
    <3>. QED  BY <1>13, <2>2, <2>4, <3>1
  <2>. QED  BY <2>3, <2>4
<1>. QED  BY <1>1, <1>6, <1>10, <1>11, <1>12, <1>14 DEF QueueInv

\* A refresh installs what it read, or leaves the snapshot that was there.
LEMMA InstallStep ==
  ASSUME QueueInv, Install
  PROVE  QueueInv'
<1>. DEFINE w == Head(ready)
            p == Tail(ready)
<1>1. /\ ready \in Seq(Writers) /\ ready # <<>> /\ w = ready[1] /\ 1 \in 1 .. Len(ready) /\ w \in Writers
      /\ p \in Seq(Writers) /\ \A i \in 1 .. Len(p) : i + 1 \in 1 .. Len(ready) /\ p[i] = ready[i + 1]
  <2>1. ready \in Seq(Writers) /\ ready # <<>>
    BY DEF QueueInv, Typed, Install
  <2>2. Len(ready) \in Nat \ {0} /\ Len(p) = Len(ready) - 1
    BY <2>1, HeadTailProperties, LenProperties
  <2>. QED  BY <2>1, <2>2, HeadTailProperties
<1>2. /\ installed' = IF Valid(loader[w]) THEN loader[w] ELSE installed
      /\ loader' = [loader EXCEPT ![w] = Unread] /\ ready' = p
      /\ UNCHANGED <<db, saved, lock, scanning>>
  BY DEF Install, reloadVars
<1>3. Unread \in Contents /\ OneInstant(Unread)
  BY DEF Unread, Contents, OneInstant, Half
<1>. HIDE DEF w, p
<1>4. loader' \in [Writers -> Contents] /\ \A v \in Writers : loader'[v] = IF v = w THEN Unread ELSE loader[v]
  BY <1>1, <1>2, <1>3 DEF QueueInv, Typed
<1>5. installed' \in Contents /\ OneInstant(installed')
  <2>1. loader[w] \in Contents /\ OneInstant(loader[w])
    BY <1>1 DEF QueueInv, Typed, WholeReads
  <2>. QED  BY <1>2, <2>1 DEF QueueInv, Typed
<1>6. Typed'
  BY <1>1, <1>2, <1>4, <1>5 DEF QueueInv, Typed
<1>7. \A v : InReady(p, v) => InReady(ready, v)
  BY <1>1 DEF InReady
<1>8. Apart'
  BY <1>2, <1>7 DEF QueueInv, Apart
<1>9. ~Queued(lock, w)
  BY <1>1 DEF QueueInv, Apart, InReady
<1>10. lock # <<>> => Head(lock).who \in Writers /\ Head(lock).who # w
  <2>1. lock # <<>> => Head(lock) \in JobType /\ Queued(lock, Head(lock).who)
    BY TailFits DEF QueueInv, Typed
  <2>. QED  BY <1>9, <2>1 DEF JobType
<1>11. lock # <<>> => loader'[Head(lock).who] = loader[Head(lock).who]
  BY <1>4, <1>10
<1>12. HeadTells'
  BY <1>2, <1>11 DEF QueueInv, HeadTells
<1>13. WholeReads'
  <2>. SUFFICES ASSUME NEW i \in 1 .. Len(p)  PROVE OneInstant(loader'[p[i]])
    BY <1>2 DEF WholeReads, OneInstant
  <2>1. p[i] \in Writers /\ OneInstant(loader[p[i]])
    BY <1>1 DEF QueueInv, WholeReads
  <2>. QED  BY <1>3, <1>4, <2>1
<1>. QED  BY <1>2, <1>5, <1>6, <1>8, <1>12, <1>13 DEF QueueInv

-----------------------------------------------------------------------------
\* A backend reload begins.
LEMMA StartBackendReloadStep ==
  ASSUME QueueInv, NEW a \in Admins, StartBackendReload(a)
  PROVE  QueueInv'
<1>1. a \in Writers /\ ~Queued(lock, a) /\ ~InReady(ready, a)
  BY FreeIsNowhere DEF StartBackendReload, Writers
<1>2. /\ scanning' = scanning \cup {a}
      /\ UNCHANGED <<db, saved, lock, loader, ready, installed>>
  BY DEF StartBackendReload, refreshVars
<1>3. db' \in Rows /\ scanning' \in SUBSET Writers
  BY <1>1, <1>2 DEF QueueInv, Typed
<1>. QED  BY <1>1, <1>2, <1>3, QueueRests

\* A backend reload rejects: no refresh.
LEMMA BackendReloadFailsStep ==
  ASSUME QueueInv, NEW a \in Admins, BackendReloadFails(a)
  PROVE  QueueInv'
<1>1. scanning' = scanning \ {a} /\ UNCHANGED <<db, saved, lock, loader, ready, installed>>
  BY DEF BackendReloadFails, refreshVars
<1>2. db' \in Rows /\ scanning' \in SUBSET Writers
  BY <1>1 DEF QueueInv, Typed
<1>. QED  BY <1>1, <1>2, QueueRests

\* What a request does without a statement.
LEMMA RequestStep ==
  ASSUME QueueInv, UNCHANGED <<db, saved, lock, loader, ready, scanning, installed>>
  PROVE  QueueInv'
<1>1. db' \in Rows /\ scanning' \in SUBSET Writers
  BY DEF QueueInv, Typed
<1>. QED  BY <1>1, QueueRests

\* A cooldown expires.
LEMMA ExpireCooldownStep ==
  ASSUME QueueInv, NEW m \in Children, ExpireCooldown(m)
  PROVE  QueueInv'
<1>1. db' \in Rows /\ db'.children = db.children /\ db'.commits = db.commits
  BY DEF ExpireCooldown, QueueInv, Typed, Rows
<1>2. scanning' \in SUBSET Writers
  BY DEF ExpireCooldown, reloadVars, QueueInv, Typed
<1>. QED  BY <1>1, <1>2, QueueRests DEF ExpireCooldown, refreshVars, reloadVars

\* Nothing is queued, and the snapshot is what the rows are.
LEMMA FreshStart ==
  ASSUME NEW rows \in Rows, NEW x, rows.children # Half, db' = rows, saved' \in Nat,
         lock' = <<>>, ready' = <<>>, scanning' = {}, loader' = [w \in Writers |-> Unread],
         installed' = x,
         x = [row |-> rows.row, children |-> rows.children, cooled |-> rows.cooled,
              at |-> [t \in Tables |-> rows.commits]]
  PROVE  QueueInv'
<1>1. Unread \in Contents /\ x \in Contents /\ OneInstant(x)
  BY DEF Unread, Contents, OneInstant, Rows
<1>2. Typed'
  BY <1>1 DEF Typed
<1>3. Len(lock') = 0 /\ Len(ready') = 0
  OBVIOUS
<1>4. Fit(lock') /\ Apart' /\ WholeReads'
  BY <1>3 DEF Fit, Apart, Queued, InReady, WholeReads
<1>5. HeadTells'
  BY DEF HeadTells
<1>. QED  BY <1>1, <1>2, <1>4, <1>5 DEF QueueInv

\* A crash and the boot that follows.
LEMMA CrashStep ==
  ASSUME QueueInv, Crash
  PROVE  QueueInv'
<1>. DEFINE recovered == IF db.children = Half THEN [db EXCEPT !.children = saved] ELSE db
            x == [Now EXCEPT !.children = recovered.children]
<1>1. /\ recovered \in Rows /\ recovered.children # Half
      /\ recovered.row = db.row /\ recovered.cooled = db.cooled /\ recovered.commits = db.commits
  BY DEF QueueInv, Typed, Rows, Half
<1>2. /\ db' = recovered /\ saved' = 0 /\ lock' = <<>> /\ ready' = <<>> /\ scanning' = {}
      /\ loader' = [w \in Writers |-> Unread] /\ installed' = x
  BY DEF Crash
<1>. HIDE DEF recovered
<1>3. x = [row |-> recovered.row, children |-> recovered.children, cooled |-> recovered.cooled,
           at |-> [t \in Tables |-> recovered.commits]]
  BY <1>1 DEF Now
<1>. QED  BY <1>1, <1>2, <1>3, FreshStart

\* Boot.
LEMMA QueueInitInv == SnapshotInit => QueueInv
<1>. SUFFICES ASSUME SnapshotInit  PROVE QueueInv
  OBVIOUS
<1>1. /\ db \in Rows /\ db.children # Half
      /\ Unread \in Contents /\ installed \in Contents /\ OneInstant(installed)
  BY DEF SnapshotInit, Now, Unread, Contents, OneInstant, Rows, Half
<1>2. Typed
  BY <1>1 DEF SnapshotInit, Typed
<1>3. lock = <<>> /\ ready = <<>> /\ Len(lock) = 0 /\ Len(ready) = 0
  BY DEF SnapshotInit
<1>4. Fit(lock) /\ Apart /\ WholeReads
  BY <1>3 DEF Fit, Apart, Queued, InReady, WholeReads
<1>5. HeadTells
  BY <1>1, <1>3 DEF HeadTells
<1>. QED  BY <1>1, <1>2, <1>4, <1>5 DEF QueueInv

\* Every step preserves the invariant.
LEMMA QueueNextInv == QueueInv /\ [SnapshotNext]_snapshotVars => QueueInv'
<1>. SUFFICES ASSUME QueueInv, [SnapshotNext]_snapshotVars  PROVE QueueInv'
  OBVIOUS
<1>1. ASSUME NEW a \in Admins,
             \/ \E op \in Operations : Submit(a, op)
             \/ StartBackendReload(a) \/ FinishBackendReload(a) \/ BackendReloadFails(a)
      PROVE  QueueInv'
  BY <1>1, SubmitStep, StartBackendReloadStep, FinishBackendReloadStep, BackendReloadFailsStep
<1>2. CASE RunStatement
  <2>1. ASSUME NEW a \in Admins, AdminStep(a)  PROVE QueueInv'
    BY <2>1, InsertTierStep, FirstStatementStep, DeleteChildrenStep, CommitChildrenStep, RollbackChildrenStep, UpdateTierStep,
       ListChildrenStep, EditRowStep, ClearCooldownsStep DEF AdminStep
  <2>2. ASSUME NEW w \in Writers, Read(w)  PROVE QueueInv'
    BY <2>2, ReadStep
  <2>3. ASSUME NEW w \in Requests \X Children, CreateCooldown(w)  PROVE QueueInv'
    BY <2>3, CreateCooldownStep
  <2>. QED  BY <1>2, <2>1, <2>2, <2>3 DEF RunStatement
<1>3. CASE Install
  BY <1>3, InstallStep
<1>4. ASSUME NEW r \in Requests,
             BindSnapshot(r) \/ SelectChild(r) \/ EndRequest(r) \/ NextChild(r)
      PROVE  QueueInv'
  <2>1. UNCHANGED <<db, saved, lock, loader, ready, scanning, installed>>
    BY <1>4 DEF BindSnapshot, SelectChild, EndRequest, NextChild, refreshVars, reloadVars
  <2>. QED  BY <2>1, RequestStep
<1>5. ASSUME NEW r \in Requests, NEW m \in Children, CooldownChild(r, m)  PROVE QueueInv'
  BY <1>5, CooldownChildStep
<1>6. ASSUME NEW m \in Children, ExpireCooldown(m)  PROVE QueueInv'
  BY <1>6, ExpireCooldownStep
<1>7. CASE Crash
  BY <1>7, CrashStep
<1>8. CASE UNCHANGED snapshotVars
  BY <1>8, RequestStep DEF snapshotVars, refreshVars, reloadVars
<1>. QED  BY <1>1, <1>2, <1>3, <1>4, <1>5, <1>6, <1>7, <1>8 DEF SnapshotNext

\* The inductive invariant holds in every reachable state, through crashes.
THEOREM QueueInvariant == SnapshotSpec => []QueueInv
BY QueueInitInv, QueueNextInv, PTL DEF SnapshotSpec

\* Although loadRuntimeSnapshot reads the tables with several statements
\* while handlers write, what requests pin is the database at one instant.
THEOREM SnapshotsAreInstants == SnapshotSpec => []SnapshotIsOneInstant
<1>1. QueueInv => SnapshotIsOneInstant
  BY DEF QueueInv, OneInstant, SnapshotIsOneInstant
<1>. QED  BY <1>1, QueueInvariant, PTL

\* A caller is in one place: it waits for the connection, waits to install,
\* or scans, so no two refreshes of one caller mix what they have read.
THEOREM CallersApart == SnapshotSpec => []Apart
<1>1. QueueInv => Apart
  BY DEF QueueInv
<1>. QED  BY <1>1, QueueInvariant, PTL
=============================================================================
