------------------------- MODULE ModelRegistryProofs -------------------------
(***************************************************************************)
(* For every finite set of passes and of models, and any number of passes  *)
(* and requests: what the operator disabled stays disabled, and a pass     *)
(* takes nothing of the operator's away, however old what it has read is.  *)
(***************************************************************************)
EXTENDS ModelRegistry, FiniteSetTheorems, FunctionTheorems, TLAPS

\* The columns are of their types, a row's id has its key, and the fallback's row
\* is the passes' own.
RowsOK ==
  /\ rows \in [Keys -> Row \cup {NoRow}]
  /\ \A k \in Present : rows[k].id.key = k
  /\ ~IsManual(rows[Fallback])

\* What the operator disabled is stored, and neither enabled nor marked as
\* disabled by a sync, which would enable it again.
HeldOK ==
  /\ held \subseteq IdsOf(rows)
  /\ \A k \in Present \ {Fallback} : rows[k].id \in held => ~rows[k].enabled /\ ~rows[k].marker

\* Tiers alone have children, both rows of a child exist, and a tier is there when its
\* children are replaced.
ChildrenOK ==
  /\ IsFiniteSet(children)
  /\ \A c \in children : c.parent.key = Tier /\ {c.parent, c.child} \subseteq IdsOf(rows)
TierThere  == operator.pc = "tierChildren" => rows[Tier] # NoRow

ProviderOK ==
  provider # NoRow => /\ provider = [id |-> provider.id, enabled |-> provider.enabled]
                      /\ provider.id \in Id

\* A pass in state s has the fields of one, remembers finitely many rows and
\* appends to the tier.
FieldsOf(s) ==
  [kind : {s.kind}, pc : {s.pc}, hadRows : {s.hadRows}, prov : {s.prov}, disc : {s.disc},
   tags : {s.tags}, todo : {s.todo}, known : {s.known}, mine : {s.mine}, gone : {s.gone},
   tierId : {s.tierId}, default : {s.default}, kids : {s.kids}, found : {s.found},
   wrote : {s.wrote}, changed : {s.changed}, stale : {s.stale}]

PassOK(s) ==
  /\ s \in FieldsOf(s)
  /\ IsFiniteSet(s.mine) /\ IsFiniteSet(s.gone) /\ IsFiniteSet(s.stale) /\ IsFiniteSet(s.kids)
  /\ s.pc \in {"children", "append"} => s.tierId.key = Tier

WorkersOK ==
  /\ worker = [w \in Workers |-> worker[w]]
  /\ \A w \in Workers : PassOK(worker[w])

\* No pass takes a row of the operator's for a stale one, or for one that lost its tag.
StaleOK ==
  \A w \in Workers, k \in Present :
    rows[k].id \in worker[w].stale \cup worker[w].gone => ~IsManual(rows[k])

\* A pass that has models to take out of the tier read it as one that a pass had made.
AtTier(s) == s.pc \in {"children", "append"}
AutoOK ==
  \A w \in Workers :
    AtTier(worker[w]) /\ worker[w].gone # {} /\ rows[Tier] # NoRow
      /\ rows[Tier].id = worker[w].tierId => rows[Tier].auto

OperatorOK ==
  /\ operator = [pc |-> operator.pc, ids |-> operator.ids, order |-> operator.order]
  /\ IsFiniteSet(operator.ids) /\ IsFiniteSet(DOMAIN operator.order)

LeftOK == left \in 0 .. MaxRuns

(***************************************************************************)
(* The inductive invariant.  Passes act on rows by ids they read earlier;  *)
(* that these still mean the same rows rests on ids being given once:      *)
(* FreshId avoids every id that is stored or that somebody remembers.      *)
(***************************************************************************)
IInv ==
  /\ RowsOK /\ HeldOK /\ ChildrenOK /\ TierThere /\ ProviderOK
  /\ WorkersOK /\ StaleOK /\ AutoOK /\ OperatorOK /\ LeftOK

-----------------------------------------------------------------------------
\* What a function makes of a finite set is finite.
LEMMA ImageIsFinite ==
  ASSUME NEW S, IsFiniteSet(S), NEW f
  PROVE  IsFiniteSet({f[x] : x \in S})
<1>. DEFINE T == {f[x] : x \in S}
            g == [x \in S |-> f[x]]
<1>1. g \in Surjection(S, T)
  BY DEF Surjection
<1>. HIDE DEF g, T
<1>2. IsFiniteSet(T)
  BY <1>1, FS_Surjection
<1>. QED  BY <1>2 DEF T

LEMMA KeysFinite == IsFiniteSet(Keys)
<1>1. IsFiniteSet({Fallback, Tier})
  <2>1. IsFiniteSet({Fallback})
    BY FS_Singleton
  <2>2. {Fallback, Tier} = {Fallback} \cup {Tier}
    OBVIOUS
  <2>. QED  BY <2>1, <2>2, FS_AddElement
<1>. QED  BY <1>1, SizeAssumption, FS_Union DEF SizeAssumption, Keys

\* The ids of a table are finitely many.
LEMMA IdsFinite ==
  ASSUME NEW r, NEW S \in SUBSET Keys
  PROVE  IsFiniteSet({r[k].id : k \in S})
<1>. DEFINE f == [k \in Keys |-> r[k].id]
<1>1. IsFiniteSet(S)
  BY KeysFinite, FS_Subset
<1>. HIDE DEF f
<1>2. IsFiniteSet({f[k] : k \in S})
  BY <1>1, ImageIsFinite
<1>3. {f[k] : k \in S} = {r[k].id : k \in S}
  BY DEF f
<1>. QED  BY <1>2, <1>3

\* So are those that a pass remembers.
LEMMA IdsReadFinite ==
  ASSUME NEW s, PassOK(s)
  PROVE  IsFiniteSet(IdsRead(s))
<1>. DEFINE found == IF s.found = NoRow THEN {} ELSE {s.found.id}
            known == {s.known[m].id : m \in {x \in Models : s.known[x] # NoRow}}
<1>1. IsFiniteSet(known)
  <2>1. {x \in Models : s.known[x] # NoRow} \in SUBSET Keys
    BY DEF Keys
  <2>. QED  BY <2>1, IdsFinite
<1>2. IsFiniteSet(found) /\ IsFiniteSet({s.tierId, s.default})
  <2>1. {s.tierId, s.default} = {s.tierId} \cup {s.default}
    OBVIOUS
  <2>2. IsFiniteSet({s.tierId, s.default})
    <3>1. IsFiniteSet({s.tierId})
      BY FS_Singleton
    <3>. QED  BY <2>1, <3>1, FS_AddElement
  <2>3. IsFiniteSet({}) /\ IsFiniteSet({s.found.id})
    BY FS_EmptySet, FS_Singleton
  <2>4. found = {} \/ found = {s.found.id}
    OBVIOUS
  <2>. HIDE DEF found, known
  <2>. QED  BY <2>2, <2>3, <2>4
<1>3. IsFiniteSet(s.mine) /\ IsFiniteSet(s.gone) /\ IsFiniteSet(s.stale)
  BY DEF PassOK
<1>. DEFINE f == [c \in s.kids |-> c.child]
            seen == {c.child : c \in s.kids}
<1>4. IsFiniteSet(seen)
  <2>. HIDE DEF f
  <2>1. IsFiniteSet({f[c] : c \in s.kids})
    BY ImageIsFinite DEF PassOK
  <2>. QED  BY <2>1 DEF f
<1>. HIDE DEF found, known, seen
<1>5. IsFiniteSet(known \cup s.mine)
  BY <1>1, <1>3, FS_Union
<1>6. IsFiniteSet(known \cup s.mine \cup s.gone)
  BY <1>3, <1>5, FS_Union
<1>7. IsFiniteSet(known \cup s.mine \cup s.gone \cup s.stale)
  BY <1>3, <1>6, FS_Union
<1>8. IsFiniteSet(known \cup s.mine \cup s.gone \cup s.stale \cup {s.tierId, s.default})
  BY <1>2, <1>7, FS_Union
<1>9. IsFiniteSet(known \cup s.mine \cup s.gone \cup s.stale \cup {s.tierId, s.default} \cup seen)
  BY <1>4, <1>8, FS_Union
<1>10. IsFiniteSet(known \cup s.mine \cup s.gone \cup s.stale \cup {s.tierId, s.default}
                   \cup seen \cup found)
  BY <1>2, <1>9, FS_Union
<1>. QED  BY <1>10 DEF IdsRead, found, known, seen

\* A set of n ids of one key does not fit into a smaller set.
LEMMA SomeIdIsFree ==
  ASSUME NEW used, IsFiniteSet(used), NEW k
  PROVE  \E n \in 1 .. (Cardinality(used) + 1) : [key |-> k, n |-> n] \notin used
<1>. DEFINE N == Cardinality(used) + 1
            f == [n \in 1 .. N |-> [key |-> k, n |-> n]]
<1>1. Cardinality(used) \in Nat
  BY FS_CardinalityType
<1>. HIDE DEF N
<1>2. N \in Nat /\ N > Cardinality(used)
  BY <1>1 DEF N
<1>3. IsFiniteSet(1 .. N) /\ Cardinality(1 .. N) = N
  BY <1>2, FS_Interval
<1>4. ASSUME \A n \in 1 .. N : [key |-> k, n |-> n] \in used
      PROVE  FALSE
  <2>1. f \in [1 .. N -> used]
    BY <1>4
  <2>. HIDE DEF f
  <2>2. PICK x, y \in 1 .. N : x # y /\ f[x] = f[y]
    BY <1>1, <1>2, <1>3, <2>1, FS_PigeonHole
  <2>3. f[x].n = x /\ f[y].n = y
    BY DEF f
  <2>. QED  BY <2>2, <2>3
<1>. QED  BY <1>4 DEF N

\* A fresh id is one of the key that neither a row has nor anybody remembers.
LEMMA FreshIsFresh ==
  ASSUME IInv, NEW k \in Keys
  PROVE  /\ FreshId(k) \in Id /\ FreshId(k).key = k
         /\ FreshId(k) \notin IdsOf(rows)
         /\ \A w \in Workers : /\ FreshId(k) \notin worker[w].stale \cup worker[w].gone
                              /\ FreshId(k) # worker[w].tierId
<1>. DEFINE used == IdsOf(rows) \cup operator.ids
                      \cup UNION {IdsRead(worker[w]) : w \in Workers}
            free == {n \in 1 .. (Cardinality(used) + 1) : [key |-> k, n |-> n] \notin used}
            n == CHOOSE n \in free : TRUE
<1>1. IsFiniteSet(IdsOf(rows))
  <2>1. {x \in Keys : rows[x] # NoRow} \in SUBSET Keys
    OBVIOUS
  <2>. QED  BY <2>1, IdsFinite DEF IdsOf
<1>2. IsFiniteSet(UNION {IdsRead(worker[w]) : w \in Workers})
  <2>. DEFINE f == [w \in Workers |-> IdsRead(worker[w])]
              T == {f[w] : w \in Workers}
  <2>1. \A w \in Workers : IsFiniteSet(IdsRead(worker[w]))
    BY IdsReadFinite DEF IInv, WorkersOK
  <2>2. \A x \in T : IsFiniteSet(x)
    BY <2>1
  <2>3. T = {IdsRead(worker[w]) : w \in Workers}
    OBVIOUS
  <2>. HIDE DEF f
  <2>4. IsFiniteSet(T)
    BY ImageIsFinite, SizeAssumption DEF SizeAssumption
  <2>. HIDE DEF T
  <2>5. IsFiniteSet(UNION T)
    BY <2>2, <2>4, FS_UNION
  <2>. QED  BY <2>3, <2>5
<1>3. IsFiniteSet(IdsOf(rows) \cup operator.ids)
  BY <1>1, FS_Union DEF IInv, OperatorOK
<1>4. IsFiniteSet(used)
  BY <1>2, <1>3, FS_Union
<1>5. FreshId(k) = [key |-> k, n |-> n]
  BY DEF FreshId
<1>6. /\ IdsOf(rows) \subseteq used
      /\ \A w \in Workers : worker[w].stale \cup worker[w].gone \cup {worker[w].tierId} \subseteq used
  BY DEF IdsRead
<1>. HIDE DEF used
<1>7. \E x \in 1 .. (Cardinality(used) + 1) : [key |-> k, n |-> x] \notin used
  BY <1>4, SomeIdIsFree
<1>8. n \in free
  BY <1>7
<1>. HIDE DEF n
<1>9. n \in Nat /\ [key |-> k, n |-> n] \notin used
  <2>1. Cardinality(used) \in Nat
    BY <1>4, FS_CardinalityType
  <2>. QED  BY <1>8, <2>1
<1>. QED  BY <1>5, <1>6, <1>9 DEF Id
-----------------------------------------------------------------------------
\* What every step does to the tables: the invariant of each goes on to hold,
\* no pass comes to have listed a row of the operator's, and a tier that a pass
\* has read is still a pass's or the operator's.
TablesStep ==
  /\ RowsOK' /\ HeldOK' /\ ChildrenOK' /\ ProviderOK'
  /\ \A w \in Workers, k \in Keys :
       rows'[k] # NoRow /\ rows'[k].id \in worker[w].stale \cup worker[w].gone
         => rows'[k].source # "manual"
  /\ \A w \in Workers :
       rows'[Tier] # NoRow /\ rows'[Tier].id = worker[w].tierId
         => rows[Tier] # NoRow /\ rows[Tier].id = rows'[Tier].id /\ rows[Tier].auto = rows'[Tier].auto

\* What a step of a pass does to them, all but two kinds of it.
RowsKept ==
  \A k \in Present \ {Fallback} :
     /\ rows'[k] # NoRow /\ rows'[k].id = rows[k].id
     /\ IsManual(rows[k]) => rows'[k] = rows[k]
KeepsWork == RowsKept /\ \A c \in children : c.child.key # Fallback => c \in children'

\* What each step of pass w does.
WorkKept(w) ==
  /\ RowsKept
  /\ \A c \in children \ children' :
        \/ c.child.key = Fallback \/ StandsIn(worker[w])
        \/ rows[Tier].auto /\ ~IsManual(rows[c.child.key])

\* In state s pass w has listed no more rows than before, and is at no other tier.
NoMore(w, s) ==
  /\ s.stale \subseteq worker[w].stale /\ s.gone \subseteq worker[w].gone
  /\ AtTier(s) => AtTier(worker[w]) /\ s.tierId = worker[w].tierId

LEMMA KeysApart ==
  /\ Fallback \in Keys /\ Tier \in Keys /\ Models \subseteq Keys
  /\ Fallback # Tier /\ Fallback \notin Models /\ Tier \notin Models
BY KeysAssumption DEF Keys, KeysAssumption

\* Nothing is written.
LEMMA Quiet ==
  ASSUME IInv, UNCHANGED <<tables, held>>
  PROVE  TablesStep /\ KeepsWork
<1>1. UNCHANGED <<rows, children, provider, held>>
  BY DEF tables
<1>2. RowsOK' /\ HeldOK' /\ ChildrenOK' /\ ProviderOK'
  BY <1>1 DEF IInv, RowsOK, HeldOK, ChildrenOK, ProviderOK, Present, IdsOf
<1>. QED  BY <1>1, <1>2 DEF IInv, StaleOK, IsManual, TablesStep, KeepsWork, RowsKept, Present

\* A row is stored under a key that had none.
LEMMA RowIsNew ==
  ASSUME IInv, NEW k \in Keys, rows[k] = NoRow, NEW row \in Row,
         row.id = FreshId(k), k = Fallback => row.source # "manual",
         StoreRow(k, row)
  PROVE  TablesStep /\ KeepsWork
<1>1. /\ rows' = [rows EXCEPT ![k] = row] /\ rows \in [Keys -> Row \cup {NoRow}]
      /\ children' = children /\ provider' = provider
      /\ held' = held \cap IdsOf(rows')
  BY DEF StoreRow, Store, IInv, RowsOK
<1>2. /\ rows'[k] = row /\ row # NoRow /\ row.id.key = k
      /\ row.id \notin IdsOf(rows)
      /\ \A w \in Workers : /\ row.id \notin worker[w].stale \cup worker[w].gone
                           /\ row.id # worker[w].tierId
  BY <1>1, FreshIsFresh, NoRowAssumption DEF NoRowAssumption
<1>3. \A x \in Keys \ {k} : rows'[x] = rows[x]
  BY <1>1
<1>4. RowsOK'
  BY <1>1, <1>2, <1>3, KeysApart DEF IInv, RowsOK, Present, IsManual
<1>5. HeldOK'
  <2>1. row.id \notin held'
    BY <1>1, <1>2 DEF IInv, HeldOK
  <2>. QED  BY <1>1, <1>2, <1>3, <2>1 DEF IInv, HeldOK, Present, IdsOf
<1>6. ChildrenOK' /\ ProviderOK'
  <2>1. IdsOf(rows) \subseteq IdsOf(rows')
    BY <1>3 DEF IdsOf
  <2>. QED  BY <1>1, <2>1 DEF IInv, ChildrenOK, ProviderOK
<1>7. KeepsWork
  BY <1>1, <1>3 DEF KeepsWork, RowsKept, Present
<1>8. \A w \in Workers : rows'[Tier] # NoRow /\ rows'[Tier].id = worker[w].tierId
        => rows[Tier] # NoRow /\ rows[Tier].id = rows'[Tier].id /\ rows[Tier].auto = rows'[Tier].auto
  BY <1>2, <1>3, KeysApart
<1>9. \A w \in Workers, x \in Keys :
        rows'[x] # NoRow /\ rows'[x].id \in worker[w].stale \cup worker[w].gone
          => rows'[x].source # "manual"
  BY <1>2, <1>3 DEF IInv, StaleOK, Present, IsManual
<1>. QED  BY <1>4, <1>5, <1>6, <1>7, <1>8, <1>9 DEF TablesStep

\* A row changes, but neither its id nor who made it.
LEMMA RowChanges ==
  ASSUME IInv, NEW k \in Keys, rows[k] # NoRow, NEW row \in Row,
         row.id = rows[k].id, row.source = rows[k].source \/ row.source # "manual",
         row.auto = rows[k].auto,
         rows' = [rows EXCEPT ![k] = row], UNCHANGED <<children, provider>>,
         held' \subseteq held \cup {row.id},
         k # Fallback /\ row.id \in held' => ~row.enabled /\ ~row.marker
  PROVE  TablesStep /\ (~IsManual(rows[k]) => KeepsWork)
<1>1. rows \in [Keys -> Row \cup {NoRow}]
  BY DEF IInv, RowsOK
<1>2. rows'[k] = row /\ row # NoRow /\ row.id.key = k
  BY <1>1, NoRowAssumption DEF NoRowAssumption, IInv, RowsOK, Present
<1>3. \A x \in Keys \ {k} : rows'[x] = rows[x]
  BY <1>1
<1>4. RowsOK'
  BY <1>1, <1>2, <1>3, KeysApart DEF IInv, RowsOK, Present, IsManual
<1>5. IdsOf(rows') = IdsOf(rows)
  BY <1>2, <1>3 DEF IdsOf
<1>6. HeldOK'
  <2>1. held' \subseteq IdsOf(rows')
    BY <1>5 DEF IInv, HeldOK, IdsOf
  <2>2. ASSUME NEW x \in Present' \ {Fallback}, rows'[x].id \in held'
        PROVE  ~rows'[x].enabled /\ ~rows'[x].marker
    <3>1. CASE x = k
      BY <1>2, <2>2, <3>1
    <3>2. CASE x # k
      <4>1. x \in Present \ {Fallback} /\ rows'[x] = rows[x]
        BY <1>3, <2>2, <3>2 DEF Present
      <4>2. rows[x].id.key = x
        BY <4>1 DEF IInv, RowsOK
      <4>3. rows[x].id \in held
        BY <1>2, <2>2, <3>2, <4>1, <4>2
      <4>. QED  BY <4>1, <4>3 DEF IInv, HeldOK
    <3>. QED  BY <3>1, <3>2
  <2>. QED  BY <2>1, <2>2 DEF HeldOK
<1>7. ChildrenOK' /\ ProviderOK'
  BY <1>5 DEF IInv, ChildrenOK, ProviderOK
<1>8. ~IsManual(rows[k]) => KeepsWork
  BY <1>2, <1>3 DEF KeepsWork, RowsKept, Present
<1>9. \A w \in Workers : rows'[Tier] # NoRow /\ rows'[Tier].id = worker[w].tierId
        => rows[Tier] # NoRow /\ rows[Tier].id = rows'[Tier].id /\ rows[Tier].auto = rows'[Tier].auto
  BY <1>2, <1>3, KeysApart
<1>10. \A w \in Workers, x \in Keys :
         rows'[x] # NoRow /\ rows'[x].id \in worker[w].stale \cup worker[w].gone
           => rows'[x].source # "manual"
  BY <1>2, <1>3 DEF IInv, StaleOK, Present, IsManual
<1>. QED
  BY <1>4, <1>6, <1>7, <1>8, <1>9, <1>10 DEF TablesStep

\* Rows are deleted, and with them what they are parent or child of.
LEMMA RowsGo ==
  ASSUME IInv, NEW ks \in SUBSET Present, DeleteRows(ks)
  PROVE  /\ TablesStep
         /\ ks = {Fallback} => KeepsWork
<1>1. /\ rows' = [k \in Keys |-> IF k \in ks THEN NoRow ELSE rows[k]]
      /\ children' = ChildrenWithout({rows[k].id : k \in ks})
      /\ provider' = provider /\ held' = held \cap IdsOf(rows')
  BY DEF DeleteRows, Store
<1>2. \A k \in Keys : rows'[k] = NoRow \/ rows'[k] = rows[k]
  BY <1>1
<1>3. RowsOK'
  BY <1>1, <1>2, KeysApart DEF IInv, RowsOK, Present, IsManual
<1>4. HeldOK'
  BY <1>1, <1>2 DEF IInv, HeldOK, Present, IdsOf
<1>5. ChildrenOK' /\ ProviderOK'
  <2>. DEFINE ids == {rows[k].id : k \in ks}
  <2>1. \A id \in IdsOf(rows) \ ids : id \in IdsOf(rows')
    <3>1. ASSUME NEW id \in IdsOf(rows), id \notin ids
          PROVE  id \in IdsOf(rows')
      <4>1. PICK k \in Keys : rows[k] # NoRow /\ id = rows[k].id
        BY <3>1 DEF IdsOf
      <4>2. k \notin ks
        BY <3>1, <4>1
      <4>. QED  BY <1>1, <4>1, <4>2 DEF IdsOf
    <3>. QED  BY <3>1
  <2>2. children' \subseteq children
    BY <1>1 DEF ChildrenWithout
  <2>3. IsFiniteSet(children')
    BY <2>2, FS_Subset DEF IInv, ChildrenOK
  <2>4. \A c \in children' : c.parent \notin ids /\ c.child \notin ids
    BY <1>1 DEF ChildrenWithout
  <2>. HIDE DEF ids
  <2>5. \A c \in children' : c.parent.key = Tier /\ {c.parent, c.child} \subseteq IdsOf(rows')
    BY <2>1, <2>2, <2>4 DEF IInv, ChildrenOK
  <2>. QED  BY <1>1, <2>3, <2>5 DEF IInv, ChildrenOK, ProviderOK
<1>6. ASSUME ks = {Fallback}
      PROVE  KeepsWork
  <2>1. rows[Fallback].id.key = Fallback
    BY <1>6 DEF IInv, RowsOK
  <2>2. \A c \in children : c.parent.key = Tier
    BY DEF IInv, ChildrenOK
  <2>3. \A c \in children : c.child.key # Fallback => c \in children'
    BY <1>1, <1>6, <2>1, <2>2, KeysApart DEF ChildrenWithout
  <2>. QED  BY <1>1, <1>6, <2>3 DEF KeepsWork, RowsKept, Present
<1>7. \A w \in Workers : rows'[Tier] # NoRow /\ rows'[Tier].id = worker[w].tierId
        => rows[Tier] # NoRow /\ rows[Tier].id = rows'[Tier].id /\ rows[Tier].auto = rows'[Tier].auto
  BY <1>2, KeysApart
<1>8. \A w \in Workers, x \in Keys :
        rows'[x] # NoRow /\ rows'[x].id \in worker[w].stale \cup worker[w].gone
          => rows'[x].source # "manual"
  BY <1>2 DEF IInv, StaleOK, Present, IsManual
<1>. QED  BY <1>3, <1>4, <1>5, <1>6, <1>7, <1>8 DEF TablesStep
-----------------------------------------------------------------------------
\* The tier stays when a pass writes.
LEMMA TierStays ==
  ASSUME IInv, RowsKept, UNCHANGED operator
  PROVE  TierThere' /\ OperatorOK'
<1>1. rows[Tier] # NoRow => rows'[Tier] # NoRow
  BY KeysApart DEF RowsKept, Present
<1>. QED  BY <1>1 DEF IInv, TierThere, OperatorOK

\* A pass in a state of its own has a state of its own next.
LEMMA OnePassMoves ==
  ASSUME IInv, NEW w \in Workers, NEW s, PassOK(s), Continues(w, s),
         worker[w].pc # "idle" \/ left > 0
  PROVE  /\ WorkersOK' /\ LeftOK' /\ worker'[w] = s
         /\ \A v \in Workers \ {w} : worker'[v] = worker[v]
<1>1. worker = [v \in Workers |-> worker[v]] /\ worker' = [worker EXCEPT ![w] = s]
  BY DEF IInv, WorkersOK, Continues
<1>2. worker'[w] = s /\ \A v \in Workers \ {w} : worker'[v] = worker[v]
  BY <1>1
<1>3. worker' = [v \in Workers |-> worker'[v]]
  BY <1>1
<1>4. WorkersOK'
  BY <1>2, <1>3 DEF IInv, WorkersOK, PassOK, FieldsOf
<1>5. LeftOK'
  <2>1. worker[w] = Idle => left > 0
    BY DEF Idle
  <2>. QED  BY <2>1, SizeAssumption DEF SizeAssumption, Continues, IInv, LeftOK
<1>. QED  BY <1>2, <1>4, <1>5

\* A pass in a state whose lists are right keeps the invariant with its tables.
LEMMA PassMoves ==
  ASSUME IInv, NEW w \in Workers, NEW s, Continues(w, s),
         worker[w].pc # "idle" \/ left > 0, PassOK(s), TablesStep, RowsKept,
         \A k \in Keys : rows'[k] # NoRow /\ rows'[k].id \in s.stale \cup s.gone
           => rows'[k].source # "manual",
         AtTier(s) /\ s.gone # {} /\ rows'[Tier] # NoRow /\ rows'[Tier].id = s.tierId
           => rows'[Tier].auto
  PROVE  IInv'
<1>1. TierThere' /\ OperatorOK'
  BY TierStays DEF Continues
<1>2. /\ WorkersOK' /\ LeftOK' /\ worker'[w] = s
      /\ \A v \in Workers \ {w} : worker'[v] = worker[v]
  BY OnePassMoves
<1>3. StaleOK'
  BY <1>2 DEF TablesStep, StaleOK, Present, IsManual
<1>4. AutoOK'
  <2>1. ASSUME NEW v \in Workers \ {w}, AtTier(worker[v]), worker[v].gone # {},
               rows'[Tier] # NoRow, rows'[Tier].id = worker[v].tierId
        PROVE  rows'[Tier].auto
    BY <2>1 DEF TablesStep, IInv, AutoOK
  <2>. QED  BY <1>2, <2>1 DEF AutoOK
<1>. QED  BY <1>1, <1>2, <1>3, <1>4 DEF IInv, TablesStep

\* That is so of a pass which lists no further rows.
LEMMA PassKeeps ==
  ASSUME IInv, NEW w \in Workers, NEW s, Continues(w, s),
         worker[w].pc # "idle" \/ left > 0, PassOK(s), NoMore(w, s), TablesStep, RowsKept
  PROVE  IInv'
<1>1. \A k \in Keys : rows'[k] # NoRow /\ rows'[k].id \in s.stale \cup s.gone
        => rows'[k].source # "manual"
  BY DEF NoMore, TablesStep
<1>2. AtTier(s) /\ s.gone # {} /\ rows'[Tier] # NoRow /\ rows'[Tier].id = s.tierId
        => rows'[Tier].auto
  BY DEF NoMore, TablesStep, IInv, AutoOK
<1>. QED  BY <1>1, <1>2, PassMoves

LEMMA PassGoesOn ==
  ASSUME IInv, NEW w \in Workers, NEW s, Continues(w, s),
         worker[w].pc # "idle" \/ left > 0, PassOK(s), NoMore(w, s), TablesStep, KeepsWork
  PROVE  IInv' /\ KeepsWork
BY PassKeeps DEF KeepsWork

\* The same without a write.
LEMMA PassReads ==
  ASSUME IInv, NEW w \in Workers, NEW s, Continues(w, s),
         worker[w].pc # "idle" \/ left > 0, PassOK(s), NoMore(w, s), Same
  PROVE  IInv' /\ KeepsWork
BY PassGoesOn, Quiet DEF Same

\* A pass that does nothing, or is past its sync, remembers no rows.
LEMMA IdleOK == PassOK(Idle) /\ Idle.stale = {} /\ Idle.gone = {} /\ \A w : NoMore(w, Idle)
BY FS_EmptySet DEF PassOK, FieldsOf, Idle, NoMore, AtTier

LEMMA AfterSyncOK ==
  ASSUME NEW w, NEW pc, pc \notin {"children", "append"}
  PROVE  PassOK(AfterSync(w, pc)) /\ NoMore(w, AfterSync(w, pc))
BY FS_EmptySet DEF PassOK, FieldsOf, Idle, AfterSync, NoMore, AtTier

\* A sync that throws leaves a pass that remembers nothing.
LEMMA SyncThrowsStep ==
  ASSUME IInv, NEW w \in Workers, worker[w].pc # "idle", SyncThrows(w), Same
  PROVE  IInv' /\ KeepsWork
<1>. DEFINE a == AfterSync(w, "fallbackFind")
            s == [a EXCEPT !.changed = worker[w].changed]
<1>1. PassOK(s) /\ NoMore(w, s)
  BY FS_EmptySet DEF PassOK, FieldsOf, Idle, AfterSync, NoMore, AtTier
<1>. HIDE DEF s
<1>2. Continues(w, s) \/ Continues(w, Idle)
  BY DEF SyncThrows, Throw, s
<1>. QED  BY <1>1, <1>2, IdleOK, PassReads

\* An error outside the sync ends the pass.
LEMMA PassThrowsStep ==
  ASSUME IInv, NEW w \in Workers, worker[w].pc # "idle", PassThrows(w), Same
  PROVE  IInv' /\ KeepsWork
BY IdleOK, PassReads DEF PassThrows, Throw

-----------------------------------------------------------------------------
\* The steps that read: a pass starts, looks something up, or is done with it.
LEMMA StartSteps ==
  ASSUME IInv, NEW w \in Workers, Start(w)
  PROVE  IInv' /\ KeepsWork
<1>1. left > 0 /\ Same
  BY DEF Start, StartReconcile, StartRefresh, StartSync, Reads, Same, tables
<1>2. CASE StartReconcile(w)
  <2>1. PICK pc \in {"providerFind", "staleList", "finish"} :
          Move(w, [Idle EXCEPT !.kind = "reconcile", !.pc = pc])
    BY <1>2 DEF StartReconcile
  <2>. DEFINE s == [Idle EXCEPT !.kind = "reconcile", !.pc = pc]
  <2>2. PassOK(s) /\ NoMore(w, s)
    BY FS_EmptySet DEF PassOK, FieldsOf, Idle, NoMore, AtTier
  <2>. HIDE DEF s
  <2>3. Continues(w, s)
    BY <2>1 DEF Move, s
  <2>. QED  BY <1>1, <2>2, <2>3, PassReads
<1>3. CASE StartRefresh(w)
  <2>. DEFINE s == [Idle EXCEPT !.kind = "refresh", !.pc = "peek", !.prov = provider.id]
  <2>1. PassOK(s) /\ NoMore(w, s)
    BY FS_EmptySet DEF PassOK, FieldsOf, Idle, NoMore, AtTier
  <2>2. Continues(w, s)
    BY <1>3 DEF StartRefresh, Move
  <2>. HIDE DEF s
  <2>. QED  BY <1>1, <2>1, <2>2, PassReads
<1>4. CASE StartSync(w)
  <2>. DEFINE s == [Idle EXCEPT !.kind = "sync", !.pc = "discover", !.prov = provider.id]
  <2>1. PassOK(s) /\ NoMore(w, s)
    BY FS_EmptySet DEF PassOK, FieldsOf, Idle, NoMore, AtTier
  <2>2. Continues(w, s)
    BY <1>4 DEF StartSync, Move
  <2>. HIDE DEF s
  <2>. QED  BY <1>1, <2>1, <2>2, PassReads
<1>. QED  BY <1>2, <1>3, <1>4 DEF Start

LEMMA FindProviderStep ==
  ASSUME IInv, NEW w \in Workers, FindProvider(w)
  PROVE  IInv' /\ KeepsWork
<1>. DEFINE s == [worker[w] EXCEPT !.pc = "providerWrite", !.found = provider]
<1>1. PassOK(s) /\ NoMore(w, s)
  BY DEF IInv, WorkersOK, PassOK, FieldsOf, NoMore, AtTier
<1>2. Continues(w, s) /\ Same /\ worker[w].pc # "idle"
  BY DEF FindProvider, Move, Reads, Same, tables, At
<1>. HIDE DEF s
<1>. QED  BY <1>1, <1>2, PassReads

LEMMA PeekRowsStep ==
  ASSUME IInv, NEW w \in Workers, PeekRows(w)
  PROVE  IInv' /\ KeepsWork
<1>. DEFINE had == \E k \in Present : rows[k].provider = worker[w].prov /\ ~IsManual(rows[k])
            s == [worker[w] EXCEPT !.pc = "discover", !.hadRows = had]
<1>1. Continues(w, s) /\ Same /\ worker[w].pc # "idle"
  BY DEF PeekRows, Move, Reads, Same, tables, At
<1>. HIDE DEF had
<1>2. PassOK(s) /\ NoMore(w, s)
  BY DEF IInv, WorkersOK, PassOK, FieldsOf, NoMore, AtTier
<1>. HIDE DEF s
<1>. QED  BY <1>1, <1>2, PassReads

LEMMA DiscoverStep ==
  ASSUME IInv, NEW w \in Workers, Discover(w)
  PROVE  IInv' /\ KeepsWork
<1>1. Same /\ worker[w].pc # "idle"
  BY DEF Discover, Reads, Same, tables, At
<1>2. CASE SyncThrows(w)
  BY <1>1, <1>2, SyncThrowsStep
<1>3. CASE Continues(w, Idle)
  BY <1>1, <1>3, IdleOK, PassReads
<1>4. ASSUME NEW offers \in SUBSET Models, NEW tags \in SUBSET offers,
             Continues(w, [worker[w] EXCEPT !.pc = "list", !.hadRows = FALSE, !.tags = tags,
                                            !.disc = offers, !.todo = offers])
      PROVE  IInv' /\ KeepsWork
  <2>. DEFINE s == [worker[w] EXCEPT !.pc = "list", !.hadRows = FALSE, !.tags = tags,
                                     !.disc = offers, !.todo = offers]
  <2>1. PassOK(s) /\ NoMore(w, s)
    BY DEF IInv, WorkersOK, PassOK, FieldsOf, NoMore, AtTier
  <2>2. Continues(w, s)
    BY <1>4
  <2>. HIDE DEF s
  <2>. QED  BY <1>1, <2>1, <2>2, PassReads
<1>. QED  BY <1>2, <1>3, <1>4 DEF Discover, Move

LEMMA ListRowsStep ==
  ASSUME IInv, NEW w \in Workers, ListRows(w)
  PROVE  IInv' /\ KeepsWork
<1>. DEFINE known == [m \in Models |-> IF rows[m] # NoRow /\ rows[m].provider = worker[w].prov
                                       THEN rows[m] ELSE NoRow]
            s == [worker[w] EXCEPT !.pc = "sync", !.known = known]
<1>1. Continues(w, s) /\ Same /\ worker[w].pc # "idle"
  BY DEF ListRows, Move, Reads, Same, tables, At
<1>. HIDE DEF known
<1>2. PassOK(s) /\ NoMore(w, s)
  BY DEF IInv, WorkersOK, PassOK, FieldsOf, NoMore, AtTier
<1>. HIDE DEF s
<1>. QED  BY <1>1, <1>2, PassReads

LEMMA FindRacedStep ==
  ASSUME IInv, NEW w \in Workers, NEW m \in Models, FindRaced(w, m)
  PROVE  IInv' /\ KeepsWork
<1>. DEFINE kept == Kept(w, m)
            known == [worker[w].known EXCEPT ![m] = rows[m]]
            s == [worker[w] EXCEPT !.pc = "sync", !.found = NoRow, !.known = known]
<1>1. /\ SyncThrows(w) \/ Continues(w, kept) \/ Continues(w, s)
      /\ Same /\ worker[w].pc # "idle"
  BY DEF FindRaced, Move, Reads, Same, tables, At
<1>2. PassOK(kept) /\ NoMore(w, kept)
  BY DEF IInv, WorkersOK, PassOK, FieldsOf, Kept, NoMore, AtTier
<1>. HIDE DEF known, kept
<1>3. PassOK(s) /\ NoMore(w, s)
  BY DEF IInv, WorkersOK, PassOK, FieldsOf, NoMore, AtTier
<1>. HIDE DEF s
<1>. QED  BY <1>1, <1>2, <1>3, PassReads, SyncThrowsStep

\* The pass goes to the tier with models to take out only when a pass had made it.
LEMMA FindTierStep ==
  ASSUME IInv, NEW w \in Workers, FindTier(w)
  PROVE  IInv' /\ KeepsWork
<1>. DEFINE gone == IF rows[Tier] # NoRow /\ AutoTier(rows[Tier]) THEN worker[w].gone ELSE {}
            s == [worker[w] EXCEPT !.known = Nothing, !.tags = {}, !.gone = gone]
            a == [s EXCEPT !.pc = "syncRefresh"]
            b(d) == [s EXCEPT !.pc = "tierCreate", !.default = d]
            c(d) == [s EXCEPT !.pc = "children", !.tierId = rows[Tier].id, !.default = d]
<1>1. /\ \/ Continues(w, a)
         \/ \E d : Continues(w, b(d)) \/ (rows[Tier] # NoRow /\ Continues(w, c(d)))
      /\ Same /\ worker[w].pc # "idle"
  BY DEF FindTier, Move, Reads, Same, tables, At
<1>2. gone \subseteq worker[w].gone /\ (gone # {} => rows[Tier].auto)
  BY DEF AutoTier
<1>. HIDE DEF gone
<1>3. /\ PassOK(worker[w]) /\ s \in FieldsOf(s) /\ IsFiniteSet(gone)
      /\ s.gone = gone /\ s.stale = worker[w].stale
      /\ s.mine = worker[w].mine /\ s.kids = worker[w].kids
  BY <1>2, FS_Subset DEF IInv, WorkersOK, PassOK, FieldsOf
<1>4. rows[Tier] # NoRow => rows[Tier].id.key = Tier
  BY KeysApart DEF IInv, RowsOK, Present
<1>. HIDE DEF s
<1>5. PassOK(a) /\ NoMore(w, a)
  BY <1>2, <1>3 DEF PassOK, FieldsOf, NoMore, AtTier
<1>6. ASSUME NEW d
      PROVE  PassOK(b(d)) /\ NoMore(w, b(d))
  BY <1>2, <1>3 DEF PassOK, FieldsOf, NoMore, AtTier
<1>7. ASSUME NEW d, rows[Tier] # NoRow
      PROVE  PassOK(c(d)) /\ c(d).gone = gone /\ c(d).stale = worker[w].stale
  BY <1>3, <1>4, <1>7 DEF PassOK, FieldsOf
<1>8. TablesStep /\ KeepsWork /\ rows' = rows
  BY <1>1, Quiet DEF Same, tables
<1>9. ASSUME NEW d, rows[Tier] # NoRow, Continues(w, c(d))
      PROVE  IInv'
  <2>1. PassOK(c(d)) /\ c(d).gone = gone /\ c(d).stale = worker[w].stale
    BY <1>7, <1>9
  <2>. HIDE DEF c
  <2>2. \A k \in Keys : rows'[k] # NoRow /\ rows'[k].id \in c(d).stale \cup c(d).gone
          => rows'[k].source # "manual"
    BY <1>2, <1>8, <2>1 DEF TablesStep
  <2>3. c(d).gone # {} => rows'[Tier].auto
    BY <1>2, <1>8, <2>1
  <2>. QED  BY <1>1, <1>8, <1>9, <2>1, <2>2, <2>3, PassMoves DEF KeepsWork
<1>. HIDE DEF a, b, c
<1>. QED  BY <1>1, <1>5, <1>6, <1>8, <1>9, PassReads

\* The pass looks for what it is to append and to take out among the children.
LEMMA ListChildrenStep ==
  ASSUME IInv, NEW w \in Workers, ListChildren(w)
  PROVE  IInv' /\ KeepsWork
<1>. DEFINE kids == {c \in children : c.parent = worker[w].tierId}
            mine == worker[w].mine \ ChildIds(kids)
            gone == worker[w].gone \cap ChildIds(kids)
            s == [worker[w] EXCEPT !.pc = "append", !.kids = kids, !.mine = mine, !.gone = gone]
<1>1. At(w, "children") /\ Same
  BY DEF ListChildren, Reads, Same, tables
<1>2. Continues(w, s)
  BY DEF ListChildren, Move, IInv, WorkersOK, PassOK, FieldsOf
<1>3. IsFiniteSet(kids) /\ IsFiniteSet(mine) /\ IsFiniteSet(gone)
  BY FS_Subset DEF IInv, WorkersOK, PassOK, ChildrenOK
<1>4. gone \subseteq worker[w].gone
  OBVIOUS
<1>. HIDE DEF mine, gone, kids
<1>5. PassOK(s) /\ NoMore(w, s)
  BY <1>1, <1>3, <1>4 DEF IInv, WorkersOK, PassOK, FieldsOf, At, NoMore, AtTier
<1>. HIDE DEF s
<1>. QED  BY <1>1, <1>2, <1>5, PassReads DEF At

LEMMA AppendedStep ==
  ASSUME IInv, NEW w \in Workers, Appended(w)
  PROVE  IInv' /\ KeepsWork
<1>. DEFINE s == [worker[w] EXCEPT !.pc = "syncRefresh"]
<1>1. Continues(w, s) /\ Same /\ worker[w].pc # "idle"
  BY DEF Appended, MoveTo, Move, Reads, Same, tables, At
<1>2. PassOK(s) /\ NoMore(w, s)
  BY DEF IInv, WorkersOK, PassOK, FieldsOf, NoMore, AtTier
<1>. HIDE DEF s
<1>. QED  BY <1>1, <1>2, PassReads

\* A refresh writes no rows.
LEMMA SyncRefreshStep ==
  ASSUME IInv, NEW w \in Workers, SyncRefresh(w)
  PROVE  IInv' /\ KeepsWork
<1>1. /\ worker[w].pc # "idle" /\ UNCHANGED <<tables, held>>
      /\ \/ Continues(w, Idle) \/ Continues(w, AfterSync(w, "dropFind"))
         \/ Continues(w, AfterSync(w, "finish"))
  BY DEF SyncRefresh, Move, At
<1>2. TablesStep /\ KeepsWork
  BY <1>1, Quiet
<1>. QED  BY <1>1, <1>2, IdleOK, AfterSyncOK, PassGoesOn
-----------------------------------------------------------------------------
\* The steps that write.  Tables and history first: only rows change.
LEMMA RowIsStored ==
  ASSUME IInv, NEW k \in Keys, rows[k] # NoRow, NEW row \in Row,
         row.id = rows[k].id, row.source = rows[k].source \/ row.source # "manual",
         row.auto = rows[k].auto,
         k # Fallback /\ row.id \in held => ~row.enabled /\ ~row.marker,
         StoreRow(k, row)
  PROVE  TablesStep /\ (~IsManual(rows[k]) => KeepsWork)
<1>1. /\ rows' = [rows EXCEPT ![k] = row] /\ UNCHANGED <<children, provider>>
      /\ held' \subseteq held
  BY DEF StoreRow, Store
<1>. QED  BY <1>1, RowChanges

\* A change to the providers row alone.
LEMMA ProviderIsStored ==
  ASSUME IInv, NEW p, Store(rows, children, p),
         p # NoRow => p = [id |-> p.id, enabled |-> p.enabled] /\ p.id \in Id
  PROVE  TablesStep /\ KeepsWork
<1>1. UNCHANGED <<rows, children>> /\ provider' = p /\ held' = held \cap IdsOf(rows)
  BY DEF Store
<1>2. held' = held
  BY <1>1 DEF IInv, HeldOK
<1>3. RowsOK' /\ HeldOK' /\ ChildrenOK'
  BY <1>1, <1>2 DEF IInv, RowsOK, HeldOK, ChildrenOK, Present, IdsOf
<1>4. ProviderOK'
  BY <1>1 DEF ProviderOK
<1>. QED
  BY <1>1, <1>3, <1>4 DEF IInv, StaleOK, IsManual, TablesStep, KeepsWork, RowsKept, Present

LEMMA WriteProviderStep ==
  ASSUME IInv, NEW w \in Workers, WriteProvider(w)
  PROVE  IInv' /\ KeepsWork
<1>. DEFINE found == worker[w].found
            id == ProviderId(1 + MaxRuns - left)
            same == provider # NoRow /\ provider.id = found.id
            on == provider.enabled \/ ~found.enabled
            p == IF same THEN [provider EXCEPT !.enabled = on] ELSE provider
            made == [id |-> id, enabled |-> TRUE]
            s(i, wrote) == [worker[w] EXCEPT !.pc = "discover", !.prov = i,
                                    !.found = NoRow, !.changed = @ \/ wrote]
<1>1. worker[w].pc # "idle"
  BY DEF WriteProvider, At
<1>2. ASSUME NEW i, NEW wrote
      PROVE  PassOK(s(i, wrote)) /\ NoMore(w, s(i, wrote))
  BY DEF IInv, WorkersOK, PassOK, FieldsOf, NoMore, AtTier
<1>3. CASE PassThrows(w) /\ Same
  BY <1>1, <1>3, PassThrowsStep
<1>4. CASE Store(rows, children, made) /\ Continues(w, s(id, TRUE))
  <2>1. id \in Id
    BY SizeAssumption DEF SizeAssumption, IInv, LeftOK, ProviderId, Id
  <2>. HIDE DEF id
  <2>2. TablesStep /\ KeepsWork
    BY <1>4, <2>1, ProviderIsStored
  <2>. HIDE DEF s
  <2>. QED  BY <1>1, <1>2, <1>4, <2>2, PassGoesOn
<1>5. CASE Store(rows, children, p) /\ Continues(w, s(found.id, ~found.enabled))
  <2>1. p # NoRow => p = [id |-> p.id, enabled |-> p.enabled] /\ p.id \in Id
    <3>. HIDE DEF on
    <3>. QED  BY DEF IInv, ProviderOK
  <2>. HIDE DEF p, s
  <2>2. TablesStep /\ KeepsWork
    BY <1>5, <2>1, ProviderIsStored
  <2>. QED  BY <1>1, <1>2, <1>5, <2>2, PassGoesOn
<1>. QED  BY <1>3, <1>4, <1>5 DEF WriteProvider, Move

\* What a pass is after it wrote a model or left one alone.
LEMMA WroteOK ==
  ASSUME IInv, NEW w \in Workers, NEW m, NEW row, NEW hadTag
  PROVE  LET s == Wrote(w, m, row, hadTag)
         IN  /\ PassOK(s) /\ s.pc = "sync" /\ s.stale = worker[w].stale
             /\ s.gone = worker[w].gone
                  \cup {id \in {row.id} : row.enabled /\ hadTag /\ ~row.tagged}
<1>. DEFINE one == {id \in {row.id} : row.enabled /\ row.tagged}
            two == {id \in {row.id} : row.enabled /\ hadTag /\ ~row.tagged}
            mine == worker[w].mine \cup one
            gone == worker[w].gone \cup two
            todo == worker[w].todo \ {m}
<1>1. IsFiniteSet(one) /\ IsFiniteSet(two)
  <2>1. IsFiniteSet({row.id}) /\ one \subseteq {row.id} /\ two \subseteq {row.id}
    BY FS_Singleton
  <2>. QED  BY <2>1, FS_Subset
<1>2. Wrote(w, m, row, hadTag) =
        [worker[w] EXCEPT !.todo = todo, !.found = NoRow, !.wrote = TRUE,
                          !.pc = "sync", !.mine = mine, !.gone = gone]
  BY DEF Wrote, IInv, WorkersOK, PassOK, FieldsOf
<1>. HIDE DEF one, two
<1>3. IsFiniteSet(mine) /\ IsFiniteSet(gone)
  BY <1>1, FS_Union DEF IInv, WorkersOK, PassOK
<1>. HIDE DEF mine, gone, todo
<1>4. LET s == Wrote(w, m, row, hadTag)
      IN  PassOK(s) /\ s.pc = "sync" /\ s.stale = worker[w].stale /\ s.gone = gone
  BY <1>2, <1>3 DEF IInv, WorkersOK, PassOK, FieldsOf
<1>. QED  BY <1>4 DEF gone, two

\* The row written is not the operator's.
LEMMA WroteGoesOn ==
  ASSUME IInv, NEW w \in Workers, NEW m, NEW row, NEW hadTag,
         worker[w].pc # "idle" \/ left > 0, TablesStep, KeepsWork,
         Continues(w, Wrote(w, m, row, hadTag)),
         hadTag /\ ~row.tagged => \A k \in Keys : rows'[k] # NoRow /\ rows'[k].id = row.id
                                    => rows'[k].source # "manual"
  PROVE  IInv' /\ KeepsWork
<1>. DEFINE s == Wrote(w, m, row, hadTag)
            two == {id \in {row.id} : row.enabled /\ hadTag /\ ~row.tagged}
<1>1. PassOK(s) /\ s.pc = "sync" /\ s.stale = worker[w].stale /\ s.gone = worker[w].gone \cup two
  BY WroteOK
<1>2. \A id \in two : \A k \in Keys : rows'[k] # NoRow /\ rows'[k].id = id
        => rows'[k].source # "manual"
  OBVIOUS
<1>. HIDE DEF s, two
<1>3. \A k \in Keys : rows'[k] # NoRow /\ rows'[k].id \in s.stale \cup s.gone
        => rows'[k].source # "manual"
  BY <1>1, <1>2 DEF TablesStep
<1>4. ~AtTier(s)
  BY <1>1 DEF AtTier
<1>5. Continues(w, s)
  BY DEF s
<1>. QED  BY <1>1, <1>3, <1>4, <1>5, PassMoves DEF KeepsWork

LEMMA KeptOK ==
  ASSUME IInv, NEW w \in Workers, NEW m
  PROVE  PassOK(Kept(w, m)) /\ NoMore(w, Kept(w, m))
BY DEF IInv, WorkersOK, PassOK, FieldsOf, Kept, NoMore, AtTier

\* A new row is one of the table.
LEMMA NewModelIsRow ==
  ASSUME IInv, NEW k \in Keys, NEW prov \in Id, NEW source \in {"manual", "synced"}
  PROVE  /\ NewModel(k, prov, source) \in Row
         /\ NewModel(k, prov, source).id = FreshId(k)
         /\ NewModel(k, prov, source).source = source
         /\ \A tagged \in BOOLEAN :
              LET row == [NewModel(k, prov, source) EXCEPT !.tagged = tagged]
              IN  row \in Row /\ row.id = FreshId(k) /\ row.source = source
         /\ LET row == [NewModel(k, prov, source) EXCEPT !.auto = TRUE]
            IN  row \in Row /\ row.id = FreshId(k) /\ row.source = source
BY FreshIsFresh DEF NewModel, Row

LEMMA ExistingProvider ==
  ASSUME IInv, NEW prov, ProviderExists(prov)
  PROVE  prov \in Id
BY DEF ProviderExists, OtherProvider, ProviderId, Id, IInv, ProviderOK

LEMMA CreateModelStep ==
  ASSUME IInv, NEW w \in Workers, NEW m \in Models, CreateModel(w, m)
  PROVE  IInv' /\ KeepsWork
<1>. DEFINE tagged == m \in worker[w].tags
            row == [NewModel(m, worker[w].prov, "synced") EXCEPT !.tagged = tagged]
            found == [id |-> [key |-> m, n |-> 0]]
            todo == {m} \cup worker[w].todo
            s == [worker[w] EXCEPT !.pc = "raced", !.todo = todo, !.found = found]
<1>1. worker[w].pc # "idle"
  BY DEF CreateModel, At
<1>2. CASE /\ rows[m] = NoRow /\ ProviderExists(worker[w].prov)
           /\ StoreRow(m, row) /\ Continues(w, Wrote(w, m, row, FALSE))
  <2>1. tagged \in BOOLEAN
    OBVIOUS
  <2>. HIDE DEF tagged
  <2>2. row \in Row /\ row.id = FreshId(m) /\ row.source = "synced"
    <3>1. worker[w].prov \in Id /\ m \in Keys
      BY <1>2, ExistingProvider, KeysApart
    <3>. QED  BY <2>1, <3>1, NewModelIsRow
  <2>. HIDE DEF row
  <2>3. TablesStep /\ KeepsWork
    BY <1>2, <2>2, RowIsNew, KeysApart
  <2>. QED  BY <1>1, <1>2, <2>3, WroteGoesOn
<1>3. CASE SyncThrows(w) /\ Same
  BY <1>1, <1>3, SyncThrowsStep
<1>4. CASE Continues(w, s) /\ Same
  <2>. HIDE DEF todo, found
  <2>1. PassOK(s) /\ NoMore(w, s)
    BY DEF IInv, WorkersOK, PassOK, FieldsOf, NoMore, AtTier
  <2>. HIDE DEF s
  <2>. QED  BY <1>1, <1>4, <2>1, PassReads
<1>5. \/ /\ rows[m] = NoRow /\ ProviderExists(worker[w].prov)
         /\ StoreRow(m, row) /\ Continues(w, Wrote(w, m, row, FALSE))
      \/ SyncThrows(w) /\ Same
      \/ Continues(w, s) /\ Same
  BY DEF CreateModel, Move, IInv, WorkersOK, PassOK, FieldsOf
<1>. HIDE DEF row, s
<1>. QED  BY <1>2, <1>3, <1>4, <1>5

\* The statement itself looks at the row: its id and that it is not manual.
LEMMA UpdateModelStep ==
  ASSUME IInv, NEW w \in Workers, NEW m \in Models, UpdateModel(w, m)
  PROVE  IInv' /\ KeepsWork
<1>. DEFINE known == worker[w].known[m]
            tagged == m \in worker[w].tags
            row == SyncedUpdate(rows[m], tagged)
            on == rows[m].enabled \/ rows[m].marker
            kept == Kept(w, m)
<1>1. worker[w].pc # "idle"
  BY DEF UpdateModel, At
<1>2. CASE Continues(w, kept) /\ Same
  BY <1>1, <1>2, KeptOK, PassReads
<1>3. CASE /\ rows[m] # NoRow /\ ~IsManual(rows[m])
           /\ StoreRow(m, row) /\ Continues(w, Wrote(w, m, row, known.tagged))
  <2>1. rows[m] \in Row /\ m \in Keys /\ rows[m].id.key = m
    BY <1>3, KeysApart DEF IInv, RowsOK, Present
  <2>2. /\ row \in Row /\ row.id = rows[m].id /\ row.source = "synced"
        /\ row.auto = rows[m].auto
        /\ row.enabled = (rows[m].enabled \/ rows[m].marker) /\ row.marker = FALSE
    <3>1. tagged \in BOOLEAN /\ on \in BOOLEAN
      OBVIOUS
    <3>2. row = [rows[m] EXCEPT !.enabled = on, !.tagged = tagged, !.marker = FALSE,
                                !.fallback = FALSE, !.source = "synced"]
      BY <2>1 DEF SyncedUpdate, Row
    <3>. HIDE DEF tagged, row
    <3>3. row.enabled = on
      <4>. HIDE DEF on
      <4>. QED  BY <2>1, <3>2 DEF Row
    <3>4. row \in Row /\ row.id = rows[m].id /\ row.source = "synced"
          /\ row.auto = rows[m].auto /\ row.marker = FALSE
      <4>. HIDE DEF on
      <4>. QED  BY <2>1, <3>1, <3>2 DEF Row
    <3>. QED  BY <3>3, <3>4
  <2>3. rows[m].id \in held => ~rows[m].enabled /\ ~rows[m].marker
    BY <1>3, KeysApart DEF IInv, HeldOK, Present
  <2>. HIDE DEF row
  <2>4. TablesStep /\ KeepsWork
    BY <1>3, <2>1, <2>2, <2>3, RowIsStored, KeysApart
  <2>5. rows' = [rows EXCEPT ![m] = row] /\ rows \in [Keys -> Row \cup {NoRow}]
    BY <1>3 DEF StoreRow, Store, IInv, RowsOK
  <2>6. \A k \in Keys : rows'[k] # NoRow /\ rows'[k].id = row.id => rows'[k].source # "manual"
    <3>1. \A k \in Keys \ {m} : rows'[k] # NoRow => rows'[k].id # row.id
      BY <2>1, <2>2, <2>5 DEF IInv, RowsOK, Present
    <3>. QED  BY <2>1, <2>2, <2>5, <3>1
  <2>. QED  BY <1>1, <1>3, <2>4, <2>6, WroteGoesOn
<1>4. CASE Continues(w, Wrote(w, m, known, known.tagged)) /\ Same
  <2>1. TablesStep /\ KeepsWork
    BY <1>4, Quiet DEF Same
  <2>. QED  BY <1>1, <1>4, <2>1, WroteGoesOn
<1>. QED  BY <1>2, <1>3, <1>4 DEF UpdateModel, UpdateById, Move

LEMMA DisableMissingStep ==
  ASSUME IInv, NEW w \in Workers, NEW m \in Models, DisableMissing(w, m)
  PROVE  IInv' /\ KeepsWork
<1>. DEFINE hit == /\ rows[m] # NoRow /\ rows[m].id = worker[w].known[m].id
                   /\ rows[m].enabled /\ ~IsManual(rows[m])
            row == DisabledBySync(rows[m])
            known == [worker[w].known EXCEPT ![m] = NoRow]
            wrote == worker[w].wrote \/ hit
            s == [worker[w] EXCEPT !.known = known, !.wrote = wrote]
<1>1. /\ worker[w].pc # "idle"
      /\ \/ hit /\ StoreRow(m, row)
         \/ Same
      /\ Continues(w, [worker[w] EXCEPT !.known = known, !.wrote = @ \/ hit])
  BY DEF DisableMissing, Move, At
<1>2. TablesStep /\ KeepsWork
  <2>1. CASE Same
    BY <2>1, Quiet DEF Same
  <2>2. CASE hit /\ StoreRow(m, row)
    <3>1. rows[m] \in Row
      BY <2>2, KeysApart DEF IInv, RowsOK
    <3>2. /\ row \in Row /\ row.id = rows[m].id /\ row.source = rows[m].source
          /\ row.auto = rows[m].auto
      BY <3>1 DEF DisabledBySync, Row
    <3>3. rows[m].id \notin held
      BY <2>2, KeysApart DEF IInv, HeldOK, Present
    <3>. HIDE DEF row
    <3>. QED  BY <2>2, <3>2, <3>3, RowIsStored, KeysApart
  <2>. QED  BY <1>1, <2>1, <2>2
<1>. HIDE DEF hit, known
<1>3. Continues(w, s)
  BY <1>1 DEF IInv, WorkersOK, PassOK, FieldsOf
<1>. HIDE DEF wrote
<1>4. PassOK(s) /\ NoMore(w, s)
  BY DEF IInv, WorkersOK, PassOK, FieldsOf, NoMore, AtTier
<1>. HIDE DEF s
<1>. QED  BY <1>1, <1>2, <1>3, <1>4, PassGoesOn
\* The tier of a tag is stored where no row has its key, as a pass's.
LEMMA CreateTierStep ==
  ASSUME IInv, NEW w \in Workers, CreateTier(w)
  PROVE  IInv' /\ KeepsWork
<1>. DEFINE row == [NewModel(Tier, OtherProvider, "manual") EXCEPT !.auto = TRUE]
            s == [worker[w] EXCEPT !.pc = "children", !.tierId = row.id]
<1>1. worker[w].pc # "idle"
  BY DEF CreateTier, At
<1>2. CASE SyncThrows(w) /\ Same
  BY <1>1, <1>2, SyncThrowsStep
<1>3. CASE rows[Tier] = NoRow /\ StoreRow(Tier, row) /\ Continues(w, s)
  <2>1. OtherProvider \in Id
    BY DEF OtherProvider, ProviderId, Id
  <2>2. row \in Row /\ row.id = FreshId(Tier)
    BY <2>1, NewModelIsRow, KeysApart
  <2>3. row.id.key = Tier /\ row.auto
    BY <2>2, FreshIsFresh, KeysApart DEF NewModel
  <2>. HIDE DEF row
  <2>4. PassOK(s) /\ s.stale = worker[w].stale /\ s.gone = worker[w].gone
    BY <2>3 DEF IInv, WorkersOK, PassOK, FieldsOf
  <2>5. TablesStep /\ KeepsWork
    BY <1>3, <2>2, RowIsNew, KeysApart
  <2>6. rows'[Tier] = row
    BY <1>3, KeysApart DEF StoreRow, Store, IInv, RowsOK
  <2>7. \A k \in Keys : rows'[k] # NoRow /\ rows'[k].id \in s.stale \cup s.gone
          => rows'[k].source # "manual"
    BY <2>4, <2>5 DEF TablesStep
  <2>. HIDE DEF s
  <2>. QED  BY <1>1, <1>3, <2>3, <2>4, <2>5, <2>6, <2>7, PassMoves DEF KeepsWork
<1>. QED  BY <1>2, <1>3 DEF CreateTier, Move

\* Only children change, and what they join exists.
LEMMA ChildrenChange ==
  ASSUME IInv, NEW kids, IsFiniteSet(kids), Store(rows, kids, provider),
         \A c \in kids : c.parent.key = Tier /\ {c.parent, c.child} \subseteq IdsOf(rows)
  PROVE  TablesStep /\ RowsKept /\ children' = kids
<1>1. /\ UNCHANGED <<rows, provider>> /\ children' = kids
      /\ held' = held \cap IdsOf(rows)
  BY DEF Store
<1>2. held' = held
  BY <1>1 DEF IInv, HeldOK
<1>3. RowsOK' /\ HeldOK' /\ ProviderOK'
  BY <1>1, <1>2 DEF IInv, RowsOK, HeldOK, ProviderOK, Present, IdsOf
<1>4. ChildrenOK'
  <2>1. IdsOf(rows') = IdsOf(rows)
    BY <1>1
  <2>. QED  BY <1>1, <2>1 DEF ChildrenOK
<1>. QED  BY <1>1, <1>3, <1>4 DEF IInv, StaleOK, IsManual, TablesStep, RowsKept, Present

\* A child leaves a tier that a pass had made, and its model is not the operator's:
\* the tier and the model are those the pass had read.
LEMMA RemoveChildStep ==
  ASSUME IInv, NEW w \in Workers, RemoveChild(w)
  PROVE  IInv' /\ WorkKept(w)
<1>1. At(w, "append") /\ worker[w].pc # "idle"
  BY DEF RemoveChild, At
<1>2. PICK id \in worker[w].gone :
        LET link == {c \in children : c.parent = worker[w].tierId /\ c.child = id}
            kids == IF link = {} THEN worker[w].kids ELSE {c \in worker[w].kids : c.child # id}
        IN  /\ Store(rows, children \ link, provider)
            /\ Continues(w, [worker[w] EXCEPT !.gone = @ \ {id}, !.kids = kids])
  BY DEF RemoveChild, Move
<1>. DEFINE link == {c \in children : c.parent = worker[w].tierId /\ c.child = id}
            kids == IF link = {} THEN worker[w].kids ELSE {c \in worker[w].kids : c.child # id}
            gone == worker[w].gone \ {id}
            s == [worker[w] EXCEPT !.gone = gone, !.kids = kids]
<1>3. Continues(w, s) /\ Store(rows, children \ link, provider)
  BY <1>2 DEF IInv, WorkersOK, PassOK, FieldsOf
<1>4. IsFiniteSet(kids) /\ IsFiniteSet(gone) /\ gone \subseteq worker[w].gone
  BY FS_Subset, FS_RemoveElement DEF IInv, WorkersOK, PassOK
<1>5. TablesStep /\ RowsKept /\ children' = children \ link
  <2>1. IsFiniteSet(children \ link)
    BY FS_Subset DEF IInv, ChildrenOK
  <2>. QED  BY <1>3, <2>1, ChildrenChange DEF IInv, ChildrenOK
<1>6. ASSUME NEW c \in link
      PROVE  rows[Tier].auto /\ ~IsManual(rows[c.child.key])
  <2>1. /\ c \in children /\ c.parent = worker[w].tierId /\ c.child = id
        /\ c.parent.key = Tier
    BY DEF IInv, ChildrenOK
  <2>2. PICK t \in Present : rows[t].id = c.parent
    BY <2>1 DEF IInv, ChildrenOK, IdsOf, Present
  <2>3. t = Tier
    BY <2>1, <2>2 DEF IInv, RowsOK
  <2>4. rows[Tier].auto
    BY <1>1, <2>1, <2>2, <2>3 DEF IInv, AutoOK, AtTier, At, Present
  <2>5. PICK k \in Present : rows[k].id = c.child
    BY <2>1 DEF IInv, ChildrenOK, IdsOf, Present
  <2>6. c.child.key = k /\ ~IsManual(rows[k])
    BY <2>1, <2>5 DEF IInv, RowsOK, StaleOK
  <2>. QED  BY <2>4, <2>6
<1>. HIDE DEF kids, gone, link
<1>7. PassOK(s) /\ NoMore(w, s)
  BY <1>1, <1>4 DEF IInv, WorkersOK, PassOK, FieldsOf, At, NoMore, AtTier
<1>. HIDE DEF s
<1>8. IInv'
  BY <1>1, <1>3, <1>5, <1>7, PassKeeps
<1>9. WorkKept(w)
  BY <1>5, <1>6 DEF WorkKept
<1>. QED  BY <1>8, <1>9

\* The tier was read with the default model alone.
LEMMA ReplaceStandInStep ==
  ASSUME IInv, NEW w \in Workers, ReplaceStandIn(w)
  PROVE  IInv' /\ WorkKept(w)
<1>1. /\ At(w, "append") /\ worker[w].pc # "idle" /\ StandsIn(worker[w])
      /\ worker[w].tierId.key = Tier
  BY DEF ReplaceStandIn, At, IInv, WorkersOK, PassOK
<1>2. CASE SyncThrows(w) /\ Same
  BY <1>1, <1>2, SyncThrowsStep DEF KeepsWork, WorkKept
<1>3. ASSUME NEW order \in [1 .. Cardinality(worker[w].mine) -> worker[w].mine],
             {worker[w].tierId} \cup worker[w].mine \subseteq IdsOf(rows),
             LET kids == {[parent |-> worker[w].tierId, child |-> order[i], priority |-> i]
                            : i \in DOMAIN order}
             IN  Store(rows, {c \in children : c.parent # worker[w].tierId} \cup kids, provider),
             Continues(w, [worker[w] EXCEPT !.mine = {}])
      PROVE  IInv' /\ WorkKept(w)
  <2>. DEFINE f == [i \in DOMAIN order |->
                      [parent |-> worker[w].tierId, child |-> order[i], priority |-> i]]
              kids == {f[i] : i \in DOMAIN order}
              rest == {c \in children : c.parent # worker[w].tierId}
              s == [worker[w] EXCEPT !.mine = {}]
  <2>1. Store(rows, rest \cup kids, provider)
    BY <1>3
  <2>2. IsFiniteSet(DOMAIN order)
    <3>1. Cardinality(worker[w].mine) \in Nat
      BY FS_CardinalityType DEF IInv, WorkersOK, PassOK
    <3>2. DOMAIN order = 1 .. Cardinality(worker[w].mine)
      OBVIOUS
    <3>. QED  BY <3>1, <3>2, FS_Interval
  <2>3. \A c \in kids : c.parent.key = Tier /\ {c.parent, c.child} \subseteq IdsOf(rows)
    <3>1. \A i \in DOMAIN order : order[i] \in IdsOf(rows)
      BY <1>3
    <3>2. worker[w].tierId \in IdsOf(rows)
      BY <1>3
    <3>. QED  BY <1>1, <3>1, <3>2
  <2>. HIDE DEF f
  <2>4. IsFiniteSet(kids)
    BY <2>2, ImageIsFinite
  <2>5. IsFiniteSet(rest)
    BY FS_Subset DEF IInv, ChildrenOK
  <2>. HIDE DEF kids
  <2>6. IsFiniteSet(rest \cup kids)
    BY <2>4, <2>5, FS_Union
  <2>7. \A c \in rest \cup kids : c.parent.key = Tier /\ {c.parent, c.child} \subseteq IdsOf(rows)
    BY <2>3 DEF IInv, ChildrenOK
  <2>. HIDE DEF rest
  <2>8. TablesStep /\ RowsKept
    BY <2>1, <2>6, <2>7, ChildrenChange
  <2>9. PassOK(s) /\ NoMore(w, s)
    BY FS_EmptySet DEF IInv, WorkersOK, PassOK, FieldsOf, NoMore, AtTier
  <2>. HIDE DEF s
  <2>10. IInv'
    BY <1>1, <1>3, <2>8, <2>9, PassKeeps DEF s
  <2>. QED  BY <1>1, <2>8, <2>10 DEF WorkKept
<1>. QED  BY <1>2, <1>3 DEF ReplaceStandIn, Move

\* A child is added to the tier; the others are not touched.
LEMMA AppendChildStep ==
  ASSUME IInv, NEW w \in Workers, AppendChild(w)
  PROVE  IInv' /\ KeepsWork
<1>1. At(w, "append") /\ worker[w].pc # "idle" /\ worker[w].tierId.key = Tier
  BY DEF AppendChild, At, IInv, WorkersOK, PassOK
<1>2. CASE SyncThrows(w) /\ Same
  BY <1>1, <1>2, SyncThrowsStep
<1>. DEFINE last == Max({c.priority : c \in worker[w].kids} \cup {0})
            kid(id) == [parent |-> worker[w].tierId, child |-> id, priority |-> 1 + last]
            s(id) == [worker[w] EXCEPT !.mine = @ \ {id}, !.kids = @ \cup {kid(id)},
                                       !.default = NoRow]
<1>3. ASSUME NEW id \in worker[w].mine, CanInsertChild(worker[w].tierId, id, 1 + last),
             Store(rows, children \cup {kid(id)}, provider), Continues(w, s(id))
      PROVE  IInv' /\ KeepsWork
  <2>1. {worker[w].tierId, id} \subseteq IdsOf(rows)
    BY <1>3 DEF CanInsertChild
  <2>. HIDE DEF last
  <2>2. kid(id).parent = worker[w].tierId /\ kid(id).child = id
    OBVIOUS
  <2>. DEFINE k == kid(id)
              mine == worker[w].mine \ {id}
              kids == worker[w].kids \cup {k}
              t == [worker[w] EXCEPT !.mine = mine, !.kids = kids, !.default = NoRow]
  <2>3. Continues(w, t)
    BY <1>3 DEF IInv, WorkersOK, PassOK, FieldsOf
  <2>. HIDE DEF kid, s
  <2>4. IsFiniteSet(children \cup {k}) /\ IsFiniteSet(kids) /\ IsFiniteSet(mine)
    BY FS_AddElement, FS_RemoveElement DEF IInv, ChildrenOK, WorkersOK, PassOK
  <2>5. \A c \in children \cup {k} :
          c.parent.key = Tier /\ {c.parent, c.child} \subseteq IdsOf(rows)
    BY <1>1, <2>1, <2>2 DEF IInv, ChildrenOK
  <2>6. TablesStep /\ RowsKept /\ children' = children \cup {k}
    BY <1>3, <2>4, <2>5, ChildrenChange
  <2>7. KeepsWork
    BY <2>6 DEF KeepsWork
  <2>. HIDE DEF mine, kids, k
  <2>8. PassOK(t) /\ NoMore(w, t)
    BY <1>1, <2>4 DEF IInv, WorkersOK, PassOK, FieldsOf, NoMore, AtTier
  <2>. HIDE DEF t
  <2>. QED  BY <1>1, <2>3, <2>6, <2>7, <2>8, PassGoesOn
<1>. QED  BY <1>2, <1>3 DEF AppendChild, Move

-----------------------------------------------------------------------------
\* The reconciliation after the sync: the fallback's row comes and goes.
LEMMA FindFallbackToDropStep ==
  ASSUME IInv, NEW w \in Workers, FindFallbackToDrop(w)
  PROVE  IInv' /\ KeepsWork
<1>. DEFINE a == [worker[w] EXCEPT !.pc = "drop", !.found = rows[Fallback]]
            b == [worker[w] EXCEPT !.pc = "finish"]
<1>1. (Continues(w, a) \/ Continues(w, b)) /\ Same /\ worker[w].pc # "idle"
  BY DEF FindFallbackToDrop, Move, Reads, Same, tables, At
<1>2. PassOK(a) /\ NoMore(w, a) /\ PassOK(b) /\ NoMore(w, b)
  BY DEF IInv, WorkersOK, PassOK, FieldsOf, NoMore, AtTier
<1>. HIDE DEF a, b
<1>. QED  BY <1>1, <1>2, PassReads

LEMMA DropFallbackStep ==
  ASSUME IInv, NEW w \in Workers, DropFallback(w)
  PROVE  IInv' /\ KeepsWork
<1>. DEFINE hit == rows[Fallback] # NoRow /\ rows[Fallback].id = worker[w].found.id
            changed == worker[w].changed \/ hit
            s == [worker[w] EXCEPT !.pc = "finish", !.found = NoRow, !.changed = changed]
<1>1. /\ worker[w].pc # "idle"
      /\ (hit /\ DeleteRows({Fallback})) \/ Same
      /\ Continues(w, [worker[w] EXCEPT !.pc = "finish", !.found = NoRow, !.changed = @ \/ hit])
  BY DEF DropFallback, Move, At
<1>2. TablesStep /\ KeepsWork
  <2>1. CASE Same
    BY <2>1, Quiet DEF Same
  <2>2. CASE hit /\ DeleteRows({Fallback})
    <3>1. {Fallback} \in SUBSET Present
      BY <2>2, KeysApart DEF Present
    <3>. QED  BY <2>2, <3>1, RowsGo
  <2>. QED  BY <1>1, <2>1, <2>2
<1>. HIDE DEF hit
<1>3. Continues(w, s)
  BY <1>1 DEF IInv, WorkersOK, PassOK, FieldsOf
<1>. HIDE DEF changed
<1>4. PassOK(s) /\ NoMore(w, s)
  BY DEF IInv, WorkersOK, PassOK, FieldsOf, NoMore, AtTier
<1>. HIDE DEF s
<1>. QED  BY <1>1, <1>2, <1>3, <1>4, PassGoesOn

LEMMA FindFallbackStep ==
  ASSUME IInv, NEW w \in Workers, FindFallback(w)
  PROVE  IInv' /\ KeepsWork
<1>. DEFINE s == [worker[w] EXCEPT !.pc = "fallbackWrite", !.found = rows[Fallback]]
<1>1. Continues(w, s) /\ Same /\ worker[w].pc # "idle"
  BY DEF FindFallback, Move, Reads, Same, tables, At
<1>2. PassOK(s) /\ NoMore(w, s)
  BY DEF IInv, WorkersOK, PassOK, FieldsOf, NoMore, AtTier
<1>. HIDE DEF s
<1>. QED  BY <1>1, <1>2, PassReads

LEMMA WriteFallbackStep ==
  ASSUME IInv, NEW w \in Workers, WriteFallback(w)
  PROVE  IInv' /\ KeepsWork
<1>. DEFINE prov == worker[w].prov
            s(wrote) == [worker[w] EXCEPT !.pc = "finish", !.found = NoRow,
                                          !.changed = @ \/ wrote]
            as(row) == [row EXCEPT !.enabled = TRUE, !.fallback = TRUE, !.marker = FALSE,
                                   !.provider = prov]
            new == as(NewModel(Fallback, prov, "synced"))
            row == as(rows[Fallback])
<1>1. worker[w].pc # "idle"
  BY DEF WriteFallback, At
<1>2. ASSUME NEW wrote
      PROVE  PassOK(s(wrote)) /\ NoMore(w, s(wrote))
  BY DEF IInv, WorkersOK, PassOK, FieldsOf, NoMore, AtTier
<1>3. CASE PassThrows(w) /\ Same
  BY <1>1, <1>3, PassThrowsStep
<1>4. CASE Same /\ (Continues(w, s(TRUE)) \/ Continues(w, s(FALSE)))
  <2>. HIDE DEF s
  <2>. QED  BY <1>1, <1>2, <1>4, PassReads
<1>5. CASE /\ rows[Fallback] = NoRow /\ ProviderExists(prov)
           /\ StoreRow(Fallback, new) /\ Continues(w, s(TRUE))
  <2>. DEFINE made == NewModel(Fallback, prov, "synced")
  <2>1. made \in Row /\ made.id = FreshId(Fallback) /\ made.source = "synced" /\ prov \in Id
    BY <1>5, ExistingProvider, NewModelIsRow, KeysApart
  <2>. HIDE DEF made
  <2>2. as(made) \in Row /\ as(made).id = FreshId(Fallback) /\ as(made).source = "synced"
    BY <2>1 DEF Row
  <2>3. new = as(made)
    BY DEF made
  <2>. HIDE DEF as, new, s
  <2>4. TablesStep /\ KeepsWork
    BY <1>5, <2>2, <2>3, RowIsNew, KeysApart
  <2>. QED  BY <1>1, <1>2, <1>5, <2>4, PassGoesOn
<1>6. CASE /\ rows[Fallback] # NoRow /\ ProviderExists(prov)
           /\ StoreRow(Fallback, row) /\ Continues(w, s(TRUE))
  <2>1. rows[Fallback] \in Row /\ ~IsManual(rows[Fallback]) /\ prov \in Id
    BY <1>6, ExistingProvider, KeysApart DEF IInv, RowsOK
  <2>2. /\ row \in Row /\ row.id = rows[Fallback].id /\ row.source = rows[Fallback].source
        /\ row.auto = rows[Fallback].auto
    BY <2>1 DEF Row
  <2>. HIDE DEF row, s
  <2>3. TablesStep /\ KeepsWork
    BY <1>6, <2>1, <2>2, RowIsStored, KeysApart
  <2>. QED  BY <1>1, <1>2, <1>6, <2>3, PassGoesOn
<1>. QED  BY <1>3, <1>4, <1>5, <1>6 DEF WriteFallback, Move

-----------------------------------------------------------------------------
\* Stale rows: none of those listed is the operator's, and none will be.
LEMMA ListStaleModelsStep ==
  ASSUME IInv, NEW w \in Workers, ListStaleModels(w)
  PROVE  IInv' /\ KeepsWork
<1>. DEFINE listed == {x \in Present \ {Tier} : ~IsManual(rows[x]) /\ rows[x].enabled}
            stale == {rows[k].id : k \in listed}
            s == [worker[w] EXCEPT !.pc = "stale", !.stale = stale]
<1>1. Continues(w, s) /\ UNCHANGED <<tables, held>> /\ worker[w].pc # "idle"
  BY DEF ListStaleModels, Move, Reads, At
<1>2. IsFiniteSet(stale)
  <2>1. listed \in SUBSET Keys
    BY DEF Present
  <2>. HIDE DEF listed
  <2>. QED  BY <2>1, IdsFinite
<1>3. \A k \in Present : rows[k].id \in stale => ~IsManual(rows[k])
  BY DEF IInv, RowsOK, Present
<1>. HIDE DEF stale
<1>4. PassOK(s) /\ s.stale = stale /\ s.gone = worker[w].gone /\ ~AtTier(s)
  BY <1>2 DEF IInv, WorkersOK, PassOK, FieldsOf, AtTier
<1>. HIDE DEF s
<1>5. TablesStep /\ KeepsWork /\ rows' = rows
  BY <1>1, Quiet DEF tables
<1>6. \A k \in Keys : rows'[k] # NoRow /\ rows'[k].id \in s.stale \cup s.gone
        => rows'[k].source # "manual"
  BY <1>3, <1>4, <1>5 DEF TablesStep, Present, IsManual
<1>. QED  BY <1>1, <1>4, <1>5, <1>6, PassMoves DEF KeepsWork

LEMMA DisableStaleModelStep ==
  ASSUME IInv, NEW w \in Workers, DisableStaleModel(w)
  PROVE  IInv' /\ KeepsWork
<1>1. PICK id \in worker[w].stale :
        /\ \/ id \in IdsOf(rows) /\ StoreRow(KeyOf(id), Disabled(rows[KeyOf(id)]))
           \/ Same
        /\ Continues(w, [worker[w] EXCEPT !.stale = worker[w].stale \ {id}, !.changed = TRUE])
  BY DEF DisableStaleModel, Move, IInv, WorkersOK, PassOK, FieldsOf
<1>. DEFINE stale == worker[w].stale \ {id}
            s == [worker[w] EXCEPT !.stale = stale, !.changed = TRUE]
<1>2. worker[w].pc # "idle"
  BY DEF DisableStaleModel, At
<1>3. IsFiniteSet(stale) /\ stale \subseteq worker[w].stale
  BY FS_RemoveElement DEF IInv, WorkersOK, PassOK
<1>4. TablesStep /\ KeepsWork
  <2>1. CASE Same
    BY <2>1, Quiet DEF Same
  <2>2. CASE id \in IdsOf(rows) /\ StoreRow(KeyOf(id), Disabled(rows[KeyOf(id)]))
    <3>1. PICK k \in Present : rows[k].id = id
      BY <2>2 DEF IdsOf, Present
    <3>2. KeyOf(id) = k /\ ~IsManual(rows[k]) /\ rows[k] \in Row /\ k \in Keys /\ rows[k] # NoRow
      BY <3>1 DEF KeyOf, IInv, RowsOK, StaleOK, Present
    <3>. DEFINE row == Disabled(rows[k])
    <3>3. row \in Row /\ row.id = rows[k].id /\ row.source = rows[k].source
          /\ row.auto = rows[k].auto /\ row.enabled = FALSE /\ row.marker = FALSE
      BY <3>2 DEF Disabled, Row
    <3>. HIDE DEF row
    <3>4. StoreRow(k, row)
      BY <2>2, <3>2 DEF row
    <3>. QED  BY <3>2, <3>3, <3>4, RowIsStored
  <2>. QED  BY <1>1, <2>1, <2>2
<1>. HIDE DEF stale
<1>5. PassOK(s) /\ NoMore(w, s)
  BY <1>3 DEF IInv, WorkersOK, PassOK, FieldsOf, NoMore, AtTier
<1>6. Continues(w, s)
  BY <1>1 DEF stale
<1>. HIDE DEF s
<1>. QED  BY <1>2, <1>3, <1>4, <1>5, <1>6, PassGoesOn

LEMMA ListStaleProvidersStep ==
  ASSUME IInv, NEW w \in Workers, ListStaleProviders(w)
  PROVE  IInv' /\ KeepsWork
<1>. DEFINE a == [worker[w] EXCEPT !.pc = "staleProvider", !.found = provider]
            b == [worker[w] EXCEPT !.pc = "finish"]
<1>1. (Continues(w, a) \/ Continues(w, b)) /\ Same /\ worker[w].pc # "idle"
  BY DEF ListStaleProviders, Move, Reads, Same, tables, At
<1>2. PassOK(a) /\ NoMore(w, a) /\ PassOK(b) /\ NoMore(w, b)
  BY DEF IInv, WorkersOK, PassOK, FieldsOf, NoMore, AtTier
<1>. HIDE DEF a, b
<1>. QED  BY <1>1, <1>2, PassReads

\* A provider row that is switched keeps its id.
LEMMA Switched ==
  ASSUME NEW p, p = [id |-> p.id, enabled |-> p.enabled], NEW on
  PROVE  [p EXCEPT !.enabled = on] = [id |-> p.id, enabled |-> on]
OBVIOUS

LEMMA DisableStaleProviderStep ==
  ASSUME IInv, NEW w \in Workers, DisableStaleProvider(w)
  PROVE  IInv' /\ KeepsWork
<1>. DEFINE p == [provider EXCEPT !.enabled = FALSE]
            s == [worker[w] EXCEPT !.pc = "finish", !.found = NoRow, !.changed = TRUE]
<1>1. /\ worker[w].pc # "idle" /\ Continues(w, s)
      /\ \/ provider # NoRow /\ Store(rows, children, p)
         \/ Same
  BY DEF DisableStaleProvider, Move, At
<1>2. PassOK(s) /\ NoMore(w, s)
  BY DEF IInv, WorkersOK, PassOK, FieldsOf, NoMore, AtTier
<1>3. provider # NoRow => p = [id |-> p.id, enabled |-> p.enabled] /\ p.id \in Id
  <2>. SUFFICES ASSUME provider # NoRow
                PROVE  p = [id |-> p.id, enabled |-> p.enabled] /\ p.id \in Id
    OBVIOUS
  <2>1. /\ provider = [id |-> provider.id, enabled |-> provider.enabled]
        /\ provider.id \in Id
    BY DEF IInv, ProviderOK
  <2>2. p = [id |-> provider.id, enabled |-> FALSE]
    BY <2>1, Switched
  <2>. HIDE DEF p
  <2>. QED  BY <2>1, <2>2
<1>. HIDE DEF p, s
<1>4. TablesStep /\ KeepsWork
  BY <1>1, <1>3, Quiet, ProviderIsStored DEF Same
<1>. QED  BY <1>1, <1>2, <1>4, PassGoesOn

LEMMA FinishPassStep ==
  ASSUME IInv, NEW w \in Workers, FinishPass(w)
  PROVE  IInv' /\ KeepsWork
<1>1. worker[w].pc # "idle" /\ UNCHANGED <<tables, held>> /\ Continues(w, Idle)
  BY DEF FinishPass, Move, At
<1>. QED  BY <1>1, Quiet, IdleOK, PassGoesOn

-----------------------------------------------------------------------------
\* Every step of a pass keeps the invariant and the operator's work.
LEMMA PassStep ==
  ASSUME IInv, NEW w \in Workers, Start(w) \/ Step(w)
  PROVE  IInv' /\ WorkKept(w)
<1>1. KeepsWork => WorkKept(w)
  BY DEF KeepsWork, WorkKept
<1>2. CASE SyncStep(w)
  BY <1>1, <1>2, DiscoverStep, ListRowsStep, CreateModelStep, FindRacedStep, UpdateModelStep,
     DisableMissingStep, FindTierStep, CreateTierStep, ListChildrenStep, RemoveChildStep,
     ReplaceStandInStep, AppendChildStep, AppendedStep, SyncRefreshStep DEF SyncStep
<1>. QED
  BY <1>1, <1>2, StartSteps, FindProviderStep, WriteProviderStep, PeekRowsStep,
     FindFallbackToDropStep, DropFallbackStep, FindFallbackStep, WriteFallbackStep,
     ListStaleModelsStep, DisableStaleModelStep, ListStaleProvidersStep,
     DisableStaleProviderStep, FinishPassStep DEF Step

\* A step of one pass leaves the others where they are.
LEMMA OnePassSteps ==
  ASSUME IInv, NEW w \in Workers, Start(w) \/ Step(w), NEW v \in Workers, v # w
  PROVE  worker'[v] = worker[v]
<1>1. \E s : Continues(w, s)
  BY DEF Start, Step, SyncStep, StartReconcile, StartRefresh, StartSync, FindProvider,
     WriteProvider, PeekRows, Discover, ListRows, CreateModel, FindRaced, UpdateModel,
     UpdateById, DisableMissing, FindTier, CreateTier, ListChildren, RemoveChild,
     ReplaceStandIn, AppendChild, Appended, SyncRefresh, FindFallbackToDrop, DropFallback,
     FindFallback, WriteFallback, ListStaleModels, DisableStaleModel, ListStaleProviders,
     DisableStaleProvider, FinishPass, Move, MoveTo, Throw, SyncThrows, PassThrows
<1>. QED  BY <1>1 DEF Continues, IInv, WorkersOK
-----------------------------------------------------------------------------
\* A request of the operator that leaves the passes where they are.
LEMMA RequestKeeps ==
  ASSUME IInv, UNCHANGED worker, LeftOK', TierThere', OperatorOK', TablesStep
  PROVE  IInv'
<1>1. WorkersOK'
  BY DEF IInv, WorkersOK, PassOK, FieldsOf
<1>2. StaleOK'
  BY DEF TablesStep, StaleOK, Present, IsManual
<1>3. AutoOK'
  BY DEF TablesStep, IInv, AutoOK
<1>. QED  BY <1>1, <1>2, <1>3 DEF IInv, TablesStep

\* A request without a statement to follow.
LEMMA Answered ==
  ASSUME IInv, Request, Respond
  PROVE  LeftOK' /\ TierThere' /\ OperatorOK' /\ UNCHANGED worker
BY FS_EmptySet, SizeAssumption
   DEF SizeAssumption, IInv, Request, Respond, LeftOK, TierThere, OperatorOK, Resting

LEMMA CreateManualModelStep ==
  ASSUME IInv, NEW m \in Models, CreateManualModel(m)
  PROVE  IInv'
<1>1. PICK prov \in {OtherProvider} \cup (IF provider = NoRow THEN {} ELSE {provider.id}) :
        StoreRow(m, NewModel(m, prov, "manual"))
  BY DEF CreateManualModel
<1>2. prov \in Id
  BY <1>1 DEF OtherProvider, ProviderId, Id, IInv, ProviderOK
<1>. DEFINE row == NewModel(m, prov, "manual")
<1>3. row \in Row /\ row.id = FreshId(m)
  BY <1>2, NewModelIsRow, KeysApart
<1>. HIDE DEF row
<1>4. TablesStep
  BY <1>1, <1>3, RowIsNew, KeysApart DEF CreateManualModel, row
<1>. QED  BY <1>4, Answered, RequestKeeps DEF CreateManualModel

LEMMA EnableRowStep ==
  ASSUME IInv, NEW k \in Keys, EnableRow(k)
  PROVE  IInv'
<1>. DEFINE row == Enabled(rows[k])
<1>1. /\ rows[k] # NoRow /\ rows' = [rows EXCEPT ![k] = row]
      /\ UNCHANGED <<children, provider>> /\ held' = held \ {rows[k].id}
  BY DEF EnableRow
<1>2. rows[k] \in Row
  BY <1>1 DEF IInv, RowsOK
<1>3. /\ row \in Row /\ row.id = rows[k].id /\ row.source = rows[k].source
      /\ row.auto = rows[k].auto
  BY <1>2 DEF Enabled, Row
<1>. HIDE DEF row
<1>4. TablesStep
  BY <1>1, <1>3, RowChanges
<1>. QED  BY <1>4, Answered, RequestKeeps DEF EnableRow

LEMMA DisableRowStep ==
  ASSUME IInv, NEW k \in Keys, DisableRow(k)
  PROVE  IInv'
<1>. DEFINE row == Disabled(rows[k])
<1>1. /\ rows[k] # NoRow /\ rows' = [rows EXCEPT ![k] = row]
      /\ UNCHANGED <<children, provider>> /\ held' = held \cup {rows[k].id}
  BY DEF DisableRow
<1>2. rows[k] \in Row
  BY <1>1 DEF IInv, RowsOK
<1>3. /\ row \in Row /\ row.id = rows[k].id /\ row.source = rows[k].source
      /\ row.auto = rows[k].auto /\ ~row.enabled /\ ~row.marker
  BY <1>2 DEF Disabled, Row
<1>. HIDE DEF row
<1>4. TablesStep
  BY <1>1, <1>3, RowChanges
<1>. QED  BY <1>4, Answered, RequestKeeps DEF DisableRow

LEMMA EditTagsStep ==
  ASSUME IInv, NEW m \in Models, EditTags(m)
  PROVE  IInv'
<1>. DEFINE tagged == ~rows[m].tagged
            row == [rows[m] EXCEPT !.tagged = tagged]
<1>1. /\ rows[m] # NoRow /\ ~IsManual(rows[m]) /\ rows[m] \in Row /\ m \in Keys
      /\ StoreRow(m, [rows[m] EXCEPT !.tagged = ~@])
  BY KeysApart DEF EditTags, IInv, RowsOK
<1>2. StoreRow(m, row)
  BY <1>1 DEF Row
<1>3. tagged \in BOOLEAN
  OBVIOUS
<1>. HIDE DEF tagged
<1>4. /\ row \in Row /\ row.id = rows[m].id /\ row.source = rows[m].source
      /\ row.auto = rows[m].auto /\ row.enabled = rows[m].enabled /\ row.marker = rows[m].marker
  BY <1>1, <1>3 DEF Row
<1>5. rows[m].id \in held => ~rows[m].enabled /\ ~rows[m].marker
  BY <1>1, KeysApart DEF IInv, HeldOK, Present
<1>. HIDE DEF row
<1>6. TablesStep
  BY <1>1, <1>2, <1>4, <1>5, RowIsStored
<1>. QED  BY <1>6, Answered, RequestKeeps DEF EditTags

LEMMA DeleteRowStep ==
  ASSUME IInv, NEW k \in Keys, DeleteRow(k)
  PROVE  IInv'
<1>1. {k} \in SUBSET Present
  BY DEF DeleteRow, Present
<1>2. TablesStep
  BY <1>1, RowsGo DEF DeleteRow
<1>. QED  BY <1>2, Answered, RequestKeeps DEF DeleteRow

LEMMA SetProviderEnabledStep ==
  ASSUME IInv, SetProviderEnabled
  PROVE  IInv'
<1>1. PICK on \in BOOLEAN : Store(rows, children, [provider EXCEPT !.enabled = on])
  BY DEF SetProviderEnabled
<1>. DEFINE p == [provider EXCEPT !.enabled = on]
<1>2. p = [id |-> provider.id, enabled |-> on] /\ provider.id \in Id
  BY DEF SetProviderEnabled, IInv, ProviderOK
<1>. HIDE DEF p
<1>3. p = [id |-> p.id, enabled |-> p.enabled] /\ p.id \in Id
  BY <1>2
<1>4. TablesStep
  BY <1>1, <1>3, ProviderIsStored DEF p
<1>. QED  BY <1>4, Answered, RequestKeeps DEF SetProviderEnabled

LEMMA ListForDeleteStep ==
  ASSUME IInv, ListForDelete
  PROVE  IInv'
<1>1. operator' = [pc |-> "deleteModels", ids |-> {provider.id}, order |-> << >>]
  BY DEF ListForDelete, Resting
<1>2. LeftOK' /\ UNCHANGED worker
  BY SizeAssumption DEF SizeAssumption, ListForDelete, Request, IInv, LeftOK
<1>3. TierThere' /\ OperatorOK'
  <2>1. DOMAIN << >> = {}
    OBVIOUS
  <2>. QED  BY <1>1, <2>1, FS_Singleton, FS_EmptySet DEF TierThere, OperatorOK
<1>4. TablesStep
  BY Quiet DEF ListForDelete, Same
<1>. QED  BY <1>2, <1>3, <1>4, RequestKeeps

LEMMA SubmitTierStep ==
  ASSUME IInv, SubmitTier
  PROVE  IInv'
<1>1. PICK ids \in SUBSET DirectIds : \E order \in [1 .. Cardinality(ids) -> ids] :
        operator' = [ids |-> ids \cup IdsOf([k \in Keys |-> IF k = Tier THEN rows[k] ELSE NoRow]),
                     order |-> order,
                     pc |-> IF rows[Tier] = NoRow THEN "tierInsert" ELSE "tierChildren"]
  BY DEF SubmitTier
<1>2. LeftOK' /\ UNCHANGED worker /\ UNCHANGED <<tables, held>>
  BY SizeAssumption DEF SizeAssumption, SubmitTier, Request, Same, IInv, LeftOK
<1>3. IsFiniteSet(ids)
  <2>1. Present \ {Tier} \in SUBSET Keys
    BY DEF Present
  <2>2. IsFiniteSet(DirectIds)
    BY <2>1, IdsFinite DEF DirectIds
  <2>. QED  BY <2>2, FS_Subset
<1>. DEFINE r == [k \in Keys |-> IF k = Tier THEN rows[k] ELSE NoRow]
<1>4. IsFiniteSet(IdsOf(r))
  <2>. HIDE DEF r
  <2>1. {x \in Keys : r[x] # NoRow} \in SUBSET Keys
    OBVIOUS
  <2>. QED  BY <2>1, IdsFinite DEF IdsOf
<1>5. IsFiniteSet(ids \cup IdsOf(r))
  BY <1>3, <1>4, FS_Union
<1>6. OperatorOK'
  <2>1. Cardinality(ids) \in Nat
    BY <1>3, FS_CardinalityType
  <2>2. IsFiniteSet(1 .. Cardinality(ids))
    BY <2>1, FS_Interval
  <2>. QED  BY <1>1, <1>5, <2>2 DEF OperatorOK
<1>7. TierThere'
  BY <1>1, <1>2 DEF TierThere, tables
<1>8. TablesStep
  BY <1>2, Quiet
<1>. QED  BY <1>2, <1>6, <1>7, <1>8, RequestKeeps

-----------------------------------------------------------------------------
\* The statements of a request after its first.
LEMMA DeleteModelsStep ==
  ASSUME IInv, DeleteModels
  PROVE  IInv'
<1>1. {k \in Present : rows[k].provider \in operator.ids} \in SUBSET Present
  OBVIOUS
<1>2. TablesStep
  BY <1>1, RowsGo DEF DeleteModels
<1>3. operator' = [operator EXCEPT !.pc = "deleteProvider"] /\ UNCHANGED <<left, worker>>
  BY DEF DeleteModels, Continue
<1>4. OperatorOK' /\ TierThere' /\ LeftOK'
  BY <1>3 DEF IInv, OperatorOK, TierThere, LeftOK
<1>. QED  BY <1>2, <1>3, <1>4, RequestKeeps

\* A handler that answered leaves nothing to do.
LEMMA HandlerAnswers ==
  ASSUME IInv, NEW pc, Continue(pc), Respond, TablesStep
  PROVE  IInv'
<1>1. OperatorOK' /\ TierThere'
  BY FS_EmptySet DEF Respond, Resting, OperatorOK, TierThere
<1>2. LeftOK' /\ UNCHANGED worker
  BY DEF Continue, IInv, LeftOK
<1>. QED  BY <1>1, <1>2, RequestKeeps

LEMMA DeleteProviderStep ==
  ASSUME IInv, DeleteProvider
  PROVE  IInv'
<1>1. TablesStep
  BY Quiet, ProviderIsStored DEF DeleteProvider, Same
<1>. QED  BY <1>1, HandlerAnswers DEF DeleteProvider

LEMMA InsertTierStep ==
  ASSUME IInv, InsertTier
  PROVE  IInv'
<1>. DEFINE row == NewModel(Tier, OtherProvider, "manual")
            ids == operator.ids \cup {row.id}
<1>1. CASE Same /\ Respond
  BY <1>1, Quiet, HandlerAnswers DEF InsertTier, Same
<1>2. CASE /\ rows[Tier] = NoRow /\ StoreRow(Tier, row)
           /\ operator' = [operator EXCEPT !.pc = "tierChildren", !.ids = @ \cup {row.id}]
  <2>1. OtherProvider \in Id
    BY DEF OtherProvider, ProviderId, Id
  <2>2. row \in Row /\ row.id = FreshId(Tier)
    BY <2>1, NewModelIsRow, KeysApart
  <2>3. IsFiniteSet(ids)
    BY FS_AddElement DEF IInv, OperatorOK
  <2>4. operator' = [pc |-> "tierChildren", ids |-> ids, order |-> operator.order]
    BY <1>2 DEF IInv, OperatorOK
  <2>. HIDE DEF row, ids
  <2>5. TablesStep
    BY <1>2, <2>2, RowIsNew, KeysApart
  <2>6. rows'[Tier] = row /\ row # NoRow
    BY <1>2, <2>2, NoRowAssumption, KeysApart DEF NoRowAssumption, StoreRow, Store, IInv, RowsOK
  <2>7. OperatorOK' /\ TierThere'
    BY <2>3, <2>4, <2>6 DEF IInv, OperatorOK, TierThere
  <2>8. LeftOK' /\ UNCHANGED worker
    BY DEF InsertTier, Continue, IInv, LeftOK
  <2>. QED  BY <2>5, <2>7, <2>8, RequestKeeps
<1>. QED  BY <1>1, <1>2 DEF InsertTier

LEMMA ReplaceChildrenStep ==
  ASSUME IInv, ReplaceChildren
  PROVE  IInv'
<1>. DEFINE f == [i \in DOMAIN operator.order |->
                    [parent |-> rows[Tier].id, child |-> operator.order[i], priority |-> i]]
            made == {f[i] : i \in DOMAIN operator.order}
            kept == {c \in children : c.parent # rows[Tier].id}
<1>1. TablesStep
  <2>1. CASE Same
    BY <2>1, Quiet DEF Same
  <2>2. CASE /\ Store(rows, kept \cup made, provider)
             /\ {operator.order[i] : i \in DOMAIN operator.order} \subseteq IdsOf(rows)
    <3>1. rows[Tier].id.key = Tier /\ rows[Tier].id \in IdsOf(rows)
      BY KeysApart DEF IInv, RowsOK, TierThere, ReplaceChildren, Continue, Present, IdsOf
    <3>2. \A c \in made : c.parent.key = Tier /\ {c.parent, c.child} \subseteq IdsOf(rows)
      <4>1. \A i \in DOMAIN operator.order : operator.order[i] \in IdsOf(rows)
        BY <2>2
      <4>2. \A i \in DOMAIN operator.order :
              f[i].parent = rows[Tier].id /\ f[i].child = operator.order[i]
        OBVIOUS
      <4>. HIDE DEF f
      <4>. QED  BY <3>1, <4>1, <4>2
    <3>. HIDE DEF f
    <3>3. IsFiniteSet(made)
      BY ImageIsFinite DEF IInv, OperatorOK
    <3>4. IsFiniteSet(kept)
      BY FS_Subset DEF IInv, ChildrenOK
    <3>. HIDE DEF made
    <3>5. IsFiniteSet(kept \cup made)
      BY <3>3, <3>4, FS_Union
    <3>6. \A c \in kept \cup made : c.parent.key = Tier /\ {c.parent, c.child} \subseteq IdsOf(rows)
      BY <3>2 DEF IInv, ChildrenOK
    <3>. HIDE DEF kept
    <3>. QED  BY <2>2, <3>5, <3>6, ChildrenChange
  <2>3. Same \/ /\ Store(rows, kept \cup made, provider)
                /\ {operator.order[i] : i \in DOMAIN operator.order} \subseteq IdsOf(rows)
    BY DEF ReplaceChildren
  <2>. QED  BY <2>1, <2>2, <2>3
<1>. QED  BY <1>1, HandlerAnswers DEF ReplaceChildren

-----------------------------------------------------------------------------
\* Nothing changes but what the invariant does not speak of.
LEMMA OtherSteps ==
  ASSUME IInv, RuntimeRefresh \/ BoundReached \/ UNCHANGED vars
  PROVE  IInv' /\ UNCHANGED worker
<1>1. UNCHANGED <<tables, held, worker, operator, left>>
  BY DEF RuntimeRefresh, BoundReached, vars, tables
<1>2. TablesStep /\ rows' = rows
  BY <1>1, Quiet DEF tables
<1>3. LeftOK' /\ TierThere' /\ OperatorOK'
  BY <1>1, <1>2 DEF IInv, LeftOK, TierThere, OperatorOK
<1>. QED  BY <1>1, <1>2, <1>3, RequestKeeps

LEMMA OperatorStep ==
  ASSUME IInv, Operate \/ Handler
  PROVE  IInv' /\ UNCHANGED worker
<1>1. IInv'
  BY CreateManualModelStep, EditTagsStep, EnableRowStep, DisableRowStep, DeleteRowStep,
     SetProviderEnabledStep, ListForDeleteStep, SubmitTierStep, DeleteModelsStep,
     DeleteProviderStep, InsertTierStep, ReplaceChildrenStep DEF Operate, Handler
<1>2. UNCHANGED worker
  BY DEF Operate, Handler, CreateManualModel, EditTags, EnableRow, DisableRow, DeleteRow,
     SetProviderEnabled, ListForDelete, SubmitTier, Request, DeleteModels, DeleteProvider,
     InsertTier, ReplaceChildren, Continue
<1>. QED  BY <1>1, <1>2

\* Both databases the gateway starts on satisfy the invariant.
LEMMA InitIInv == Init => IInv
<1>. SUFFICES ASSUME Init PROVE IInv
  OBVIOUS
<1>. DEFINE id(k) == [key |-> k, n |-> 1]
            row(k, prov, source) == [id |-> id(k), provider |-> prov, source |-> source,
                                     enabled |-> TRUE, tagged |-> k \in Models,
                                     marker |-> FALSE, fallback |-> FALSE, auto |-> k = Tier]
            first == Models \cap {CHOOSE x \in Models : TRUE}
            kids == {[parent |-> id(Tier), child |-> id(m), priority |-> 1] : m \in first}
<1>1. /\ worker = [w \in Workers |-> Idle] /\ operator = Resting
      /\ left = MaxRuns /\ held = {}
  BY DEF Init
<1>2. WorkersOK /\ StaleOK /\ AutoOK /\ OperatorOK /\ LeftOK /\ TierThere
  BY <1>1, IdleOK, FS_EmptySet, SizeAssumption
  DEF SizeAssumption, WorkersOK, StaleOK, AutoOK, OperatorOK, LeftOK, TierThere, Resting, Present
<1>3. CASE provider = NoRow /\ rows = [k \in Keys |-> NoRow] /\ children = {}
  <2>1. ChildrenOK
    BY <1>3, FS_EmptySet DEF ChildrenOK
  <2>. QED  BY <1>1, <1>2, <1>3, <2>1, KeysApart
            DEF IInv, RowsOK, HeldOK, ProviderOK, Present, IdsOf, IsManual
<1>4. CASE /\ provider = [id |-> ProviderId(0 + 1), enabled |-> TRUE]
           /\ rows = [k \in Keys |-> IF k = Fallback THEN NoRow
                                     ELSE IF k = Tier THEN row(k, OtherProvider, "manual")
                                     ELSE row(k, provider.id, "synced")]
           /\ children = kids
  <2>1. provider.id \in Id /\ OtherProvider \in Id
    BY <1>4 DEF ProviderId, OtherProvider, Id
  <2>2. \A k \in Keys, prov \in Id, source \in {"manual", "synced"} :
          row(k, prov, source) \in Row /\ row(k, prov, source).id.key = k
    BY DEF Row, Id
  <2>3. RowsOK
    <3>. HIDE DEF row
    <3>1. rows \in [Keys -> Row \cup {NoRow}]
      BY <1>4, <2>1, <2>2
    <3>2. \A k \in Present : rows[k].id.key = k
      BY <1>4, <2>1, <2>2 DEF Present
    <3>3. rows[Fallback] = NoRow
      BY <1>4, KeysApart
    <3>. QED  BY <3>1, <3>2, <3>3 DEF RowsOK, IsManual
  <2>4. \A k \in Models \cup {Tier} : id(k) \in IdsOf(rows)
    <3>1. \A k \in Models \cup {Tier} : rows[k] \in Row /\ rows[k].id = id(k)
      BY <1>4, <2>1, <2>2, KeysApart
    <3>2. Models \cup {Tier} \subseteq Keys
      BY KeysApart DEF Keys
    <3>. QED  BY <3>1, <3>2, NoRowAssumption DEF NoRowAssumption, IdsOf
  <2>5. IsFiniteSet(kids)
    <3>. DEFINE f == [m \in first |-> [parent |-> id(Tier), child |-> id(m), priority |-> 1]]
    <3>1. IsFiniteSet(first)
      BY SizeAssumption, FS_Subset DEF SizeAssumption
    <3>. HIDE DEF first
    <3>2. kids = {f[m] : m \in first}
      OBVIOUS
    <3>. HIDE DEF f, kids
    <3>. QED  BY <3>1, <3>2, ImageIsFinite
  <2>6. ChildrenOK
    BY <1>4, <2>4, <2>5 DEF ChildrenOK
  <2>7. HeldOK /\ ProviderOK
    BY <1>1, <1>4, <2>1 DEF HeldOK, ProviderOK
  <2>. QED  BY <1>2, <2>3, <2>6, <2>7 DEF IInv
<1>. QED  BY <1>3, <1>4 DEF Init, InitialTables

\* Every step keeps the invariant.
LEMMA NextIInv ==
  ASSUME IInv, [Next]_vars
  PROVE  IInv'
BY PassStep, OperatorStep, OtherSteps DEF Next

\* The inductive invariant holds in every reachable state.
THEOREM RegistryInvariant == Spec => []IInv
<1>1. Init => IInv
  BY InitIInv
<1>2. IInv /\ [Next]_vars => IInv'
  BY NextIInv
<1>. QED  BY <1>1, <1>2, PTL DEF Spec

\* What the operator switched off stays off, whatever passes had read by then.
THEOREM DisabledStaysDisabled == Spec => []OperatorDisableHolds
<1>1. IInv => OperatorDisableHolds
  BY DEF IInv, HeldOK, OperatorDisableHolds
<1>. QED  BY <1>1, RegistryInvariant, PTL

\* Passes keep the operator's work: rows keep their identity, the operator's rows their
\* contents, and tiers their children and order but for the two exceptions.
THEOREM OperatorsWorkKept == Spec => PassesKeepOperatorsWork
<1>. DEFINE A == \A w \in Workers : PassSteps(w) =>
                   /\ \A k \in Present \ {Fallback} :
                         /\ rows'[k] # NoRow /\ rows'[k].id = rows[k].id
                         /\ IsManual(rows[k]) => rows'[k] = rows[k]
                   /\ \A c \in children \ children' :
                         \/ c.child.key = Fallback \/ StandsIn(worker[w])
                         \/ rows[Tier].auto /\ ~IsManual(rows[c.child.key])
<1>1. ASSUME IInv, Next
      PROVE  A
  <2>1. ASSUME NEW w \in Workers, Start(w) \/ Step(w)
        PROVE  A
    BY <1>1, <2>1, PassStep, OnePassSteps DEF WorkKept, RowsKept, PassSteps
  <2>2. CASE UNCHANGED worker
    BY <2>2 DEF PassSteps
  <2>. QED  BY <1>1, <2>1, <2>2, OperatorStep, OtherSteps DEF Next
<1>2. IInv /\ [Next]_vars => [A]_vars
  BY <1>1
<1>3. PassesKeepOperatorsWork <=> [][A]_vars
  BY DEF PassesKeepOperatorsWork
<1>. HIDE DEF A
<1>. QED  BY <1>2, <1>3, RegistryInvariant, PTL DEF Spec
=============================================================================
