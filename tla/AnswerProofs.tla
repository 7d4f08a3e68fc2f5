------------------------------ MODULE AnswerProofs ------------------------------
(***************************************************************************)
(* What an answer is and what it costs, for every value of the constants.  *)
(*                                                                         *)
(* Prices: whatever providers offer and the directory lists, however the   *)
(* fetches of the directory interleave with syncs and answers, a record's  *)
(* tags are true of it and an answer is charged at a price that was stated *)
(* for its model.  The inductive invariant says where the records come     *)
(* from; the rest is a fact about the lookup and its callers.              *)
(*                                                                         *)
(* Events and frames: however the body is cut into lines and chunks and    *)
(* whichever way the backend answers, the events say what the provider     *)
(* said, with the characters replaced that a chunk ended in; every writer  *)
(* tells its client what the capture keeps, which is what the collector    *)
(* collects up to ids that change on the way; a Responses stream is legal, *)
(* and a tool call comes back as it was.  The invariant carries through a  *)
(* step what the parser, the capture and the writer have made of the same  *)
(* payloads; the folds of the model are reasoned about with FoldTheorems,  *)
(* one instance for each operator that is folded.                          *)
(***************************************************************************)
EXTENDS ModelPricing, FiniteSetTheorems, FunctionTheorems, SequenceTheorems,
        WellFoundedInduction, TLAPS

(* ------------------------- lemmas about operators ----------------------- *)

\* A set of numbers has a least one.
LEMMA LeastNumber ==
    ASSUME NEW S \in SUBSET Nat, S # {}
    PROVE  Min(S) \in S /\ \A n \in S : Min(S) <= n
<1>1. PICK x \in S : \A y \in S : <<y, x>> \notin OpToRel(<, Nat)
    BY NatLessThanWellFounded, WFMin
<1>2. \A y \in S : x <= y
    <2>. TAKE y \in S
    <2>1. <<y, x>> \notin OpToRel(<, Nat)
        BY <1>1
    <2>2. x \in Nat /\ y \in Nat
        OBVIOUS
    <2>. QED  BY <2>1, <2>2 DEF OpToRel
<1>. QED  BY <1>1, <1>2 DEF Min

\* A finite set is enumerated by a sequence.
LEMMA SetToSeqIs ==
    ASSUME NEW S, IsFiniteSet(S)
    PROVE  SetToSeq(S) \in Seq(S) /\ \A x \in S : \E k \in DOMAIN SetToSeq(S) : SetToSeq(S)[k] = x
<1>1. PICK n \in Nat : ExistsBijection(1 .. n, S)
    BY FS_NatBijection
<1>2. Cardinality(S) = n
    BY <1>1, FS_CountingElements
<1>3. PICK f \in Bijection(1 .. n, S) : TRUE
    BY <1>1 DEF ExistsBijection
<1>4. f \in [1 .. n -> S] /\ IsInjective(f)
    BY <1>3 DEF Bijection, Injection, IsInjective
<1>5. SetToSeq(S) \in [1 .. n -> S] /\ IsInjective(SetToSeq(S))
    BY <1>2, <1>4 DEF SetToSeq
<1>6. SetToSeq(S) \in Injection(1 .. n, S)
    BY <1>5 DEF Injection
<1>7. Cardinality(1 .. n) = n
    BY FS_Interval
<1>8. SetToSeq(S) \in Surjection(1 .. n, S)
    BY <1>2, <1>6, <1>7, FS_Injection
<1>. QED  BY <1>5, <1>8 DEF Surjection

(* --------------------------- the directory's lookup --------------------- *)

\* What a search of a list for the entries at the indices of I comes to.
Finds(e, l, I) == IF e = None THEN I = {} ELSE \E i \in I : e = l[i]

\* The first entry known among candidates is that of one of them, and none is left out.
LEMMA FirstKnownFinds ==
    ASSUME NEW l, NEW n \in Nat, NEW s, Len(s) = n,
           NEW I, \A k \in 1 .. n : Finds(s[k], l, I[k]),
           NEW H, \A i : i \in H <=> \E k \in 1 .. n : i \in I[k]
    PROVE  Finds(FirstKnown(s), l, H)
<1>. DEFINE known == {k \in 1 .. Len(s) : s[k] # None}
<1>2. FirstKnown(s) = LET i == IF known # {} THEN Min(known) ELSE 0 IN IF i = 0 THEN None ELSE s[i]
    BY DEF FirstKnown, FindFirst, SelectInSeq
<1>3. CASE known = {}
    <2>1. FirstKnown(s) = None
        BY <1>2, <1>3
    <2>2. \A k \in 1 .. n : s[k] = None
        BY <1>3
    <2>. QED  BY <2>1, <2>2 DEF Finds
<1>4. CASE known # {}
    <2>1. known \in SUBSET Nat
        OBVIOUS
    <2>2. Min(known) \in known
        BY <1>4, <2>1, LeastNumber
    <2>3. FirstKnown(s) = s[Min(known)] /\ s[Min(known)] # None /\ Min(known) \in 1 .. n
        BY <1>2, <1>4, <2>2
    <2>. QED  BY <2>3 DEF Finds
<1>. QED  BY <1>3, <1>4

\* The entries that a name, an alias or a last part can mean.
IdHits(l, key) == {i \in DOMAIN l : l[i].id = key}
SlugHits(l, key) == {i \in DOMAIN l : {j \in DOMAIN l : l[j].slug = key} = {i}}
NameHits(l, key) == {i \in DOMAIN l : {j \in DOMAIN l : l[j].name = key} = {i}}
LeafHits(l, id) == {i \in DOMAIN l : {j \in DOMAIN l : Leaf(id) \in LeavesOf(l[j])} = {i}}
ExactHits(l, key) == IdHits(l, key) \cup SlugHits(l, key) \cup NameHits(l, key)
AliasHits(l, provider, id) == UNION {IdHits(l, key) \cup SlugHits(l, key) : key \in Aliases(provider, id)}

\* The last of a list with an id.
LEMMA ByIdFinds ==
    ASSUME NEW E, None \notin E, NEW l \in Seq(E), NEW key
    PROVE  Finds(ById(l, key), l, IdHits(l, key))
<1>. DEFINE n == Len(l)
            named == [i \in DOMAIN l |-> IF l[i].id = key THEN l[i] ELSE None]
            s == [k \in 1 .. n |-> named[(n - k) + 1]]
            I == [k \in 1 .. n |-> IF l[(n - k) + 1].id = key THEN {(n - k) + 1} ELSE {}]
<1>1. n \in Nat /\ DOMAIN l = 1 .. n
    BY LenProperties
<1>2. Len(named) = n
    <2>1. named \in Seq(E \cup {None})
        BY <1>1
    <2>. QED  BY <1>1, <2>1
<1>3. ById(l, key) = FirstKnown(s)
    <2>1. ById(l, key) = FirstKnown(Reverse(named))
        BY DEF ById
    <2>2. Reverse(named) = s
        <3>. HIDE DEF named
        <3>. QED  BY <1>2 DEF Reverse
    <2>. QED  BY <2>1, <2>2
<1>4. \A k \in 1 .. n : (n - k) + 1 \in 1 .. n /\ l[(n - k) + 1] \in E
    BY <1>1
<1>5. \A k \in 1 .. n : Finds(s[k], l, I[k])
    BY <1>1, <1>4 DEF Finds
<1>6. \A i : i \in IdHits(l, key) <=> \E k \in 1 .. n : i \in I[k]
    <2>1. ASSUME NEW i \in DOMAIN l, l[i].id = key
          PROVE  \E k \in 1 .. n : i \in I[k]
        <3>1. (n - i) + 1 \in 1 .. n /\ (n - ((n - i) + 1)) + 1 = i
            BY <1>1
        <3>. QED  BY <2>1, <3>1
    <2>2. ASSUME NEW k \in 1 .. n, NEW i \in I[k]
          PROVE  i \in DOMAIN l /\ l[i].id = key
        BY <1>1, <1>4
    <2>. HIDE DEF I
    <2>. QED  BY <2>1, <2>2 DEF IdHits
<1>7. Len(s) = n
    BY <1>1
<1>. HIDE DEF s, I
<1>. QED  BY <1>1, <1>3, <1>5, <1>6, <1>7, FirstKnownFinds

\* A name that one entry has.
LEMMA UniqueFinds ==
    ASSUME NEW E, None \notin E, NEW l \in Seq(E), NEW names, NEW key
    PROVE  Finds(Unique(l, names, key), l, {i \in DOMAIN l : {j \in DOMAIN l : key \in names[j]} = {i}})
<1>. DEFINE hits == {j \in DOMAIN l : key \in names[j]}
<1>1. IsFiniteSet(hits)
    <2>1. IsFiniteSet(1 .. Len(l)) /\ DOMAIN l = 1 .. Len(l)
        BY LenProperties, FS_Interval
    <2>2. hits \in SUBSET (1 .. Len(l))
        BY <2>1
    <2>. HIDE DEF hits
    <2>. QED  BY <2>1, <2>2, FS_Subset
<1>2. Unique(l, names, key) = IF Cardinality(hits) = 1 THEN l[CHOOSE i \in hits : TRUE] ELSE None
    BY DEF Unique
<1>3. Cardinality(hits) = 1 <=> \E x : hits = {x}
    BY <1>1, FS_Singleton
<1>4. CASE Cardinality(hits) = 1
    <2>1. PICK x : hits = {x}
        BY <1>3, <1>4
    <2>2. x \in DOMAIN l /\ l[x] \in E
        BY <2>1
    <2>3. Unique(l, names, key) = l[x]
        <3>. HIDE DEF hits
        <3>. QED  BY <1>2, <1>4, <2>1
    <2>. QED  BY <2>1, <2>2, <2>3 DEF Finds
<1>5. CASE Cardinality(hits) # 1
    BY <1>2, <1>3, <1>5 DEF Finds
<1>. QED  BY <1>4, <1>5

\* Each search of the lookup finds one of the entries it may find, or there is none.
LEMMA BySlugFinds ==
    ASSUME NEW E, None \notin E, NEW l \in Seq(E), NEW key
    PROVE  Finds(BySlug(l, key), l, SlugHits(l, key))
<1>. DEFINE names == [i \in DOMAIN l |-> {l[i].slug}]
<1>1. Finds(Unique(l, names, key), l, {i \in DOMAIN l : {j \in DOMAIN l : key \in names[j]} = {i}})
    <2>. HIDE DEF names
    <2>. QED  BY UniqueFinds
<1>2. {j \in DOMAIN l : key \in names[j]} = {j \in DOMAIN l : l[j].slug = key}
    OBVIOUS
<1>. QED  BY <1>1, <1>2 DEF BySlug, SlugHits

LEMMA ByNameFinds ==
    ASSUME NEW E, None \notin E, NEW l \in Seq(E), NEW key
    PROVE  Finds(ByName(l, key), l, NameHits(l, key))
<1>. DEFINE names == [i \in DOMAIN l |-> {l[i].name}]
<1>1. Finds(Unique(l, names, key), l, {i \in DOMAIN l : {j \in DOMAIN l : key \in names[j]} = {i}})
    <2>. HIDE DEF names
    <2>. QED  BY UniqueFinds
<1>2. {j \in DOMAIN l : key \in names[j]} = {j \in DOMAIN l : l[j].name = key}
    OBVIOUS
<1>. QED  BY <1>1, <1>2 DEF ByName, NameHits

LEMMA ByLeafFinds ==
    ASSUME NEW E, None \notin E, NEW l \in Seq(E), NEW id
    PROVE  Finds(ByLeaf(l, Leaf(id)), l, LeafHits(l, id))
<1>. DEFINE names == [i \in DOMAIN l |-> LeavesOf(l[i])]
            key == Leaf(id)
<1>1. Finds(Unique(l, names, key), l, {i \in DOMAIN l : {j \in DOMAIN l : key \in names[j]} = {i}})
    <2>. HIDE DEF names, key
    <2>. QED  BY UniqueFinds
<1>2. {j \in DOMAIN l : key \in names[j]} = {j \in DOMAIN l : Leaf(id) \in LeavesOf(l[j])}
    OBVIOUS
<1>. QED  BY <1>1, <1>2 DEF ByLeaf, LeafHits

LEMMA ExactlyFinds ==
    ASSUME NEW E, None \notin E, NEW l \in Seq(E), NEW key
    PROVE  Finds(Exactly(l, key), l, ExactHits(l, key))
<1>. DEFINE s == <<ById(l, key), BySlug(l, key), ByName(l, key)>>
            I == <<IdHits(l, key), SlugHits(l, key), NameHits(l, key)>>
<1>1. \A k \in 1 .. 3 : Finds(s[k], l, I[k])
    BY ByIdFinds, BySlugFinds, ByNameFinds
<1>2. Len(s) = 3
    OBVIOUS
<1>3. \A i : i \in ExactHits(l, key) <=> \E k \in 1 .. 3 : i \in I[k]
    BY DEF ExactHits
<1>4. Exactly(l, key) = FirstKnown(s)
    BY DEF Exactly
<1>. HIDE DEF s, I
<1>. QED  BY <1>1, <1>2, <1>3, <1>4, FirstKnownFinds

\* The aliases of an id are as many as the rules at most.
LEMMA AliasesFinite ==
    ASSUME NEW provider, NEW id
    PROVE  IsFiniteSet(Aliases(provider, id))
<1>. DEFINE rules == {r \in AliasRules : r.provider = provider /\ IsPrefix(r.from, id)}
            f == [r \in rules |-> r.to \o SubSeq(id, Len(r.from) + 1, Len(id))]
<1>1. IsFiniteSet(rules)
    BY PricingAssumption, FS_Subset
<1>2. f \in Surjection(rules, Aliases(provider, id))
    BY DEF Aliases, Surjection
<1>. QED  BY <1>1, <1>2, FS_Surjection

LEMMA ByAliasFinds ==
    ASSUME NEW E, None \notin E, NEW l \in Seq(E), NEW provider, NEW id
    PROVE  Finds(ByAlias(l, provider, id), l, AliasHits(l, provider, id))
<1>. DEFINE keys == SetToSeq(Aliases(provider, id))
            n == Len(keys)
            s == [k \in DOMAIN keys |-> FirstKnown(<<ById(l, keys[k]), BySlug(l, keys[k])>>)]
            I == [k \in DOMAIN keys |-> IdHits(l, keys[k]) \cup SlugHits(l, keys[k])]
<1>1. keys \in Seq(Aliases(provider, id)) /\ \A x \in Aliases(provider, id) : \E k \in DOMAIN keys : keys[k] = x
    BY AliasesFinite, SetToSeqIs
<1>2. n \in Nat /\ DOMAIN keys = 1 .. n
    BY <1>1, LenProperties
<1>3. ASSUME NEW k \in 1 .. n  PROVE Finds(s[k], l, I[k])
    <2>. DEFINE key == keys[k]
                t == <<ById(l, key), BySlug(l, key)>>
                J == <<IdHits(l, key), SlugHits(l, key)>>
    <2>1. \A m \in 1 .. 2 : Finds(t[m], l, J[m])
        BY ByIdFinds, BySlugFinds
    <2>2. Len(t) = 2
        OBVIOUS
    <2>3. \A i : i \in I[k] <=> \E m \in 1 .. 2 : i \in J[m]
        BY <1>2
    <2>4. s[k] = FirstKnown(t)
        BY <1>2
    <2>. HIDE DEF s, I, t, J
    <2>. QED  BY <2>1, <2>2, <2>3, <2>4, FirstKnownFinds
<1>4. \A i : i \in AliasHits(l, provider, id) <=> \E k \in 1 .. n : i \in I[k]
    <2>. HIDE DEF keys
    <2>. QED  BY <1>1, <1>2 DEF AliasHits
<1>5. Len(s) = n
    <2>. HIDE DEF keys
    <2>. QED  BY <1>2
<1>6. ByAlias(l, provider, id) = FirstKnown(s)
    BY DEF ByAlias
<1>. HIDE DEF s, I, keys
<1>. QED  BY <1>2, <1>3, <1>4, <1>5, <1>6, FirstKnownFinds

\* lookupModel finds an entry that the names and ids can mean, and finds none only when no
\* entry can be meant.
THEOREM LookupFinds ==
    ASSUME NEW E, None \notin E, NEW l \in Seq(E), NEW provider,
           NEW A, NEW names \in Seq(A), NEW B, NEW ids \in Seq(B)
    PROVE  Finds(LookupModel(l, provider, names, ids), l,
                 {i \in DOMAIN l : Meant(l, provider, names, ids, i)})
<1>. DEFINE exact == [k \in DOMAIN names |-> Exactly(l, names[k])]
            alias == [k \in DOMAIN ids |-> ByAlias(l, provider, ids[k])]
            leaf == [k \in DOMAIN ids |-> ByLeaf(l, Leaf(ids[k]))]
            exactHits == [k \in DOMAIN names |-> ExactHits(l, names[k])]
            aliasHits == [k \in DOMAIN ids |-> AliasHits(l, provider, ids[k])]
            leafHits == [k \in DOMAIN ids |-> LeafHits(l, ids[k])]
            exactAll == UNION {exactHits[k] : k \in 1 .. Len(names)}
            aliasAll == UNION {aliasHits[k] : k \in 1 .. Len(ids)}
            leafAll == UNION {leafHits[k] : k \in 1 .. Len(ids)}
            s == <<FirstKnown(exact), FirstKnown(alias), FirstKnown(leaf)>>
            I == <<exactAll, aliasAll, leafAll>>
<1>1. Len(names) \in Nat /\ DOMAIN names = 1 .. Len(names) /\ Len(ids) \in Nat /\ DOMAIN ids = 1 .. Len(ids)
    BY LenProperties
<1>2. Finds(FirstKnown(exact), l, exactAll)
    <2>1. \A k \in 1 .. Len(names) : Finds(exact[k], l, exactHits[k])
        BY <1>1, ExactlyFinds
    <2>2. Len(exact) = Len(names)
        BY <1>1
    <2>3. \A i : i \in exactAll <=> \E k \in 1 .. Len(names) : i \in exactHits[k]
        <3>. HIDE DEF exactHits
        <3>. QED  OBVIOUS
    <2>. HIDE DEF exact, exactHits, exactAll
    <2>. QED  BY <1>1, <2>1, <2>2, <2>3, FirstKnownFinds
<1>3. Finds(FirstKnown(alias), l, aliasAll)
    <2>1. \A k \in 1 .. Len(ids) : Finds(alias[k], l, aliasHits[k])
        BY <1>1, ByAliasFinds
    <2>2. Len(alias) = Len(ids)
        BY <1>1
    <2>3. \A i : i \in aliasAll <=> \E k \in 1 .. Len(ids) : i \in aliasHits[k]
        <3>. HIDE DEF aliasHits
        <3>. QED  OBVIOUS
    <2>. HIDE DEF alias, aliasHits, aliasAll
    <2>. QED  BY <1>1, <2>1, <2>2, <2>3, FirstKnownFinds
<1>4. Finds(FirstKnown(leaf), l, leafAll)
    <2>1. \A k \in 1 .. Len(ids) : Finds(leaf[k], l, leafHits[k])
        BY <1>1, ByLeafFinds
    <2>2. Len(leaf) = Len(ids)
        BY <1>1
    <2>3. \A i : i \in leafAll <=> \E k \in 1 .. Len(ids) : i \in leafHits[k]
        <3>. HIDE DEF leafHits
        <3>. QED  OBVIOUS
    <2>. HIDE DEF leaf, leafHits, leafAll
    <2>. QED  BY <1>1, <2>1, <2>2, <2>3, FirstKnownFinds
<1>5. exactAll \cup aliasAll \cup leafAll = {i \in DOMAIN l : Meant(l, provider, names, ids, i)}
    <2>. DEFINE known == ToSet(names) \cup UNION {Aliases(provider, id) : id \in ToSet(ids)}
    <2>1. ToSet(names) = {names[k] : k \in 1 .. Len(names)} /\ ToSet(ids) = {ids[k] : k \in 1 .. Len(ids)}
        BY <1>1 DEF ToSet
    <2>2. exactAll = UNION {ExactHits(l, key) : key \in ToSet(names)}
        BY <1>1, <2>1
    <2>3. aliasAll = UNION {AliasHits(l, provider, id) : id \in ToSet(ids)}
        BY <1>1, <2>1
    <2>4. leafAll = UNION {LeafHits(l, id) : id \in ToSet(ids)}
        BY <1>1, <2>1
    <2>5. \A i \in DOMAIN l : Meant(l, provider, names, ids, i) <=>
            \/ \E key \in known : i \in IdHits(l, key) \cup SlugHits(l, key)
            \/ \E key \in ToSet(names) : i \in NameHits(l, key)
            \/ \E id \in ToSet(ids) : i \in LeafHits(l, id)
        BY DEF Meant, IdHits, SlugHits, NameHits, LeafHits
    <2>6. \A key : IdHits(l, key) \subseteq DOMAIN l /\ SlugHits(l, key) \subseteq DOMAIN l
                  /\ NameHits(l, key) \subseteq DOMAIN l /\ LeafHits(l, key) \subseteq DOMAIN l
        BY DEF IdHits, SlugHits, NameHits, LeafHits
    <2>. HIDE DEF exactAll, aliasAll, leafAll
    <2>. QED  BY <2>2, <2>3, <2>4, <2>5, <2>6 DEF ExactHits, AliasHits
<1>. HIDE DEF exact, alias, leaf, exactAll, aliasAll, leafAll
<1>6. \A k \in 1 .. 3 : Finds(s[k], l, I[k])
    BY <1>2, <1>3, <1>4
<1>7. Len(s) = 3
    OBVIOUS
<1>8. \A i : i \in exactAll \cup aliasAll \cup leafAll <=> \E k \in 1 .. 3 : i \in I[k]
    OBVIOUS
<1>9. LookupModel(l, provider, names, ids) = FirstKnown(s)
    BY DEF LookupModel, exact, alias, leaf
<1>. DEFINE all == exactAll \cup aliasAll \cup leafAll
<1>10. Finds(FirstKnown(s), l, all)
    <2>. HIDE DEF s, I, all
    <2>. QED  BY <1>6, <1>7, <1>8, FirstKnownFinds DEF all
<1>. HIDE DEF s
<1>. QED  BY <1>5, <1>9, <1>10

(* ----------------------------- from offer to record --------------------- *)

Lists == Listings \cup {<< >>}

Described(d) ==
    /\ d = [provider |-> d.provider, id |-> d.id, key |-> d.key, name |-> d.name, mode |-> d.mode,
            input |-> d.input, output |-> d.output, request |-> d.request, free |-> d.free,
            tools |-> d.tools, agent |-> d.agent, tags |-> d.tags]
    /\ d.mode \in Modes \cup {None}
    /\ d.agent \in BOOLEAN

SamePrice(m, d) == m.mode = d.mode /\ m.input = d.input /\ m.output = d.output /\ m.request = d.request
SameNames(m, d) == m.provider = d.provider /\ m.id = d.id /\ m.key = d.key /\ m.name = d.name

\* What is added to the tags of d on the way to m is true of m.
TagsTrue(m, d) ==
    /\ "free" \in m.tags \ d.tags => m.mode = "free" \/ d.free = TRUE
    /\ "tool-calling" \in m.tags \ d.tags => m.tools # FALSE

\* What a provider offers is described with a mode the database knows, or none.
LEMMA DiscoveredIs ==
    ASSUME NEW o \in Offers
    PROVE  Described(Discovered(o))
<1>1. CASE "mode" \in DOMAIN o
    <2>1. o.mode \in Modes \cup {None}
        BY <1>1, PricingAssumption
    <2>. QED  BY <1>1, <2>1 DEF Discovered, OfAgent, Described
<1>2. CASE "mode" \notin DOMAIN o
    BY <1>2 DEF Discovered, OfApi, ModeOf, Modes, Described
<1>. QED  BY <1>1, <1>2

\* The directory gives a record without a price its own, and tags that the record bears out.
LEMMA FromDirectoryIs ==
    ASSUME NEW d, Described(d), NEW e
    PROVE  LET m == FromDirectory(d, e) IN
           /\ Described(m) /\ SameNames(m, d) /\ TagsTrue(m, d)
           /\ HasPrice(d) => SamePrice(m, d)
           /\ ~HasPrice(d) => /\ m.mode = ModeOf(e) /\ m.input = e.input
                              /\ m.output = e.output /\ m.request = e.request
<1>. DEFINE mode == ModeOf(e)
            priced == IF HasPrice(d) THEN d
                      ELSE [d EXCEPT !.mode = mode, !.input = e.input, !.output = e.output,
                                     !.request = e.request, !.free = (@ = TRUE \/ mode = "free")]
            known == [priced EXCEPT !.tools = IF @ = None THEN e.tools ELSE @]
            m == FromDirectory(d, e)
<1>1. m = IF d.agent THEN known ELSE [known EXCEPT !.tags = MergeTags(known, EntryTags(e))]
    <2>1. known.agent = d.agent
        BY DEF Described
    <2>. QED  BY <2>1 DEF FromDirectory
<1>2. mode \in Modes
    BY DEF ModeOf, Modes
<1>3. priced.free = TRUE => d.free = TRUE \/ (~HasPrice(d) /\ mode = "free")
    BY DEF Described
<1>4. /\ Described(priced) /\ SameNames(priced, d) /\ priced.tags = d.tags /\ priced.agent = d.agent
      /\ HasPrice(d) => SamePrice(priced, d)
      /\ ~HasPrice(d) => /\ priced.mode = mode /\ priced.input = e.input
                         /\ priced.output = e.output /\ priced.request = e.request
    <2>. HIDE DEF mode
    <2>1. CASE HasPrice(d)
        BY <2>1 DEF SameNames, SamePrice
    <2>2. CASE ~HasPrice(d)
        BY <1>2, <2>2 DEF Described, SameNames
    <2>. QED  BY <2>1, <2>2
<1>5. /\ Described(known) /\ SameNames(known, d) /\ known.tags = d.tags /\ known.agent = d.agent
      /\ known.free = priced.free /\ SamePrice(known, priced)
    <2>. HIDE DEF priced
    <2>. QED  BY <1>4 DEF Described, SameNames, SamePrice
<1>. HIDE DEF priced, known, m, mode
<1>6. CASE d.agent
    <2>1. m = known
        BY <1>1, <1>6
    <2>. QED  BY <1>4, <1>5, <2>1 DEF SamePrice, TagsTrue, m, mode
<1>7. CASE ~d.agent
    <2>1. m = [known EXCEPT !.tags = MergeTags(known, EntryTags(e))]
        BY <1>1, <1>7
    <2>2. Described(m) /\ SameNames(m, d) /\ SamePrice(m, priced) /\ m.tools = known.tools
            /\ m.tags = MergeTags(known, EntryTags(e))
        BY <1>5, <2>1 DEF Described, SameNames, SamePrice
    <2>3. "free" \in m.tags \ d.tags => m.mode = "free" \/ d.free = TRUE
        BY <1>3, <1>4, <1>5, <2>2 DEF MergeTags, SamePrice
    <2>4. "tool-calling" \in m.tags \ d.tags => m.tools # FALSE
        BY <1>5, <2>2 DEF MergeTags
    <2>. QED  BY <1>4, <2>2, <2>3, <2>4 DEF SamePrice, TagsTrue, m, mode
<1>. QED  BY <1>6, <1>7 DEF Described

\* The curated table gives a price to a record that has none.
LEMMA FromCuratedIs ==
    ASSUME NEW d, Described(d)
    PROVE  LET m == FromCurated(d) IN
           /\ Described(m) /\ SameNames(m, d) /\ m.tags = d.tags /\ m.tools = d.tools
           /\ (d.key \notin DOMAIN Curated \/ HasPrice(d)) => SamePrice(m, d)
           /\ (d.key \in DOMAIN Curated /\ ~HasPrice(d)) =>
                /\ m.mode = "token" /\ m.input = Curated[d.key].input /\ m.output = Curated[d.key].output
<1>. DEFINE exact == d.key \in DOMAIN Curated
            free == IF exact \/ d.provider \in CuratedFree THEN TRUE ELSE d.free
            called == [d EXCEPT !.free = free]
            m == FromCurated(d)
<1>1. Described(called) /\ SameNames(called, d) /\ called.tags = d.tags /\ called.tools = d.tools
        /\ SamePrice(called, d)
    <2>. HIDE DEF free
    <2>. QED  BY DEF Described, SameNames, SamePrice
<1>2. m = IF ~exact \/ HasPrice(d) THEN called
          ELSE [called EXCEPT !.mode = "token", !.input = Curated[d.key].input,
                              !.output = Curated[d.key].output]
    BY DEF FromCurated
<1>. HIDE DEF called
<1>3. CASE ~exact \/ HasPrice(d)
    BY <1>1, <1>2, <1>3
<1>4. CASE exact /\ ~HasPrice(d)
    BY <1>1, <1>2, <1>4 DEF Described, SameNames, Modes
<1>. QED  BY <1>3, <1>4

\* The classifier adds tool calling to a record that does not deny it.
LEMMA ClassifiedIs ==
    ASSUME NEW d, Described(d)
    PROVE  LET m == Classified(d) IN
           /\ Described(m) /\ SameNames(m, d) /\ SamePrice(m, d) /\ m.tools = d.tools
           /\ m.tags = d.tags \/ (m.tags = d.tags \cup {"tool-calling"} /\ m.tools # FALSE)
BY DEF Classified, Described, SameNames, SamePrice

\* Half a price is stored as none.
Half(d) == d.mode = "token" /\ None \in {d.input, d.output}
Unpriced(d) == d.mode = None \/ Half(d) \/ (d.mode = "request" /\ d.request = None)

\* Storing an offer keeps its names, tools and tags, and its price unless it has none.
LEMMA StoredPriceIs ==
    ASSUME NEW d, Described(d)
    PROVE  LET m == StoredPrice(d) IN
           /\ SameNames(m, d) /\ m.tools = d.tools /\ m.tags = d.tags
           /\ IF Unpriced(d) THEN m.mode = "external_directory" ELSE SamePrice(m, d)
<1>. DEFINE half == Half(d)
            mode == IF Unpriced(d) THEN "external_directory" ELSE d.mode
            m == StoredPrice(d)
<1>1. m = [d EXCEPT !.mode = mode, !.input = IF half THEN None ELSE @, !.output = IF half THEN None ELSE @]
    BY DEF StoredPrice, Half, Unpriced
<1>2. /\ SameNames(m, d) /\ m.tools = d.tools /\ m.tags = d.tags /\ m.mode = mode
      /\ m.request = d.request /\ (~half => m.input = d.input /\ m.output = d.output)
    <2>. HIDE DEF half, mode, m
    <2>. QED  BY <1>1 DEF Described, SameNames
<1>3. ~Unpriced(d) => ~half /\ mode = d.mode
    BY DEF Unpriced
<1>4. Unpriced(d) => mode = "external_directory"
    OBVIOUS
<1>. HIDE DEF m, half, mode
<1>. QED  BY <1>2, <1>3, <1>4 DEF SamePrice, m

(* ------------------------------ the records ----------------------------- *)

\* The price that a record comes to, by where it comes from: the provider's, the directory's,
\* the curated table's, or none.
LEMMA MadeIs ==
    ASSUME NEW d, Described(d), NEW l
    PROVE  LET m == StoredPrice(Enriched(d, l))
               e == LookupModel(l, d.provider, LongNames(d), LongIds(d))
           IN  /\ SameNames(m, d) /\ TagsTrue(m, d)
               /\ Own(d) => SamePrice(m, d)
               /\ \/ m.mode = "external_directory"
                  \/ Own(d)
                  \/ e # None /\ m.mode = ModeOf(e) /\ m.input = e.input /\ m.output = e.output
                        /\ m.request = e.request
                  \/ d.key \in DOMAIN Curated /\ m.mode = "token" /\ m.input = Curated[d.key].input
                        /\ m.output = Curated[d.key].output
<1>. DEFINE e == LookupModel(l, d.provider, LongNames(d), LongIds(d))
            listed == IF e = None THEN d ELSE FromDirectory(d, e)
            priced == FromCurated(listed)
            classed == Classified(priced)
            m == StoredPrice(classed)
<1>1. m = StoredPrice(Enriched(d, l))
    BY DEF Enriched
<1>2. /\ Described(listed) /\ SameNames(listed, d) /\ TagsTrue(listed, d)
      /\ HasPrice(d) => SamePrice(listed, d)
      /\ ~HasPrice(d) => \/ SamePrice(listed, d)
                         \/ e # None /\ listed.mode = ModeOf(e) /\ listed.input = e.input
                               /\ listed.output = e.output /\ listed.request = e.request
    <2>1. CASE e = None
        <3>1. listed = d
            BY <2>1
        <3>. QED  BY <3>1 DEF SameNames, SamePrice, TagsTrue
    <2>2. CASE e # None
        <3>1. listed = FromDirectory(d, e)
            BY <2>2
        <3>. HIDE DEF e, listed
        <3>. QED  BY <2>2, <3>1, FromDirectoryIs
    <2>. QED  BY <2>1, <2>2
<1>. HIDE DEF listed, e
<1>3. /\ Described(priced) /\ SameNames(priced, listed) /\ priced.tags = listed.tags
      /\ priced.tools = listed.tools
      /\ (listed.key \notin DOMAIN Curated \/ HasPrice(listed)) => SamePrice(priced, listed)
      /\ (listed.key \in DOMAIN Curated /\ ~HasPrice(listed)) =>
                /\ priced.mode = "token" /\ priced.input = Curated[listed.key].input
                /\ priced.output = Curated[listed.key].output
    BY <1>2, FromCuratedIs
<1>. HIDE DEF priced
<1>4. /\ Described(classed) /\ SameNames(classed, priced) /\ SamePrice(classed, priced)
      /\ classed.tools = priced.tools
      /\ classed.tags = priced.tags \/ (classed.tags = priced.tags \cup {"tool-calling"} /\ classed.tools # FALSE)
    BY <1>3, ClassifiedIs
<1>. HIDE DEF classed
<1>5. /\ SameNames(m, classed) /\ m.tools = classed.tools /\ m.tags = classed.tags
      /\ IF Unpriced(classed) THEN m.mode = "external_directory" ELSE SamePrice(m, classed)
    BY <1>4, StoredPriceIs
<1>. HIDE DEF m
<1>6. SameNames(m, d)
    BY <1>2, <1>3, <1>4, <1>5 DEF SameNames
<1>7. TagsTrue(m, d)
    <2>1. ASSUME "free" \in m.tags \ d.tags
          PROVE  m.mode = "free" \/ d.free = TRUE
        <3>1. m.tags \subseteq listed.tags \cup {"tool-calling"}
            BY <1>3, <1>4, <1>5
        <3>2. "free" \in listed.tags \ d.tags
            BY <2>1, <3>1
        <3>3. CASE listed.mode = "free"
            <4>1. HasPrice(listed)
                BY <3>3, PricingAssumption DEF HasPrice, Modes
            <4>2. classed.mode = "free"
                BY <1>3, <1>4, <3>3, <4>1 DEF SamePrice
            <4>3. ~Unpriced(classed)
                BY <4>2, PricingAssumption DEF Unpriced, Half, Modes
            <4>. QED  BY <1>5, <4>2, <4>3 DEF SamePrice
        <3>. QED  BY <1>2, <3>2, <3>3 DEF TagsTrue
    <2>2. ASSUME "tool-calling" \in m.tags \ d.tags
          PROVE  m.tools # FALSE
        BY <1>2, <1>3, <1>4, <1>5, <2>2 DEF TagsTrue
    <2>. QED  BY <2>1, <2>2 DEF TagsTrue
<1>8. Own(d) => SamePrice(m, d)
    <2>. SUFFICES ASSUME Own(d) PROVE SamePrice(m, d)
        OBVIOUS
    <2>1. HasPrice(d)
        BY PricingAssumption DEF Own, HasPrice, Modes
    <2>2. SamePrice(classed, d) /\ HasPrice(listed)
        BY <1>2, <1>3, <1>4, <2>1 DEF SamePrice, HasPrice
    <2>3. ~Unpriced(classed)
        BY <2>2, PricingAssumption DEF Own, Unpriced, Half, SamePrice, Modes
    <2>. QED  BY <1>5, <2>2, <2>3 DEF SamePrice
<1>9. \/ m.mode = "external_directory"
      \/ Own(d)
      \/ e # None /\ m.mode = ModeOf(e) /\ m.input = e.input /\ m.output = e.output
            /\ m.request = e.request
      \/ d.key \in DOMAIN Curated /\ m.mode = "token" /\ m.input = Curated[d.key].input
            /\ m.output = Curated[d.key].output
    <2>. SUFFICES ASSUME ~Own(d), m.mode # "external_directory"
                  PROVE  \/ e # None /\ m.mode = ModeOf(e) /\ m.input = e.input /\ m.output = e.output
                               /\ m.request = e.request
                         \/ d.key \in DOMAIN Curated /\ m.mode = "token" /\ m.input = Curated[d.key].input
                               /\ m.output = Curated[d.key].output
        OBVIOUS
    <2>1. SamePrice(m, priced) /\ ~Unpriced(priced)
        BY <1>4, <1>5 DEF SamePrice, Half, Unpriced
    <2>2. CASE listed.key \in DOMAIN Curated /\ ~HasPrice(listed)
        BY <1>2, <1>3, <2>1, <2>2 DEF SameNames, SamePrice
    <2>3. CASE ~(listed.key \in DOMAIN Curated /\ ~HasPrice(listed))
        <3>1. SamePrice(m, listed)
            BY <1>3, <2>1, <2>3 DEF SamePrice
        <3>2. ~SamePrice(listed, d)
            <4>1. SUFFICES ASSUME SamePrice(listed, d) PROVE FALSE
                OBVIOUS
            <4>2. SamePrice(priced, d)
                BY <1>3, <2>3, <4>1 DEF SamePrice
            <4>3. d.mode \in Modes \cup {None}
                BY DEF Described
            <4>4. m.mode = d.mode /\ ~Unpriced(d)
                BY <2>1, <4>2 DEF SamePrice, Unpriced, Half
            <4>. QED  BY <4>3, <4>4 DEF Own, Half, Unpriced, Modes
        <3>3. e # None /\ listed.mode = ModeOf(e) /\ listed.input = e.input
                   /\ listed.output = e.output /\ listed.request = e.request
            BY <1>2, <3>2
        <3>. QED  BY <3>1, <3>3 DEF SamePrice
    <2>. QED  BY <2>2, <2>3
<1>. QED  BY <1>1, <1>6, <1>7, <1>8, <1>9 DEF e

(* ------------------------------ the invariant --------------------------- *)

\* A record and where it comes from.
Made(r) == \E o \in Offers, l \in Lists :
    r.of = Discovered(o) /\ r.list = l /\ r.model = StoredPrice(Enriched(Discovered(o), l))

SyncDescribes == sync # None =>
    \E o \in Offers : sync = [descriptor |-> Discovered(o), state |-> sync.state]

PriceDue(list) == RequestCost(target.model, Counted(Captured.usage), list)

Charged == charge # None =>
    /\ status = "ended" /\ target # None /\ charge.list \in Lists
    /\ Captured.usage # None => charge.price = PriceDue(charge.list)

PricedInv ==
    /\ entries \in Lists
    /\ SyncDescribes
    /\ row # None => Made(row)
    /\ target # None => Made(target)
    /\ Charged

\* It holds of the gateway as it starts.
LEMMA PricedInvInit == PricedInit => PricedInv
BY DEF PricedInit, PricingInit, PricedInv, Lists, SyncDescribes, Charged

\* What waits for the directory keeps its descriptor.
LEMMA WaitingDescribes ==
    ASSUME SyncDescribes, NEW state, sync' = Waiting(state)
    PROVE  SyncDescribes'
<1>1. CASE sync # None /\ sync.state = "waiting"
    <2>1. PICK o \in Offers : sync = [descriptor |-> Discovered(o), state |-> sync.state]
        BY <1>1 DEF SyncDescribes
    <2>2. sync' = [sync EXCEPT !.state = state]
        BY <1>1 DEF Waiting
    <2>3. sync' = [descriptor |-> Discovered(o), state |-> sync'.state]
        BY <2>1, <2>2
    <2>. QED  BY <2>3 DEF SyncDescribes
<1>2. CASE ~(sync # None /\ sync.state = "waiting")
    BY <1>2 DEF Waiting, SyncDescribes
<1>. QED  BY <1>1, <1>2

\* Every step keeps it.
LEMMA PricedInvNext == PricedInv /\ [PricedNext]_allVars => PricedInv'
<1>. SUFFICES ASSUME PricedInv, [PricedNext]_allVars
              PROVE  PricedInv'
    OBVIOUS
<1>1. CASE Stream
    <2>1. UNCHANGED <<entries, sync, row, charge>>
        BY <1>1 DEF Stream
    <2>2. SyncDescribes'
        BY <2>1 DEF PricedInv, SyncDescribes
    <2>3. target' # None => Made(target')
        BY <1>1 DEF Stream, PricedInv
    <2>4. CASE charge = None
        BY <2>1, <2>2, <2>3, <2>4 DEF PricedInv, Charged
    <2>5. CASE charge # None
        <3>1. status = "ended" /\ target # None /\ charge.list \in Lists
                /\ (Captured.usage # None => charge.price = PriceDue(charge.list))
            BY <2>5 DEF PricedInv, Charged
        <3>2. Ended
            BY <1>1, <3>1 DEF Stream, Next, Receive, EndOfBody, ReceiveJson, ReceiveChunk,
                              ReceiveDone, Break
        <3>3. UNCHANGED vars /\ target' = target
            BY <1>1, <3>1, <3>2 DEF Ended, Stream
        <3>4. status' = status
            BY <3>3 DEF vars
        <3>5. PriceDue(charge.list)' = PriceDue(charge.list) /\ Captured' = Captured
            BY <2>1, <3>3 DEF vars, PriceDue, Captured
        <3>. QED  BY <2>1, <2>2, <2>3, <3>1, <3>3, <3>4, <3>5 DEF PricedInv, Charged
    <2>. QED  BY <2>4, <2>5
<1>2. ASSUME UNCHANGED vars, UNCHANGED target, UNCHANGED charge
      PROVE  Charged'
    <2>1. status' = status
        BY <1>2 DEF vars
    <2>2. PriceDue(charge.list)' = PriceDue(charge.list) /\ Captured' = Captured
        BY <1>2 DEF vars, PriceDue, Captured
    <2>. QED  BY <1>2, <2>1, <2>2 DEF PricedInv, Charged
<1>3. CASE FetchSucceeds
    <2>1. entries' \in Listings /\ sync' = Waiting("listed") /\ UNCHANGED <<row, charge, vars, target>>
        BY <1>3 DEF FetchSucceeds, Pricing
    <2>2. SyncDescribes'
        BY <2>1, WaitingDescribes DEF PricedInv
    <2>. QED  BY <1>2, <2>1, <2>2 DEF PricedInv, Lists
<1>4. CASE FetchFails
    <2>1. UNCHANGED <<entries, row, charge, vars, target>>
            /\ sync' = Waiting(IF entries = << >> THEN "alone" ELSE "listed")
        BY <1>4 DEF FetchFails, Pricing
    <2>2. SyncDescribes'
        BY <2>1, WaitingDescribes DEF PricedInv
    <2>. QED  BY <1>2, <2>1, <2>2 DEF PricedInv
<1>5. CASE Age
    <2>1. UNCHANGED <<entries, sync, row, charge, vars, target>>
        BY <1>5 DEF Age, Pricing
    <2>. QED  BY <1>2, <2>1 DEF PricedInv, SyncDescribes
<1>6. CASE Provision
    <2>. DEFINE list == IF sync.state = "listed" THEN entries ELSE << >>
    <2>1. /\ sync # None /\ sync' = None
          /\ row' = [model |-> StoredPrice(Enriched(sync.descriptor, list)),
                     of |-> sync.descriptor, list |-> list]
          /\ UNCHANGED <<entries, charge, vars, target>>
        BY <1>6 DEF Provision, Pricing
    <2>2. PICK o \in Offers : sync = [descriptor |-> Discovered(o), state |-> sync.state]
        BY <2>1 DEF PricedInv, SyncDescribes
    <2>3. list \in Lists /\ sync.descriptor = Discovered(o)
        BY <2>2 DEF PricedInv, Lists
    <2>. HIDE DEF list
    <2>4. Made(row')
        BY <2>1, <2>3 DEF Made
    <2>5. SyncDescribes'
        BY <2>1 DEF SyncDescribes
    <2>. QED  BY <1>2, <2>1, <2>4, <2>5 DEF PricedInv
<1>7. CASE ChargeAnswer
    <2>1. /\ status = "ended" /\ target # None
          /\ charge'.list = entries /\ (Captured.usage # None => charge'.price = PriceDue(entries))
          /\ UNCHANGED <<entries, sync, row, vars, target>>
        <3>1. PICK streamed \in BOOLEAN :
                charge' = [price |-> IF streamed /\ Captured.usage = None THEN Charge(0, FALSE, FALSE)
                                     ELSE PriceDue(entries),
                           list |-> entries]
            BY <1>7 DEF ChargeAnswer, Pricing, PriceDue
        <3>. QED  BY <1>7, <3>1 DEF ChargeAnswer, Pricing
    <2>2. status' = status /\ PriceDue(entries)' = PriceDue(entries) /\ Captured' = Captured
        BY <2>1 DEF vars, PriceDue, Captured
    <2>3. Charged'
        BY <2>1, <2>2 DEF PricedInv, Charged
    <2>4. SyncDescribes'
        BY <2>1 DEF PricedInv, SyncDescribes
    <2>. QED  BY <2>1, <2>3, <2>4 DEF PricedInv
<1>8. ASSUME NEW o \in Offers, StartSync(o)  PROVE PricedInv'
    <2>1. UNCHANGED <<entries, row, charge, vars, target>>
        BY <1>8 DEF StartSync, Pricing
    <2>2. SyncDescribes'
        BY <1>8 DEF StartSync, Pricing, SyncDescribes
    <2>. QED  BY <1>2, <2>1, <2>2 DEF PricedInv
<1>9. CASE UNCHANGED allVars
    <2>1. UNCHANGED <<entries, sync, row, charge, vars, target>>
        BY <1>9 DEF allVars, pricingVars
    <2>. QED  BY <1>2, <2>1 DEF PricedInv, SyncDescribes
<1>. QED  BY <1>1, <1>3, <1>4, <1>5, <1>6, <1>7, <1>8, <1>9 DEF PricedNext

\* The invariant holds throughout.
LEMMA PricedInvariant == PricedSpec => []PricedInv
<1>. QED  BY PricedInvInit, PricedInvNext, PTL DEF PricedSpec

(* -------------------------------- the theorems -------------------------- *)

\* Whatever the directory lists, no record has a tag it denies: see TagsAreTrue.
THEOREM TagsAreTrueAlways == PricedSpec => []TagsAreTrue
<1>1. PricedInv => TagsAreTrue
    <2>. SUFFICES ASSUME PricedInv, row # None
                  PROVE  TagsTrue(row.model, row.of)
        BY DEF TagsAreTrue, TagsTrue
    <2>1. PICK o \in Offers, l \in Lists :
            row.of = Discovered(o) /\ row.model = StoredPrice(Enriched(Discovered(o), l))
        BY DEF PricedInv, Made
    <2>. QED  BY <2>1, DiscoveredIs, MadeIs
<1>. QED  BY <1>1, PricedInvariant, PTL

\* A cost depends on the prices alone, and is known.
LEMMA CostByPrices ==
    ASSUME NEW mode, NEW p, NEW q, NEW usage, p.input = q.input, p.output = q.output,
           mode = "request" => p.request = q.request
    PROVE  CostBy(mode, p, usage) = CostBy(mode, q, usage)
<1>1. Amount(p.input) = Amount(q.input) /\ Amount(p.output) = Amount(q.output)
        /\ (mode = "request" => Amount(p.request) = Amount(q.request))
    BY DEF Amount
<1>. QED  BY <1>1 DEF CostBy

\* A known price never leaves the cost open.
LEMMA CostByKnown ==
    ASSUME NEW mode, NEW p, NEW usage
    PROVE  CostBy(mode, p, usage).missing = FALSE
<1>1. \A x, y : Charge(x, y, FALSE).missing = FALSE
    BY DEF Charge
<1>. QED  BY <1>1 DEF CostBy

\* The entries of a list are known.
LEMMA ListsAre ==
    ASSUME NEW l \in Lists
    PROVE  l \in Seq(ToSet(l) \ {None})
<1>1. CASE l \in Listings
    BY <1>1, PricingAssumption
<1>2. CASE l = << >>
    BY <1>2
<1>. QED  BY <1>1, <1>2 DEF Lists

\* What a lookup of a list costs is a cost of an entry that can be meant.
LEMMA LookupCosts ==
    ASSUME NEW l \in Lists, NEW provider, NEW A, NEW names \in Seq(A), NEW B, NEW ids \in Seq(B), NEW usage
    PROVE  LET e == LookupModel(l, provider, names, ids) IN
           IF e = None THEN CostsIn(l, provider, names, ids, usage) = {}
           ELSE CostBy(ModeOf(e), e, usage) \in CostsIn(l, provider, names, ids, usage)
<1>. DEFINE e == LookupModel(l, provider, names, ids)
            hits == {i \in DOMAIN l : Meant(l, provider, names, ids, i)}
<1>1. Finds(e, l, hits)
    <2>1. l \in Seq(ToSet(l) \ {None}) /\ None \notin ToSet(l) \ {None}
        BY ListsAre
    <2>. QED  BY <2>1, LookupFinds
<1>2. CostsIn(l, provider, names, ids, usage) = {CostBy(ModeOf(l[i]), l[i], usage) : i \in hits}
    BY DEF CostsIn
<1>. HIDE DEF e, hits
<1>3. CASE e = None
    BY <1>1, <1>2, <1>3 DEF Finds, e
<1>4. CASE e # None
    <2>1. PICK i \in hits : e = l[i]
        BY <1>1, <1>4 DEF Finds
    <2>. QED  BY <1>2, <1>4, <2>1 DEF e
<1>. QED  BY <1>3, <1>4

\* A total that is filled in changes no cost.
LEMMA CountedCosts ==
    ASSUME NEW m, NEW usage, usage # None, NEW l
    PROVE  RequestCost(m, Counted(usage), l) = RequestCost(m, usage, l)
<1>1. Counted(usage).input = usage.input /\ Counted(usage).output = usage.output
    BY DEF Counted
<1>2. \A mode, p : CostBy(mode, p, Counted(usage)) = CostBy(mode, p, usage)
    BY <1>1 DEF CostBy
<1>. QED  BY <1>2 DEF RequestCost

\* An answer is charged at a price stated for its model: see AnswerCostsItsPrice.
THEOREM AnswerCostsItsPriceAlways == PricedSpec => []AnswerCostsItsPrice
<1>1. PricedInv => AnswerCostsItsPrice
    <2>. SUFFICES ASSUME PricedInv, charge # None, Captured.usage # None
                  PROVE  AnswerCostsItsPrice
        BY DEF AnswerCostsItsPrice
    <2>. DEFINE usage == Captured.usage
                d == target.of
                m == target.model
                c == charge.list
                made == CostsIn(target.list, d.provider, LongNames(d), LongIds(d), usage)
                ended == CostsIn(c, d.provider, ShortNames(d), <<d.id>>, usage)
                curated == IF d.key \in DOMAIN Curated THEN {CostBy("token", Curated[d.key], usage)} ELSE {}
    <2>1. target # None /\ c \in Lists /\ charge.price = RequestCost(m, usage, c)
        <3>. QED  BY CountedCosts DEF PricedInv, Charged, PriceDue
    <2>2. PICK o \in Offers, l \in Lists :
            d = Discovered(o) /\ target.list = l /\ m = StoredPrice(Enriched(Discovered(o), l))
        BY <2>1 DEF PricedInv, Made
    <2>. DEFINE e == LookupModel(l, d.provider, LongNames(d), LongIds(d))
                f == LookupModel(c, d.provider, ShortNames(d), <<d.id>>)
    <2>3. Described(d)
        BY <2>2, DiscoveredIs
    <2>4. /\ SameNames(m, d)
          /\ Own(d) => SamePrice(m, d)
          /\ \/ m.mode = "external_directory"
             \/ Own(d)
             \/ e # None /\ m.mode = ModeOf(e) /\ m.input = e.input /\ m.output = e.output
                   /\ m.request = e.request
             \/ d.key \in DOMAIN Curated /\ m.mode = "token" /\ m.input = Curated[d.key].input
                   /\ m.output = Curated[d.key].output
        BY <2>2, <2>3, MadeIs
    <2>5. charge.price = IF m.mode # "external_directory" THEN CostBy(m.mode, m, usage)
                         ELSE IF f # None THEN CostBy(ModeOf(f), f, usage)
                         ELSE Charge(0, FALSE, TRUE)
        <3>1. ShortNames(m) = ShortNames(d) /\ m.id = d.id /\ m.provider = d.provider
            BY <2>4 DEF SameNames, ShortNames
        <3>. QED  BY <2>1, <3>1 DEF RequestCost
    <2>6. IF f = None THEN ended = {} ELSE CostBy(ModeOf(f), f, usage) \in ended
        <3>1. ShortNames(d) \in Seq({ShortNames(d)[1], ShortNames(d)[2]}) /\ <<d.id>> \in Seq({d.id})
            BY DEF ShortNames
        <3>. HIDE DEF d, c, usage
        <3>. QED  BY <2>1, <3>1, LookupCosts
    <2>7. e # None => CostBy(ModeOf(e), e, usage) \in made
        <3>. DEFINE first == <<d.provider>> \o d.id
        <3>1. LongNames(d) = <<first, d.id>> \o <<d.key, d.name>>
            BY DEF LongNames, ShortNames
        <3>. HIDE DEF first, d, usage
        <3>2. LongNames(d) \in Seq({first, d.id, d.key, d.name})
            BY <3>1
        <3>3. LongIds(d) \in Seq({d.id, Leaf(d.key)})
            BY DEF LongIds
        <3>. QED  BY <2>2, <3>2, <3>3, LookupCosts
    <2>. HIDE DEF usage, d, m, c, made, ended, e, f
    <2>8. CASE Own(d)
        <3>1. m.mode = d.mode /\ m.mode # "external_directory"
            BY <2>4, <2>8 DEF SamePrice, Own
        <3>2. CostBy(d.mode, m, usage) = CostBy(d.mode, d, usage)
            BY <2>4, <2>8, CostByPrices DEF SamePrice
        <3>. QED  BY <2>5, <2>8, <3>1, <3>2 DEF AnswerCostsItsPrice, d, usage
    <2>9. CASE ~Own(d)
        <3>1. IF charge.price.missing THEN ended = {} ELSE charge.price \in made \cup ended \cup curated
            <4>1. CASE m.mode = "external_directory" /\ f = None
                <5>1. charge.price.missing = TRUE
                    BY <2>5, <4>1 DEF Charge
                <5>. QED  BY <2>6, <4>1, <5>1
            <4>2. CASE m.mode = "external_directory" /\ f # None
                <5>1. charge.price = CostBy(ModeOf(f), f, usage)
                    BY <2>5, <4>2
                <5>2. charge.price.missing = FALSE
                    BY <5>1, CostByKnown
                <5>. QED  BY <2>6, <4>2, <5>1, <5>2
            <4>3. CASE m.mode # "external_directory"
                <5>1. charge.price = CostBy(m.mode, m, usage)
                    BY <2>5, <4>3
                <5>2. charge.price.missing = FALSE
                    BY <5>1, CostByKnown
                <5>3. CASE e # None /\ m.mode = ModeOf(e) /\ m.input = e.input /\ m.output = e.output
                             /\ m.request = e.request
                    <6>1. CostBy(m.mode, m, usage) = CostBy(ModeOf(e), e, usage)
                        BY <5>3, CostByPrices
                    <6>. QED  BY <2>7, <5>1, <5>3, <5>2, <6>1
                <5>4. CASE d.key \in DOMAIN Curated /\ m.mode = "token" /\ m.input = Curated[d.key].input
                             /\ m.output = Curated[d.key].output
                    <6>1. CostBy(m.mode, m, usage) = CostBy("token", Curated[d.key], usage)
                        BY <5>4, CostByPrices
                    <6>. QED  BY <5>1, <5>4, <5>2, <6>1
                <5>. QED  BY <2>4, <2>9, <4>3, <5>3, <5>4
            <4>. QED  BY <4>1, <4>2, <4>3
        <3>. QED  BY <2>9, <3>1 DEF AnswerCostsItsPrice, made, ended, c, d, usage
    <2>. QED  BY <2>8, <2>9
<1>. QED  BY <1>1, PricedInvariant, PTL

(* ------------------------------- the folds ------------------------------ *)

Naming == INSTANCE FoldTheorems WITH op <- AddAdapter
Splitting == INSTANCE FoldTheorems WITH op <- SplitPiece
Parsing == INSTANCE FoldTheorems WITH op <- ParseLine
Collecting == INSTANCE FoldTheorems WITH op <- Collect
Capturing == INSTANCE FoldTheorems WITH op <- Capture
Writing == INSTANCE FoldTheorems WITH op <- Write
Reading == INSTANCE FoldTheorems WITH op <- ReadFrame
Summing == INSTANCE FoldTheorems WITH op <- AddDelta

\* What the fold theorems take from arithmetic.
LEMMA NumbersWellOrdered ==
    /\ Naming!WellOrdered /\ Splitting!WellOrdered /\ Parsing!WellOrdered /\ Collecting!WellOrdered
    /\ Capturing!WellOrdered /\ Writing!WellOrdered /\ Reading!WellOrdered /\ Summing!WellOrdered
<1>. DEFINE W == \A S \in SUBSET Nat : S # {} => \E x \in S : \A y \in S : x <= y
<1>1. W
    BY LeastNumber
<1>. HIDE DEF W
<1>2. Naming!WellOrdered
    BY <1>1 DEF Naming!WellOrdered, W
<1>3. Splitting!WellOrdered
    BY <1>1 DEF Splitting!WellOrdered, W
<1>4. Parsing!WellOrdered
    BY <1>1 DEF Parsing!WellOrdered, W
<1>5. Collecting!WellOrdered
    BY <1>1 DEF Collecting!WellOrdered, W
<1>6. Capturing!WellOrdered
    BY <1>1 DEF Capturing!WellOrdered, W
<1>7. Writing!WellOrdered
    BY <1>1 DEF Writing!WellOrdered, W
<1>8. Reading!WellOrdered
    BY <1>1 DEF Reading!WellOrdered, W
<1>9. Summing!WellOrdered
    BY <1>1 DEF Summing!WellOrdered, W
<1>. QED  BY <1>2, <1>3, <1>4, <1>5, <1>6, <1>7, <1>8, <1>9

\* Every fold of the model is one of these.
LEMMA AdaptersFold == \A s : Adapters(s) = Naming!Folded(<< >>, s)
BY DEF Adapters, FoldLeft, MapThenFoldSet, Naming!Folded, Max, Naming!Greatest
LEMMA SplitFold == \A s : Split(s) = Splitting!Folded(NewLine, s)
BY DEF Split, FoldLeft, MapThenFoldSet, Splitting!Folded, Max, Splitting!Greatest
LEMMA ParseFold == \A st, s : ParseAll(st, s) = Parsing!Folded(st, s)
BY DEF ParseAll, FoldLeft, MapThenFoldSet, Parsing!Folded, Max, Parsing!Greatest
LEMMA CollectFold == \A s : CollectAll(s) = Collecting!Folded(NoAnswer, s)
BY DEF CollectAll, FoldLeft, MapThenFoldSet, Collecting!Folded, Max, Collecting!Greatest
LEMMA CaptureFold == \A s : CaptureAll(s) = Capturing!Folded(NoAnswer, s)
BY DEF CaptureAll, FoldLeft, MapThenFoldSet, Capturing!Folded, Max, Capturing!Greatest
LEMMA WriteFold == \A w, s : WriteAll(w, s) = Writing!Folded(w, s)
BY DEF WriteAll, FoldLeft, MapThenFoldSet, Writing!Folded, Max, Writing!Greatest
LEMMA ReadFold == \A s : ReadAll(s) = Reading!Folded(NoAnswer, s)
BY DEF ReadAll, FoldLeft, MapThenFoldSet, Reading!Folded, Max, Reading!Greatest
LEMMA SumFold == \A s : Sums(s) = Summing!Folded(<< >>, s)
BY DEF Sums, FoldLeft, MapThenFoldSet, Summing!Folded, Max, Summing!Greatest

\* What is computed from the turn is the same after a step that leaves the turn alone.
LEMMA PrimedParse == ASSUME turn' = turn PROVE \A st, l : ParseAll(st, l)' = ParseAll(st, l)
BY DEF ParseAll, FoldLeft, MapThenFoldSet, ParseLine, Payload
LEMMA PrimedCollect == CollectAll(parser.events)' = CollectAll(parser'.events)
OBVIOUS
LEMMA PrimedAdapters == ASSUME turn' = turn PROVE AdaptersOf' = AdaptersOf
BY DEF AdaptersOf

\* The collector and the capture, event by event.
LEMMA CollectSteps ==
    ASSUME NEW S, NEW es \in Seq(S), NEW e \in S
    PROVE  CollectAll(Append(es, e)) = Collect(CollectAll(es), e)
BY CollectFold, Collecting!FoldAppend, NumbersWellOrdered

LEMMA CollectNone == CollectAll(<< >>) = NoAnswer
BY CollectFold, Collecting!FoldEmpty, NumbersWellOrdered

LEMMA CaptureSteps ==
    ASSUME NEW S, NEW es \in Seq(S), NEW e \in S
    PROVE  CaptureAll(Append(es, e)) = Capture(CaptureAll(es), e)
BY CaptureFold, Capturing!FoldAppend, NumbersWellOrdered

LEMMA CaptureNone == CaptureAll(<< >>) = NoAnswer
BY CaptureFold, Capturing!FoldEmpty, NumbersWellOrdered

(* ------------------------------ what events are ------------------------- *)

\* The pieces of texts and arguments as a client gets them.
Letters == STRING \cup {Replaced}

\* What the readers of an event rely on.
Legible(e) ==
    /\ e.type = "text" => e.text \in Seq(Letters) /\ e.text # << >>
    /\ e.type = "call" => e.index \in Nat /\ e.args \in Seq(Letters)

IsEvent(e) ==
    /\ e.type \in {"message_start", "text", "call", "usage", "done"}
    /\ Legible(e)
    /\ e.type = "done" => \E reason : e = Done(reason)

CallShape(c) == c = [id |-> c.id, name |-> c.name, args |-> c.args] /\ c.args \in Seq(Letters)

CallsShape(calls) ==
    /\ IsFiniteSet(DOMAIN calls) /\ DOMAIN calls \subseteq Nat
    /\ calls = [k \in DOMAIN calls |-> calls[k]]
    /\ \A k \in DOMAIN calls : CallShape(calls[k])

AnswerShape(a) ==
    /\ a = [text |-> a.text, calls |-> a.calls, usage |-> a.usage, finish |-> a.finish]
    /\ a.text \in Seq(Letters)
    /\ CallsShape(a.calls)

\* One call more, or one changed, and calls are still calls.
LEMMA ExtendedShape ==
    ASSUME NEW calls, CallsShape(calls), NEW i \in Nat, NEW c, CallShape(c)
    PROVE  CallsShape(Extended(calls, i, c))
<1>. DEFINE D == DOMAIN calls \cup {i}
            x == Extended(calls, i, c)
<1>1. x = [j \in D |-> IF j = i THEN c ELSE calls[j]]
    BY DEF Extended
<1>2. IsFiniteSet(D) /\ D \subseteq Nat
    BY FS_Singleton, FS_Union DEF CallsShape
<1>. HIDE DEF x, D
<1>3. DOMAIN x = D /\ x = [k \in DOMAIN x |-> x[k]]
    BY <1>1
<1>4. ASSUME NEW k \in D  PROVE CallShape(x[k])
    <2>1. k \in DOMAIN calls \/ k = i
        BY DEF D
    <2>. QED  BY <1>1, <2>1 DEF CallsShape
<1>5. CallsShape(x)
    BY <1>2, <1>3, <1>4 DEF CallsShape
<1>. QED  BY <1>5 DEF x

\* A legible delta leaves calls well formed, collected or captured.
LEMMA CallAdded ==
    ASSUME NEW calls, CallsShape(calls), NEW e, Legible(e), e.type = "call"
    PROVE  CallsShape(CollectCall(calls, e)) /\ CallsShape(CaptureCall(calls, e))
<1>1. e.index \in Nat /\ e.args \in Seq(Letters)
    BY DEF Legible
<1>2. CallShape(NewCall(e))
    BY <1>1 DEF CallShape, NewCall
<1>3. ASSUME e.index \in DOMAIN calls
      PROVE  /\ CallShape(Merged(calls[e.index], e))
             /\ CallShape([Merged(calls[e.index], e) EXCEPT !.id = IF e.id = None THEN @ ELSE e.id])
    <2>1. calls[e.index].args \in Seq(Letters)
        BY <1>3 DEF CallsShape, CallShape
    <2>2. calls[e.index].args \o e.args \in Seq(Letters)
        BY <1>1, <2>1
    <2>. DEFINE m == Merged(calls[e.index], e)
                x == IF e.id = None THEN m.id ELSE e.id
    <2>3. CallShape(m)
        BY <2>2 DEF CallShape, Merged
    <2>4. CallShape([m EXCEPT !.id = x])
        <3>. HIDE DEF m, x
        <3>. QED  BY <2>3 DEF CallShape
    <2>. QED  BY <2>3, <2>4
<1>. QED  BY <1>1, <1>2, <1>3, ExtendedShape DEF CollectCall, CaptureCall

\* A legible event leaves an answer well formed.
LEMMA CollectShape ==
    ASSUME NEW a, AnswerShape(a), NEW e, Legible(e)
    PROVE  AnswerShape(Collect(a, e)) /\ AnswerShape(Capture(a, e))
<1>1. CASE e.type = "text"
    <2>1. a.text \o e.text \in Seq(Letters)
        BY <1>1 DEF AnswerShape, Legible
    <2>. QED  BY <1>1, <2>1 DEF AnswerShape, Collect, Capture
<1>2. CASE e.type = "call"
    BY <1>2, CallAdded DEF AnswerShape, Collect, Capture
<1>3. CASE e.type \notin {"text", "call"}
    BY <1>3 DEF AnswerShape, Collect, Capture
<1>. QED  BY <1>1, <1>2, <1>3

\* So what is collected or captured from legible events is an answer.
LEMMA AnswersShaped ==
    ASSUME NEW S, \A e \in S : Legible(e), NEW es \in Seq(S)
    PROVE  AnswerShape(CollectAll(es)) /\ AnswerShape(CaptureAll(es))
<1>. DEFINE P == {x \in Seq(S) : AnswerShape(CollectAll(x)) /\ AnswerShape(CaptureAll(x))}
<1>1. << >> \in P
    <2>1. CallsShape(<< >>)
        <3>1. DOMAIN << >> = {}
            OBVIOUS
        <3>. QED  BY <3>1, FS_EmptySet DEF CallsShape
    <2>2. AnswerShape(NoAnswer)
        BY <2>1 DEF AnswerShape, NoAnswer
    <2>. QED  BY <2>2, CollectNone, CaptureNone
<1>2. \A x \in Seq(S) \cap P : \A e \in S : Append(x, e) \in P
    <2>. SUFFICES ASSUME NEW x \in Seq(S), x \in P, NEW e \in S  PROVE Append(x, e) \in P
        OBVIOUS
    <2>1. AnswerShape(Collect(CollectAll(x), e)) /\ AnswerShape(Capture(CaptureAll(x), e))
        BY CollectShape
    <2>. QED  BY <2>1, CollectSteps, CaptureSteps
<1>3. Seq(S) \subseteq P
    <2>. HIDE DEF P
    <2>. QED  BY <1>1, <1>2, Collecting!AllSequences, NumbersWellOrdered
<1>. QED  BY <1>3

(* ------------------------- tool calls there and back -------------------- *)

\* The tools of a request come to a list of adapters.
LEMMA AdaptersAreList ==
    ASSUME NEW T, NEW tools \in Seq(T)
    PROVE  \E X : Adapters(tools) \in Seq(X)
<1>. DEFINE P == {s \in Seq(T) : \E X : Adapters(s) \in Seq(X)}
<1>1. << >> \in P
    <2>1. Adapters(<< >>) = << >>
        BY AdaptersFold, Naming!FoldEmpty, NumbersWellOrdered
    <2>2. << >> \in Seq({})
        OBVIOUS
    <2>3. \E X : Adapters(<< >>) \in Seq(X)
        BY <2>1, <2>2
    <2>. QED  BY <2>3
<1>2. \A s \in Seq(T) \cap P : \A t \in T : Append(s, t) \in P
    <2>. SUFFICES ASSUME NEW s \in Seq(T), s \in P, NEW t \in T  PROVE Append(s, t) \in P
        OBVIOUS
    <2>1. PICK X : Adapters(s) \in Seq(X)
        OBVIOUS
    <2>2. Adapters(Append(s, t)) = AddAdapter(Adapters(s), t)
        BY AdaptersFold, Naming!FoldAppend, NumbersWellOrdered
    <2>3. PICK x : AddAdapter(Adapters(s), t) = Append(Adapters(s), x)
        BY DEF AddAdapter
    <2>4. Append(Adapters(s), x) \in Seq(X \cup {x})
        BY <2>1
    <2>. QED  BY <2>2, <2>3, <2>4
<1>3. Seq(T) \subseteq P
    <2>. HIDE DEF P
    <2>. QED  BY <1>1, <1>2, Naming!AllSequences, NumbersWellOrdered
<1>. QED  BY <1>3

LEMMA AdaptersOfIs ==
    ASSUME turn \in Turns
    PROVE  Len(AdaptersOf) \in Nat /\ DOMAIN AdaptersOf = 1 .. Len(AdaptersOf)
<1>1. turn.tools \in Seq(ToSet(turn.tools))
    BY TurnsAssumption
<1>2. \E X : AdaptersOf \in Seq(X)
    <2>1. << >> \in Seq({})
        OBVIOUS
    <2>. QED  BY <1>1, <2>1, AdaptersAreList DEF AdaptersOf
<1>3. PICK X : AdaptersOf \in Seq(X)
    BY <1>2
<1>. QED  BY <1>3, LenProperties

\* The adapter found by a name is one of them, and has it.
LEMMA AdapterOfIs ==
    ASSUME turn \in Turns, NEW name
    PROVE  AdapterOf(name) = None
             \/ \E i \in DOMAIN AdaptersOf : AdapterOf(name) = AdaptersOf[i] /\ AdaptersOf[i].canonical = name
<1>. DEFINE I == {i \in 1 .. Len(AdaptersOf) : AdaptersOf[i].canonical = name}
<1>1. AdapterOf(name) = LET i == IF I # {} THEN Min(I) ELSE 0 IN IF i = 0 THEN None ELSE AdaptersOf[i]
    BY DEF AdapterOf, FindFirst, SelectInSeq
<1>2. I \in SUBSET Nat
    BY AdaptersOfIs
<1>3. CASE I # {}
    <2>1. Min(I) \in I
        <3>. HIDE DEF I
        <3>. QED  BY <1>2, <1>3, LeastNumber
    <2>2. Min(I) # 0 /\ AdaptersOf[Min(I)].canonical = name /\ Min(I) \in DOMAIN AdaptersOf
        BY <2>1, AdaptersOfIs
    <2>. HIDE DEF I
    <2>. QED  BY <1>1, <1>3, <2>2
<1>4. CASE I = {}
    BY <1>1, <1>4
<1>. QED  BY <1>3, <1>4

\* An adapter that is alone with its name, namespace and type is found by them.
LEMMA FindAdapterIs ==
    ASSUME turn \in Turns, NEW i \in DOMAIN AdaptersOf, NEW name, NEW namespace, NEW type,
           AdaptersOf[i].name = name, AdaptersOf[i].namespace = namespace,
           type = None \/ AdaptersOf[i].type = type,
           \A j \in DOMAIN AdaptersOf :
              (AdaptersOf[j].name = name /\ AdaptersOf[j].namespace = namespace
                 /\ (type = None \/ AdaptersOf[j].type = type)) => AdaptersOf[j] = AdaptersOf[i]
    PROVE  FindAdapter(name, namespace, type) = AdaptersOf[i]
<1>. DEFINE I == {j \in 1 .. Len(AdaptersOf) :
                    /\ AdaptersOf[j].name = name /\ AdaptersOf[j].namespace = namespace
                    /\ (type = None \/ AdaptersOf[j].type = type)}
<1>1. FindAdapter(name, namespace, type) =
        LET k == IF I # {} THEN Min(I) ELSE 0 IN IF k = 0 THEN None ELSE AdaptersOf[k]
    BY DEF FindAdapter, FindFirst, SelectInSeq
<1>2. I \in SUBSET Nat /\ i \in I
    BY AdaptersOfIs
<1>3. Min(I) \in I
    <2>. HIDE DEF I
    <2>. QED  BY <1>2, LeastNumber
<1>4. Min(I) # 0 /\ AdaptersOf[Min(I)] = AdaptersOf[i]
    BY <1>3, AdaptersOfIs
<1>. HIDE DEF I
<1>. QED  BY <1>1, <1>2, <1>4

\* The JSON around a custom tool's input comes back when it is wrapped again.
LEMMA UnwrappedWraps ==
    ASSUME NEW args \in Seq(Letters), Wrapped(args)
    PROVE  Wrap(Unwrap(args)) = args
<1>1. Len(args) \in Nat /\ Len(args) >= 2 /\ args[1] = "open" /\ args[Len(args)] = "close"
    BY DEF Wrapped, Last
<1>2. Unwrap(args) = SubSeq(args, 2, Len(args) - 1)
    BY DEF Unwrap
<1>. DEFINE inner == SubSeq(args, 2, Len(args) - 1)
<1>3. inner \in Seq(Letters) /\ Len(inner) = Len(args) - 2 /\ \A k \in 1 .. Len(args) - 2 : inner[k] = args[k + 1]
    <2>. DEFINE n == Len(args) - 1
    <2>1. n \in Int /\ \A k \in 2 .. n : args[k] \in Letters
        BY <1>1
    <2>. HIDE DEF n
    <2>2. /\ SubSeq(args, 2, n) \in Seq(Letters)
          /\ Len(SubSeq(args, 2, n)) = IF 2 <= n THEN n - 2 + 1 ELSE 0
          /\ \A k \in 1 .. n - 2 + 1 : SubSeq(args, 2, n)[k] = args[2 + k - 1]
        BY <2>1, SubSeqProperties
    <2>3. Len(args) - 2 = n - 1 /\ n - 2 + 1 = n - 1 /\ n >= 1 /\ n \in Int
        BY <1>1 DEF n
    <2>4. \A k \in 1 .. n - 1 : 2 + k - 1 = k + 1
        BY <2>3
    <2>. QED  BY <2>2, <2>3, <2>4 DEF n
<1>. HIDE DEF inner
<1>. DEFINE w == <<"open">> \o inner \o <<"close">>
<1>4. w \in Seq(Letters) /\ Len(w) = Len(args)
    BY <1>1, <1>3
<1>5. ASSUME NEW k \in 1 .. Len(args)  PROVE w[k] = args[k]
    <2>1. CASE k = 1
        BY <1>1, <1>3, <2>1
    <2>2. CASE k = Len(args)
        <3>. DEFINE o == <<"open">> \o inner
        <3>1. o \in Seq(Letters) /\ Len(o) = Len(args) - 1
            BY <1>1, <1>3
        <3>2. w = o \o <<"close">>
            OBVIOUS
        <3>. HIDE DEF o, w
        <3>3. w[Len(o) + 1] = "close"
            BY <3>1, <3>2
        <3>4. Len(o) + 1 = k
            BY <1>1, <2>2, <3>1
        <3>. QED  BY <1>1, <2>2, <3>3, <3>4
    <2>3. CASE k # 1 /\ k # Len(args)
        <3>1. k - 1 \in 1 .. Len(args) - 2
            BY <1>1, <2>3
        <3>2. w[k] = inner[k - 1]
            BY <1>1, <1>3, <2>3, <3>1
        <3>. QED  BY <1>1, <1>3, <3>1, <3>2
    <2>. QED  BY <2>1, <2>2, <2>3
<1>6. w = args
    <2>. HIDE DEF w
    <2>. QED  BY <1>4, <1>5, SeqEqual
<1>. QED  BY <1>2, <1>6 DEF Wrap, inner

\* The calls that can keep their meaning on the way of their route.
LegalCall(c) ==
    CASE turn.route = "openai_responses"   ->
             /\ AdapterOf(c.name) # None /\ Distinct(AdapterOf(c.name))
             /\ AdapterOf(c.name).type = "custom" => Wrapped(c.args)
      [] turn.route = "anthropic_messages" -> Wrapped(c.args) \/ c.args \in {<< >>, EmptyObject}
      [] OTHER -> TRUE

\* A legal call is the same after the trip to the client and back, but for empty arguments.
LEMMA CallComesBack ==
    ASSUME turn \in Turns, NEW c, CallShape(c), LegalCall(c)
    PROVE  WithArgs(NormalizedCall(c)) = WithArgs(c)
<1>1. CASE turn.route = "openai_responses"
    <2>. DEFINE a == AdapterOf(c.name)
    <2>1. a # None /\ Distinct(a) /\ (a.type = "custom" => Wrapped(c.args))
        BY <1>1 DEF LegalCall
    <2>2. PICK i \in DOMAIN AdaptersOf : a = AdaptersOf[i] /\ a.canonical = c.name
        BY <2>1, AdapterOfIs
    <2>3. NormalizedCall(c) = NormalizedItem(ToolItem(c))
        BY <1>1 DEF NormalizedCall
    <2>4. \A j \in DOMAIN AdaptersOf : AdaptersOf[j] \in ToSet(AdaptersOf)
        BY DEF ToSet
    <2>5. CASE a.type = "custom"
        <3>1. ToolItem(c) = [type |-> "custom_tool_call", id |-> c.id, name |-> a.name,
                             namespace |-> None, args |-> Unwrap(c.args)]
            BY <2>1, <2>5 DEF ToolItem
        <3>2. a.namespace = None
            BY <2>1, <2>5 DEF Distinct
        <3>3. FindAdapter(a.name, None, "custom") = a
            <4>. HIDE DEF a
            <4>1. \A j \in DOMAIN AdaptersOf :
                    (AdaptersOf[j].name = a.name /\ AdaptersOf[j].namespace = None
                       /\ AdaptersOf[j].type = "custom") => AdaptersOf[j] = a
                BY <2>1, <2>4, <3>2 DEF Distinct
            <4>2. "custom" # None
                BY TurnsAssumption
            <4>3. \A j \in DOMAIN AdaptersOf :
                    (AdaptersOf[j].name = a.name /\ AdaptersOf[j].namespace = None
                       /\ ("custom" = None \/ AdaptersOf[j].type = "custom")) => AdaptersOf[j] = AdaptersOf[i]
                BY <2>2, <4>1, <4>2
            <4>4. AdaptersOf[i].name = a.name /\ AdaptersOf[i].namespace = None
                    /\ ("custom" = None \/ AdaptersOf[i].type = "custom")
                BY <2>2, <2>5, <3>2
            <4>5. FindAdapter(a.name, None, "custom") = AdaptersOf[i]
                BY <4>3, <4>4, FindAdapterIs
            <4>. QED  BY <2>2, <4>5
        <3>4. Wrap(Unwrap(c.args)) = c.args
            BY <2>1, <2>5, UnwrappedWraps DEF CallShape
        <3>5. NormalizedItem(ToolItem(c)) = [id |-> c.id, name |-> c.name, args |-> c.args]
            <4>. HIDE DEF a
            <4>. QED  BY <2>1, <2>2, <3>1, <3>3, <3>4 DEF NormalizedItem
        <3>. QED  BY <2>3, <3>5 DEF CallShape
    <2>6. CASE a.type # "custom"
        <3>1. ToolItem(c) = [type |-> "function_call", id |-> c.id, name |-> a.name,
                             namespace |-> a.namespace, args |-> c.args]
            BY <2>1, <2>6 DEF ToolItem
        <3>2. FindAdapter(a.name, a.namespace, None) = a
            <4>. HIDE DEF a
            <4>1. \A j \in DOMAIN AdaptersOf :
                    (AdaptersOf[j].name = a.name /\ AdaptersOf[j].namespace = a.namespace)
                       => AdaptersOf[j] = a
                BY <2>1, <2>4, <2>6 DEF Distinct
            <4>. QED  BY <2>2, <4>1, FindAdapterIs
        <3>3. NormalizedItem(ToolItem(c)) =
                [id |-> c.id, name |-> c.name, args |-> IF c.args = << >> THEN EmptyObject ELSE c.args]
            <4>. HIDE DEF a
            <4>. QED  BY <2>1, <2>2, <3>1, <3>2 DEF NormalizedItem
        <3>4. EmptyObject # << >>
            BY DEF EmptyObject
        <3>. QED  BY <2>3, <3>3, <3>4 DEF CallShape, WithArgs
    <2>. QED  BY <2>5, <2>6
<1>2. CASE turn.route = "anthropic_messages"
    <2>1. NormalizedCall(c) = NormalizedBlock(c)
        BY <1>2 DEF NormalizedCall
    <2>2. CASE Wrapped(c.args) \/ c.args = EmptyObject
        BY <2>1, <2>2 DEF NormalizedBlock, CallShape
    <2>3. CASE ~(Wrapped(c.args) \/ c.args = EmptyObject)
        <3>1. c.args = << >>
            BY <1>2, <2>3 DEF LegalCall
        <3>2. EmptyObject # << >>
            BY DEF EmptyObject
        <3>3. NormalizedBlock(c) = [c EXCEPT !.args = EmptyObject]
            BY <2>3 DEF NormalizedBlock
        <3>. QED  BY <2>1, <3>1, <3>2, <3>3 DEF WithArgs, CallShape
    <2>. QED  BY <2>2, <2>3
<1>3. CASE turn.route \notin {"openai_responses", "anthropic_messages"}
    BY <1>3 DEF NormalizedCall
<1>. QED  BY <1>1, <1>2, <1>3

(* ---------------------------------- lists ------------------------------- *)

IsList(s) == s \in Seq(ToSet(s))

\* A sequence over some set is one over its own elements; so the lemmas need no set.
LEMMA ListIs ==
    ASSUME NEW A, NEW s \in Seq(A)
    PROVE  IsList(s) /\ ToSet(s) \subseteq A
BY DEF IsList, ToSet

\* What an element appended changes.
LEMMA ListAppend ==
    ASSUME NEW s, IsList(s), NEW x
    PROVE  /\ IsList(Append(s, x)) /\ s \o <<x>> = Append(s, x)
           /\ ToSet(Append(s, x)) = ToSet(s) \cup {x}
           /\ Len(s) \in Nat /\ DOMAIN s = 1 .. Len(s) /\ Len(Append(s, x)) = Len(s) + 1
<1>. DEFINE A == ToSet(s) \cup {x}
            u == Append(s, x)
<1>1. s \in Seq(A) /\ x \in A
    BY DEF IsList
<1>2. /\ u \in Seq(A) /\ Len(u) = Len(s) + 1 /\ Len(s) \in Nat /\ DOMAIN u = 1 .. (Len(s) + 1)
      /\ \A i \in 1 .. Len(s) : u[i] = s[i]
      /\ u[Len(s) + 1] = x /\ DOMAIN s = 1 .. Len(s)
    <2>. HIDE DEF A
    <2>. QED  BY <1>1
<1>3. s \o <<x>> = u
    <2>. HIDE DEF A
    <2>. QED  BY <1>1, AppendIsConcat
<1>. HIDE DEF u
<1>4. ToSet(u) = A
    <2>1. ASSUME NEW i \in DOMAIN u  PROVE u[i] \in A
        BY <1>2
    <2>2. ASSUME NEW i \in DOMAIN s  PROVE s[i] \in ToSet(u)
        <3>1. i \in DOMAIN u /\ u[i] = s[i]
            BY <1>2
        <3>. QED  BY <3>1 DEF ToSet
    <2>3. x \in ToSet(u)
        <3>1. Len(s) + 1 \in DOMAIN u
            BY <1>2
        <3>. QED  BY <1>2, <3>1 DEF ToSet
    <2>4. ToSet(u) \subseteq A
        BY <2>1 DEF ToSet
    <2>5. ToSet(s) \subseteq ToSet(u)
        <3>1. ASSUME NEW v \in ToSet(s)  PROVE v \in ToSet(u)
            <4>1. PICK i \in DOMAIN s : v = s[i]
                BY DEF ToSet
            <4>. QED  BY <2>2, <4>1
        <3>. QED  BY <3>1
    <2>. QED  BY <2>3, <2>4, <2>5
<1>5. IsList(u)
    BY <1>2, <1>4 DEF IsList
<1>. QED  BY <1>2, <1>3, <1>4, <1>5 DEF u

\* What lists put together hold.
LEMMA ListConcat ==
    ASSUME NEW s, IsList(s), NEW t, IsList(t)
    PROVE  IsList(s \o t) /\ ToSet(s \o t) \subseteq ToSet(s) \cup ToSet(t)
<1>. DEFINE A == ToSet(s) \cup ToSet(t)
<1>1. s \in Seq(A) /\ t \in Seq(A)
    BY DEF IsList
<1>2. s \o t \in Seq(A)
    <2>. HIDE DEF A
    <2>. QED  BY <1>1, ConcatProperties
<1>. QED  BY <1>2, ListIs

LEMMA EmptyList == IsList(<< >>) /\ ToSet(<< >>) = {}
BY DEF IsList, ToSet

\* Two elements at once are two elements in turn.
LEMMA TwoMore ==
    ASSUME NEW s, IsList(s), NEW x, NEW y
    PROVE  s \o <<x, y>> = Append(Append(s, x), y)
<1>. DEFINE A == ToSet(s) \cup {x, y}
<1>1. s \in Seq(A) /\ x \in A /\ y \in A
    BY DEF IsList
<1>. HIDE DEF A
<1>. QED  BY <1>1

\* The folds over lists.
LEMMA CollectMore ==
    ASSUME NEW es, IsList(es), NEW e
    PROVE  /\ CollectAll(Append(es, e)) = Collect(CollectAll(es), e)
           /\ CaptureAll(Append(es, e)) = Capture(CaptureAll(es), e)
<1>1. es \in Seq(ToSet(es) \cup {e}) /\ e \in ToSet(es) \cup {e}
    BY DEF IsList
<1>. QED  BY <1>1, CollectSteps, CaptureSteps

\* Reading, summing and writing, one element more.
LEMMA ReadMore ==
    ASSUME NEW out, IsList(out), NEW f
    PROVE  ReadAll(Append(out, f)) = ReadFrame(ReadAll(out), f)
<1>1. out \in Seq(ToSet(out) \cup {f}) /\ f \in ToSet(out) \cup {f}
    BY DEF IsList
<1>. QED  BY <1>1, ReadFold, Reading!FoldAppend, NumbersWellOrdered

LEMMA SumMore ==
    ASSUME NEW out, IsList(out), NEW f
    PROVE  Sums(Append(out, f)) = AddDelta(Sums(out), f)
<1>1. out \in Seq(ToSet(out) \cup {f}) /\ f \in ToSet(out) \cup {f}
    BY DEF IsList
<1>. QED  BY <1>1, SumFold, Summing!FoldAppend, NumbersWellOrdered

LEMMA WriteMore ==
    ASSUME NEW es, IsList(es), NEW e, NEW w
    PROVE  WriteAll(w, Append(es, e)) = Write(WriteAll(w, es), e)
<1>1. es \in Seq(ToSet(es) \cup {e}) /\ e \in ToSet(es) \cup {e}
    BY DEF IsList
<1>. QED  BY <1>1, WriteFold, Writing!FoldAppend, NumbersWellOrdered

\* Every fold starts from its base.
LEMMA FoldsOfNone ==
    /\ CollectAll(<< >>) = NoAnswer /\ CaptureAll(<< >>) = NoAnswer
    /\ ReadAll(<< >>) = NoAnswer /\ Sums(<< >>) = << >>
    /\ \A w : WriteAll(w, << >>) = w
    /\ \A st : ParseAll(st, << >>) = st
BY CollectFold, CaptureFold, ReadFold, SumFold, WriteFold, ParseFold, Collecting!FoldEmpty, Capturing!FoldEmpty,
   Reading!FoldEmpty, Summing!FoldEmpty, Writing!FoldEmpty, Parsing!FoldEmpty, NumbersWellOrdered

(* ---------------------------- the writers' frames ----------------------- *)

\* A writer is a record of its fields.
RecordShape(w) ==
    w = [out |-> w.out, started |-> w.started, block |-> w.block, items |-> w.items,
         usage |-> w.usage, closed |-> w.closed]

WriterShape(w) == RecordShape(w) /\ IsList(w.out) /\ IsList(w.items) /\ w.closed \in BOOLEAN

\* v is w but for one field.
ButFor(field, v, w) ==
    /\ RecordShape(v)
    /\ field # "out" => v.out = w.out
    /\ field # "started" => v.started = w.started
    /\ field # "block" => v.block = w.block
    /\ field # "items" => v.items = w.items
    /\ field # "usage" => v.usage = w.usage
    /\ field # "closed" => v.closed = w.closed

\* A field written is the field read, and the others stay.
LEMMA WithField ==
    ASSUME NEW w, RecordShape(w), NEW x
    PROVE  /\ ButFor("out", [w EXCEPT !.out = x], w) /\ [w EXCEPT !.out = x].out = x
           /\ ButFor("started", [w EXCEPT !.started = x], w)
           /\ ButFor("block", [w EXCEPT !.block = x], w) /\ [w EXCEPT !.block = x].block = x
           /\ ButFor("items", [w EXCEPT !.items = x], w) /\ [w EXCEPT !.items = x].items = x
           /\ ButFor("usage", [w EXCEPT !.usage = x], w) /\ [w EXCEPT !.usage = x].usage = x
           /\ ButFor("closed", [w EXCEPT !.closed = x], w) /\ [w EXCEPT !.closed = x].closed = x
<1>1. ButFor("out", [w EXCEPT !.out = x], w) /\ [w EXCEPT !.out = x].out = x
    BY DEF RecordShape, ButFor
<1>2. ButFor("started", [w EXCEPT !.started = x], w) /\ [w EXCEPT !.started = x].started = x
    BY DEF RecordShape, ButFor
<1>3. ButFor("block", [w EXCEPT !.block = x], w) /\ [w EXCEPT !.block = x].block = x
    BY DEF RecordShape, ButFor
<1>4. ButFor("items", [w EXCEPT !.items = x], w) /\ [w EXCEPT !.items = x].items = x
    BY DEF RecordShape, ButFor
<1>5. ButFor("usage", [w EXCEPT !.usage = x], w) /\ [w EXCEPT !.usage = x].usage = x
    BY DEF RecordShape, ButFor
<1>6. ButFor("closed", [w EXCEPT !.closed = x], w) /\ [w EXCEPT !.closed = x].closed = x
    BY DEF RecordShape, ButFor
<1>. QED  BY <1>1, <1>2, <1>3, <1>4, <1>5, <1>6

\* A frame emitted is read next; the rest of the writer stays.
LEMMA EmitOne ==
    ASSUME NEW w, WriterShape(w), NEW f
    PROVE  /\ Emit(w, <<f>>).out = Append(w.out, f) /\ ButFor("out", Emit(w, <<f>>), w)
           /\ WriterShape(Emit(w, <<f>>))
           /\ ReadAll(Emit(w, <<f>>).out) = ReadFrame(ReadAll(w.out), f)
<1>1. w.out \o <<f>> = Append(w.out, f) /\ IsList(Append(w.out, f))
    BY ListAppend DEF WriterShape
<1>. DEFINE v == Emit(w, <<f>>)
<1>2. v = [w EXCEPT !.out = Append(w.out, f)]
    BY <1>1 DEF Emit
<1>. HIDE DEF v
<1>3. v.out = Append(w.out, f) /\ ButFor("out", v, w)
    BY <1>2, WithField DEF WriterShape
<1>4. ReadAll(v.out) = ReadFrame(ReadAll(w.out), f)
    BY <1>3, ReadMore DEF WriterShape
<1>5. WriterShape(v)
    BY <1>1, <1>3 DEF WriterShape, ButFor
<1>. QED  BY <1>3, <1>4, <1>5 DEF v

\* Two records of the writer with the same fields are the same.
LEMMA SameFields ==
    ASSUME NEW v, NEW w, RecordShape(v), RecordShape(w), v.out = w.out, v.started = w.started,
           v.block = w.block, v.items = w.items, v.usage = w.usage, v.closed = w.closed
    PROVE  v = w
<1>. DEFINE R(a, b, c, d, e, f) == [out |-> a, started |-> b, block |-> c, items |-> d, usage |-> e,
                                    closed |-> f]
<1>1. /\ v = R(v.out, v.started, v.block, v.items, v.usage, v.closed)
      /\ w = R(w.out, w.started, w.block, w.items, w.usage, w.closed)
    BY DEF RecordShape
<1>. HIDE DEF R
<1>. QED  BY <1>1

\* Frames emitted at once are frames emitted in turn.
LEMMA EmitTwo ==
    ASSUME NEW w, WriterShape(w), NEW f, NEW g
    PROVE  Emit(w, <<f, g>>) = Emit(Emit(w, <<f>>), <<g>>)
<1>. DEFINE v == Emit(w, <<f>>)
            u == Emit(v, <<g>>)
            t == Emit(w, <<f, g>>)
<1>1. w.out \o <<f, g>> = Append(Append(w.out, f), g)
    BY TwoMore DEF WriterShape
<1>2. t = [w EXCEPT !.out = Append(Append(w.out, f), g)]
    BY <1>1 DEF Emit
<1>3. v.out = Append(w.out, f) /\ ButFor("out", v, w) /\ WriterShape(v)
    BY EmitOne
<1>. HIDE DEF v, t
<1>4. u.out = Append(v.out, g) /\ ButFor("out", u, v)
    BY <1>3, EmitOne
<1>. HIDE DEF u
<1>5. t.out = u.out /\ ButFor("out", t, w)
    <2>. DEFINE x == Append(Append(w.out, f), g)
    <2>1. t = [w EXCEPT !.out = x] /\ u.out = x
        BY <1>2, <1>3, <1>4
    <2>. HIDE DEF x
    <2>2. RecordShape(w)
        BY DEF WriterShape
    <2>3. ButFor("out", [w EXCEPT !.out = x], w) /\ [w EXCEPT !.out = x].out = x
        BY <2>2, WithField
    <2>. QED  BY <2>1, <2>3
<1>6. ButFor("out", v, w)
    BY <1>3
<1>7. t = u
    <2>1. RecordShape(t) /\ RecordShape(u)
        BY <1>4, <1>5 DEF ButFor
    <2>2. /\ t.started = w.started /\ t.block = w.block /\ t.items = w.items
          /\ t.usage = w.usage /\ t.closed = w.closed
        BY <1>5 DEF ButFor
    <2>3. /\ u.started = v.started /\ u.block = v.block /\ u.items = v.items
          /\ u.usage = v.usage /\ u.closed = v.closed
        BY <1>4 DEF ButFor
    <2>4. /\ v.started = w.started /\ v.block = w.block /\ v.items = w.items
          /\ v.usage = w.usage /\ v.closed = w.closed
        BY <1>6 DEF ButFor
    <2>. QED  BY <1>5, <2>1, <2>2, <2>3, <2>4, SameFields
<1>. QED  BY <1>7 DEF t, u, v

\* A frame put before two.
LEMMA OneAndTwo ==
    ASSUME NEW h, NEW f, NEW g
    PROVE  <<h>> \o <<f, g>> = <<h, f, g>> /\ << >> \o <<f, g>> = <<f, g>>
<1>. DEFINE A == {f, g, h}
<1>1. f \in A /\ g \in A /\ h \in A
    OBVIOUS
<1>. HIDE DEF A
<1>2. <<h>> \in Seq(A) /\ <<f, g>> \in Seq(A) /\ <<h, f, g>> \in Seq(A) /\ << >> \in Seq(A)
    BY <1>1
<1>3. << >> \o <<f, g>> = <<f, g>>
    BY <1>2, ConcatEmptySeq
<1>4. <<h>> \o <<f, g>> = <<h, f, g>>
    <2>. DEFINE s == <<h>> \o <<f, g>>
    <2>1. s \in Seq(A) /\ Len(s) = 3 /\ s[1] = h /\ s[2] = f /\ s[3] = g
        BY <1>2
    <2>. HIDE DEF s
    <2>2. \A i \in 1 .. Len(s) : s[i] = <<h, f, g>>[i]
        BY <2>1
    <2>. QED  BY <1>2, <2>1, <2>2, SeqEqual DEF s
<1>. QED  BY <1>3, <1>4

\* The same for three.
LEMMA EmitThree ==
    ASSUME NEW w, WriterShape(w), NEW f, NEW g, NEW h
    PROVE  Emit(w, <<f, g, h>>) = Emit(Emit(w, <<f>>), <<g, h>>)
<1>. DEFINE v == Emit(w, <<f>>)
            u == Emit(v, <<g, h>>)
            t == Emit(w, <<f, g, h>>)
            x == w.out \o <<f, g, h>>
<1>1. v.out = Append(w.out, f) /\ ButFor("out", v, w)
    BY EmitOne
<1>2. x = Append(w.out, f) \o <<g, h>>
    <2>. DEFINE A == ToSet(w.out) \cup {f, g, h}
    <2>1. w.out \in Seq(A) /\ f \in A /\ g \in A /\ h \in A
        BY DEF WriterShape, IsList
    <2>. HIDE DEF A
    <2>. QED  BY <2>1
<1>3. t = [w EXCEPT !.out = x] /\ u = [v EXCEPT !.out = v.out \o <<g, h>>]
    BY DEF Emit
<1>. HIDE DEF v, x, t, u
<1>4. t = [w EXCEPT !.out = x] /\ u = [v EXCEPT !.out = x]
    BY <1>1, <1>2, <1>3
<1>5. t.out = x /\ ButFor("out", t, w)
    BY <1>4, WithField DEF WriterShape
<1>7. RecordShape(v)
    BY <1>1 DEF ButFor
<1>8. u.out = x /\ ButFor("out", u, v)
    BY <1>4, <1>7, WithField
<1>6. t = u
    BY <1>1, <1>5, <1>8 DEF ButFor, RecordShape
<1>. QED  BY <1>6 DEF t, u, v

\* Fields beside the frames.
LEMMA Beside ==
    ASSUME NEW w, WriterShape(w)
    PROVE  /\ WriterShape([w EXCEPT !.started = TRUE]) /\ ButFor("started", [w EXCEPT !.started = TRUE], w)
           /\ WriterShape([w EXCEPT !.block = TRUE]) /\ ButFor("block", [w EXCEPT !.block = TRUE], w)
           /\ WriterShape([w EXCEPT !.closed = TRUE]) /\ ButFor("closed", [w EXCEPT !.closed = TRUE], w)
           /\ [w EXCEPT !.closed = TRUE].closed = TRUE
<1>. DEFINE a == [w EXCEPT !.started = TRUE]
            b == [w EXCEPT !.block = TRUE]
            c == [w EXCEPT !.closed = TRUE]
<1>1. ButFor("started", a, w) /\ ButFor("block", b, w) /\ ButFor("closed", c, w) /\ c.closed = TRUE
    BY WithField DEF WriterShape
<1>. HIDE DEF a, b, c
<1>2. WriterShape(a) /\ WriterShape(b)
    BY <1>1 DEF WriterShape, ButFor
<1>3. WriterShape(c)
    BY <1>1 DEF WriterShape, ButFor
<1>. QED  BY <1>1, <1>2, <1>3 DEF a, b, c

\* A frame that says nothing of the answer.
Silent(f) == f.frame \notin {"content", "tool_calls", "usage", "finish"}

\* A frame that tells nothing changes nothing that is read.
LEMMA SilentFrame ==
    ASSUME NEW a, NEW f, Silent(f)
    PROVE  ReadFrame(a, f) = a
BY DEF Silent, ReadFrame

\* So the first frame of a stream leaves the answer as it was.
LEMMA SilentStart ==
    ASSUME NEW w, WriterShape(w), NEW name, Silent(Frame(name))
    PROVE  /\ WriterShape(Started(w, <<Frame(name)>>))
           /\ ReadAll(Started(w, <<Frame(name)>>).out) = ReadAll(w.out)
           /\ Started(w, <<Frame(name)>>).closed = w.closed
<1>. DEFINE v == Emit(w, <<Frame(name)>>)
<1>1. WriterShape(v) /\ ReadAll(v.out) = ReadAll(w.out) /\ ButFor("out", v, w)
    BY EmitOne, SilentFrame
<1>2. Started(w, <<Frame(name)>>) = IF w.started THEN w ELSE [v EXCEPT !.started = TRUE]
    BY DEF Started
<1>. HIDE DEF v
<1>3. WriterShape([v EXCEPT !.started = TRUE]) /\ ButFor("started", [v EXCEPT !.started = TRUE], v)
    BY <1>1, Beside
<1>. QED  BY <1>1, <1>2, <1>3 DEF ButFor

\* A Chat Completions client reads what the capture keeps.
LEMMA ChatReads ==
    ASSUME NEW w, WriterShape(w), NEW e, IsEvent(e)
    PROVE  /\ WriterShape(Chat(w, e))
           /\ ReadAll(Chat(w, e).out) = Capture(ReadAll(w.out), e)
           /\ Chat(w, e).closed = (w.closed \/ e.type = "done")
<1>. DEFINE begun == Started(w, <<Frame("role")>>)
<1>1. Silent(Frame("role")) /\ Silent(Frame("[DONE]"))
    BY DEF Silent, Frame
<1>2. WriterShape(begun) /\ ReadAll(begun.out) = ReadAll(w.out) /\ begun.closed = w.closed
    BY <1>1, SilentStart
<1>. HIDE DEF begun
<1>3. CASE e.type = "message_start"
    <2>. DEFINE v == Emit(w, <<Frame("role")>>)
    <2>1. Chat(w, e) = [v EXCEPT !.started = TRUE]
        BY <1>3 DEF Chat
    <2>2. WriterShape(v) /\ ReadAll(v.out) = ReadAll(w.out) /\ ButFor("out", v, w)
        BY <1>1, EmitOne, SilentFrame
    <2>3. Capture(ReadAll(w.out), e) = ReadAll(w.out)
        BY <1>3 DEF Capture, Collect
    <2>. HIDE DEF v
    <2>4. WriterShape([v EXCEPT !.started = TRUE]) /\ ButFor("started", [v EXCEPT !.started = TRUE], v)
        BY <2>2, Beside
    <2>. QED  BY <1>3, <2>1, <2>2, <2>3, <2>4 DEF ButFor, WriterShape
<1>4. CASE e.type = "text"
    <2>. DEFINE f == [frame |-> "content", text |-> e.text]
    <2>1. Chat(w, e) = Emit(begun, <<f>>)
        BY <1>4 DEF Chat, begun
    <2>2. ReadFrame(ReadAll(w.out), f) = Capture(ReadAll(w.out), e)
        BY <1>4 DEF ReadFrame, Capture, Collect
    <2>. HIDE DEF f
    <2>3. Emit(begun, <<f>>).closed = w.closed
        BY <1>2, EmitOne DEF ButFor
    <2>. QED  BY <1>2, <1>4, <2>1, <2>2, <2>3, EmitOne DEF WriterShape
<1>5. CASE e.type = "call"
    <2>. DEFINE f == [frame |-> "tool_calls", index |-> e.index, id |-> e.id, name |-> e.name, args |-> e.args]
    <2>1. Chat(w, e) = Emit(begun, <<f>>)
        BY <1>5 DEF Chat, begun
    <2>2. \A calls : CaptureCall(calls, f) = CaptureCall(calls, e)
        BY DEF CaptureCall, Merged, NewCall
    <2>3. ReadFrame(ReadAll(w.out), f) = [ReadAll(w.out) EXCEPT !.calls = CaptureCall(@, f)]
        BY DEF ReadFrame
    <2>4. Capture(ReadAll(w.out), e) = [ReadAll(w.out) EXCEPT !.calls = CaptureCall(@, e)]
        BY <1>5 DEF Capture
    <2>. HIDE DEF f
    <2>5. Emit(begun, <<f>>).closed = w.closed
        BY <1>2, EmitOne DEF ButFor
    <2>. QED  BY <1>2, <1>5, <2>1, <2>2, <2>3, <2>4, <2>5, EmitOne DEF WriterShape
<1>6. CASE e.type = "usage"
    <2>. DEFINE f == [frame |-> "usage", usage |-> e.usage]
    <2>1. Chat(w, e) = Emit(w, <<f>>)
        BY <1>6 DEF Chat
    <2>2. ReadFrame(ReadAll(w.out), f) = Capture(ReadAll(w.out), e)
        BY <1>6 DEF ReadFrame, Capture, Collect
    <2>. HIDE DEF f
    <2>3. Emit(w, <<f>>).closed = w.closed
        BY EmitOne DEF ButFor
    <2>. QED  BY <1>6, <2>1, <2>2, <2>3, EmitOne DEF WriterShape
<1>7. CASE e.type = "done"
    <2>. DEFINE f == [frame |-> "finish", reason |-> e.reason]
                v == Emit(w, <<f>>)
                u == Emit(v, <<Frame("[DONE]")>>)
    <2>1. Chat(w, e) = [u EXCEPT !.closed = TRUE]
        <3>1. Chat(w, e) = Closed(w, <<f, Frame("[DONE]")>>)
            BY <1>7 DEF Chat
        <3>. HIDE DEF f
        <3>2. Emit(w, <<f, Frame("[DONE]")>>) = u
            BY EmitTwo
        <3>. QED  BY <3>1, <3>2 DEF Closed
    <2>2. ReadFrame(ReadAll(w.out), f) = Capture(ReadAll(w.out), e)
        BY <1>7 DEF ReadFrame, Capture, Collect
    <2>3. WriterShape(v) /\ ReadAll(v.out) = Capture(ReadAll(w.out), e)
        BY <2>2, EmitOne
    <2>. HIDE DEF f, v
    <2>4. WriterShape(u) /\ ReadAll(u.out) = ReadAll(v.out)
        BY <1>1, <2>3, EmitOne, SilentFrame
    <2>. HIDE DEF u
    <2>5. WriterShape([u EXCEPT !.closed = TRUE]) /\ [u EXCEPT !.closed = TRUE].out = u.out
            /\ [u EXCEPT !.closed = TRUE].closed = TRUE
        BY <2>4, Beside DEF ButFor
    <2>. QED  BY <1>7, <2>1, <2>3, <2>4, <2>5
<1>. QED  BY <1>3, <1>4, <1>5, <1>6, <1>7 DEF IsEvent

\* What Messages' frames say of the answer.
LEMMA AnthropicReads ==
    ASSUME NEW w, WriterShape(w), NEW e, IsEvent(e)
    PROVE  /\ WriterShape(Anthropic(w, e))
           /\ Anthropic(w, e).closed = (w.closed \/ e.type = "done")
           /\ e.type \in {"message_start", "call"} => ReadAll(Anthropic(w, e).out) = ReadAll(w.out)
           /\ e.type = "text" => ReadAll(Anthropic(w, e).out) = Collect(ReadAll(w.out), e)
           /\ e.type = "usage" => ReadAll(Anthropic(w, e).out) =
                                    [ReadAll(w.out) EXCEPT !.usage = OutputOnly(e.usage)]
           /\ e.type = "done" => ReadAll(Anthropic(w, e).out) =
                                   [ReadAll(w.out) EXCEPT !.finish = AnthropicReason(e.reason)]
<1>. DEFINE begun == Started(w, <<Frame("message_start")>>)
            block == Emit(begun, <<Frame("content_block_start")>>)
            open == IF begun.block THEN begun ELSE [block EXCEPT !.block = TRUE]
<1>1. /\ Silent(Frame("message_start")) /\ Silent(Frame("content_block_start"))
      /\ Silent(Frame("content_block_stop")) /\ Silent(Frame("message_stop"))
    BY DEF Silent, Frame
<1>2. WriterShape(begun) /\ ReadAll(begun.out) = ReadAll(w.out) /\ begun.closed = w.closed
    BY <1>1, SilentStart
<1>. HIDE DEF begun
<1>3. WriterShape(block) /\ ReadAll(block.out) = ReadAll(w.out) /\ block.closed = w.closed
    BY <1>1, <1>2, EmitOne, SilentFrame DEF ButFor
<1>. HIDE DEF block
<1>4. WriterShape(open) /\ ReadAll(open.out) = ReadAll(w.out) /\ open.closed = w.closed
    BY <1>2, <1>3, Beside DEF ButFor
<1>. HIDE DEF open
<1>5. CASE e.type = "message_start"
    <2>1. Anthropic(w, e) = begun
        BY <1>5 DEF Anthropic, begun
    <2>. QED  BY <1>2, <1>5, <2>1 DEF WriterShape
<1>6. CASE e.type = "text"
    <2>. DEFINE f == [frame |-> "content", text |-> e.text]
    <2>1. Anthropic(w, e) = Emit(open, <<f>>)
        BY <1>6 DEF Anthropic, open, block, begun
    <2>2. ReadFrame(ReadAll(w.out), f) = Collect(ReadAll(w.out), e)
        BY <1>6 DEF ReadFrame, Collect
    <2>. HIDE DEF f
    <2>3. Emit(open, <<f>>).closed = w.closed
        BY <1>4, EmitOne DEF ButFor
    <2>. QED  BY <1>4, <1>6, <2>1, <2>2, <2>3, EmitOne DEF WriterShape
<1>7. CASE e.type = "call"
    <2>. DEFINE f == [frame |-> "input_json", index |-> e.index, args |-> e.args]
    <2>1. Anthropic(w, e) = Emit(w, <<f>>)
        BY <1>7 DEF Anthropic
    <2>2. Silent(f)
        BY DEF Silent
    <2>. HIDE DEF f
    <2>3. Emit(w, <<f>>).closed = w.closed
        BY EmitOne DEF ButFor
    <2>. QED  BY <1>7, <2>1, <2>2, <2>3, EmitOne, SilentFrame DEF WriterShape
<1>8. CASE e.type = "usage"
    <2>. DEFINE f == [frame |-> "usage", usage |-> OutputOnly(e.usage)]
    <2>1. Anthropic(w, e) = Emit(w, <<f>>)
        BY <1>8 DEF Anthropic
    <2>2. ReadFrame(ReadAll(w.out), f) = [ReadAll(w.out) EXCEPT !.usage = OutputOnly(e.usage)]
        BY DEF ReadFrame
    <2>. HIDE DEF f
    <2>3. Emit(w, <<f>>).closed = w.closed
        BY EmitOne DEF ButFor
    <2>. QED  BY <1>8, <2>1, <2>2, <2>3, EmitOne DEF WriterShape
<1>9. CASE e.type = "done"
    <2>. DEFINE f == [frame |-> "finish", reason |-> AnthropicReason(e.reason)]
                g == Frame("message_stop")
                v == IF w.block THEN Emit(w, <<Frame("content_block_stop")>>) ELSE w
                t == Emit(v, <<f>>)
                u == Emit(t, <<g>>)
    <2>1. WriterShape(v) /\ ReadAll(v.out) = ReadAll(w.out)
        BY <1>1, EmitOne, SilentFrame
    <2>2. Anthropic(w, e) = [u EXCEPT !.closed = TRUE]
        <3>1. Anthropic(w, e) = Closed(w, (IF w.block THEN <<Frame("content_block_stop")>> ELSE << >>)
                                            \o <<f, g>>)
            BY <1>9 DEF Anthropic
        <3>2. Emit(v, <<f, g>>) = u
            <4>. HIDE DEF f, g, v
            <4>. QED  BY <2>1, EmitTwo
        <3>. DEFINE h == Frame("content_block_stop")
        <3>3. CASE w.block
            <4>1. v = Emit(w, <<h>>)
                BY <3>3
            <4>2. Anthropic(w, e) = Closed(w, <<h>> \o <<f, g>>)
                BY <3>1, <3>3
            <4>. HIDE DEF f, g, h, v, u
            <4>3. <<h>> \o <<f, g>> = <<h, f, g>>
                BY OneAndTwo
            <4>4. Emit(w, <<h, f, g>>) = Emit(Emit(w, <<h>>), <<f, g>>)
                BY EmitThree
            <4>5. Emit(w, <<h, f, g>>) = u
                BY <3>2, <4>1, <4>4
            <4>. QED  BY <4>2, <4>3, <4>5 DEF Closed
        <3>4. CASE ~w.block
            <4>1. v = w /\ Anthropic(w, e) = Closed(w, << >> \o <<f, g>>)
                BY <3>1, <3>4
            <4>. HIDE DEF f, g, h, v, u
            <4>2. << >> \o <<f, g>> = <<f, g>>
                BY OneAndTwo
            <4>. QED  BY <3>2, <4>1, <4>2 DEF Closed
        <3>. QED  BY <3>3, <3>4
    <2>3. ReadFrame(ReadAll(w.out), f) = [ReadAll(w.out) EXCEPT !.finish = AnthropicReason(e.reason)]
        BY DEF ReadFrame
    <2>. HIDE DEF f, v
    <2>4. WriterShape(t) /\ ReadAll(t.out) = [ReadAll(w.out) EXCEPT !.finish = AnthropicReason(e.reason)]
        BY <2>1, <2>3, EmitOne
    <2>. HIDE DEF t
    <2>5. WriterShape(u) /\ ReadAll(u.out) = ReadAll(t.out)
        BY <1>1, <2>4, EmitOne, SilentFrame
    <2>. HIDE DEF u
    <2>6. WriterShape([u EXCEPT !.closed = TRUE]) /\ [u EXCEPT !.closed = TRUE].out = u.out
            /\ [u EXCEPT !.closed = TRUE].closed = TRUE
        BY <2>5, Beside DEF ButFor
    <2>. QED  BY <1>9, <2>2, <2>4, <2>5, <2>6
<1>. QED  BY <1>5, <1>6, <1>7, <1>8, <1>9 DEF IsEvent

(* -------------------------- events on their way ------------------------- *)

\* A delta of a call repeats the call's name or leaves it out.
Fits(a, e) ==
    (e.type = "call" /\ e.index \in DOMAIN a.calls) => e.name \in {None, a.calls[e.index].name}

EventsOK(es) == IsList(es) /\ \A e \in ToSet(es) : IsEvent(e)

\* Events on their way come to an answer.
LEMMA EventsShaped ==
    ASSUME NEW es, EventsOK(es)
    PROVE  AnswerShape(CaptureAll(es)) /\ AnswerShape(CollectAll(es))
<1>1. es \in Seq(ToSet(es)) /\ \A e \in ToSet(es) : Legible(e)
    BY DEF EventsOK, IsList, IsEvent
<1>. QED  BY <1>1, AnswersShaped

\* What the capture makes of a delta that fits: the latest id, the name, more arguments.
LEMMA CallMerges ==
    ASSUME NEW a, AnswerShape(a), NEW e, IsEvent(e), e.type = "call", Fits(a, e),
           e.index \in DOMAIN a.calls
    PROVE  CaptureCall(a.calls, e) = Extended(a.calls, e.index,
                  [id |-> IF e.id = None THEN a.calls[e.index].id ELSE e.id,
                   name |-> a.calls[e.index].name, args |-> a.calls[e.index].args \o e.args])
<1>. DEFINE c == a.calls[e.index]
            x == c.args \o e.args
            i == IF e.id = None THEN c.id ELSE e.id
<1>1. e.name \in {None, c.name}
    BY DEF Fits
<1>2. Merged(c, e) = [id |-> c.id, name |-> c.name, args |-> x]
    BY <1>1 DEF Merged
<1>3. [Merged(c, e) EXCEPT !.id = IF e.id = None THEN @ ELSE e.id] = [Merged(c, e) EXCEPT !.id = i]
    BY <1>2
<1>4. CaptureCall(a.calls, e) = Extended(a.calls, e.index, [Merged(c, e) EXCEPT !.id = i])
    BY <1>3 DEF CaptureCall
<1>. HIDE DEF x, c, i
<1>5. [Merged(c, e) EXCEPT !.id = i] = [id |-> i, name |-> c.name, args |-> x]
    BY <1>2
<1>. QED  BY <1>4, <1>5 DEF x, c, i

\* An event leaves the events on their way.
LEMMA EventAdded ==
    ASSUME NEW es, EventsOK(es), NEW e, IsEvent(e)
    PROVE  EventsOK(Append(es, e)) /\ CaptureAll(Append(es, e)) = Capture(CaptureAll(es), e)
<1>1. CaptureAll(Append(es, e)) = Capture(CaptureAll(es), e)
    BY CollectMore DEF EventsOK
<1>2. IsList(Append(es, e)) /\ ToSet(Append(es, e)) = ToSet(es) \cup {e}
    BY ListAppend DEF EventsOK
<1>. QED  BY <1>1, <1>2 DEF EventsOK

(* ----------------------- Chat Completions and Messages ------------------ *)

\* What the frames of Messages say of an answer.
Said(a, reason) == [text |-> a.text, calls |-> << >>, usage |-> OutputOnly(a.usage), finish |-> reason]
Told(w, a) == IF w.closed THEN ReadAll(w.out) = Said(a, AnthropicReason(a.finish))
              ELSE ReadAll(w.out) = Said(a, a.finish)

\* A Chat Completions writer follows the capture by one event.
LEMMA ChatStep ==
    ASSUME NEW w, WriterShape(w), NEW a, NEW e, IsEvent(e), ReadAll(w.out) = a, ~w.closed
    PROVE  /\ WriterShape(Chat(w, e)) /\ Chat(w, e).closed = (e.type = "done")
           /\ ReadAll(Chat(w, e).out) = Capture(a, e)
BY ChatReads

\* The captured answer in full, by the type of the event.
LEMMA CaptureParts ==
    ASSUME NEW a, AnswerShape(a), NEW e, IsEvent(e)
    PROVE  /\ e.type = "message_start" => Capture(a, e) = a
           /\ e.type = "text" => Capture(a, e) = [text |-> a.text \o e.text, calls |-> a.calls,
                                                  usage |-> a.usage, finish |-> a.finish]
           /\ e.type = "call" => Capture(a, e) = [text |-> a.text, calls |-> CaptureCall(a.calls, e),
                                                  usage |-> a.usage, finish |-> a.finish]
           /\ e.type = "usage" => Capture(a, e) = [text |-> a.text, calls |-> a.calls,
                                                  usage |-> e.usage, finish |-> a.finish]
           /\ e.type = "done" => Capture(a, e) = [text |-> a.text, calls |-> a.calls,
                                                  usage |-> a.usage, finish |-> e.reason]
<1>1. ASSUME e.type = "message_start"  PROVE Capture(a, e) = a
    BY <1>1 DEF Capture, Collect
<1>2. ASSUME e.type = "text"
      PROVE  Capture(a, e) = [text |-> a.text \o e.text, calls |-> a.calls, usage |-> a.usage,
                              finish |-> a.finish]
    <2>. DEFINE x == a.text \o e.text
    <2>1. Capture(a, e) = [a EXCEPT !.text = x]
        BY <1>2 DEF Capture, Collect
    <2>. HIDE DEF x
    <2>. QED  BY <2>1 DEF AnswerShape, x
<1>3. ASSUME e.type = "call"
      PROVE  Capture(a, e) = [text |-> a.text, calls |-> CaptureCall(a.calls, e), usage |-> a.usage,
                              finish |-> a.finish]
    <2>. DEFINE x == CaptureCall(a.calls, e)
    <2>1. Capture(a, e) = [a EXCEPT !.calls = x]
        BY <1>3 DEF Capture, Collect
    <2>. HIDE DEF x
    <2>. QED  BY <2>1 DEF AnswerShape, x
<1>4. ASSUME e.type = "usage"
      PROVE  Capture(a, e) = [text |-> a.text, calls |-> a.calls, usage |-> e.usage, finish |-> a.finish]
    BY <1>4 DEF AnswerShape, Capture, Collect
<1>5. ASSUME e.type = "done"
      PROVE  Capture(a, e) = [text |-> a.text, calls |-> a.calls, usage |-> a.usage, finish |-> e.reason]
    BY <1>5 DEF AnswerShape, Capture, Collect
<1>. QED  BY <1>1, <1>2, <1>3, <1>4, <1>5

LEMMA TextCaptured ==
    ASSUME NEW a, AnswerShape(a), NEW e, IsEvent(e), e.type = "text"
    PROVE  Capture(a, e).text = a.text \o e.text
<1>. DEFINE x == a.text \o e.text
<1>1. Capture(a, e) = [a EXCEPT !.text = x]
    BY DEF Capture, Collect
<1>2. "text" \in DOMAIN a
    BY DEF AnswerShape
<1>. HIDE DEF x
<1>3. Capture(a, e).text = x
    BY <1>1, <1>2
<1>. QED  BY <1>3 DEF x

\* The same, field by field.
LEMMA CaptureFields ==
    ASSUME NEW a, AnswerShape(a), NEW e, IsEvent(e)
    PROVE  /\ Capture(a, e).text = IF e.type = "text" THEN a.text \o e.text ELSE a.text
           /\ Capture(a, e).calls = IF e.type = "call" THEN CaptureCall(a.calls, e) ELSE a.calls
           /\ Capture(a, e).usage = IF e.type = "usage" THEN e.usage ELSE a.usage
           /\ Capture(a, e).finish = IF e.type = "done" THEN e.reason ELSE a.finish
<1>1. CASE e.type = "message_start"
    <2>1. Capture(a, e) = a
        BY <1>1, CaptureParts
    <2>. QED  BY <1>1, <2>1
<1>2. CASE e.type = "text"
    <2>. DEFINE x == a.text \o e.text
                c == Capture(a, e)
    <2>1. c = [text |-> x, calls |-> a.calls, usage |-> a.usage, finish |-> a.finish]
        BY <1>2, CaptureParts
    <2>. HIDE DEF x, c
    <2>2. c.text = x /\ c.calls = a.calls /\ c.usage = a.usage /\ c.finish = a.finish
        BY <2>1
    <2>. QED  BY <1>2, <2>2 DEF x, c
<1>3. CASE e.type = "call"
    <2>1. Capture(a, e) = [text |-> a.text, calls |-> CaptureCall(a.calls, e), usage |-> a.usage,
                           finish |-> a.finish]
        BY <1>3, CaptureParts
    <2>. QED  BY <1>3, <2>1
<1>4. CASE e.type = "usage"
    <2>1. Capture(a, e) = [text |-> a.text, calls |-> a.calls, usage |-> e.usage, finish |-> a.finish]
        BY <1>4, CaptureParts
    <2>. QED  BY <1>4, <2>1
<1>5. CASE e.type = "done"
    <2>1. Capture(a, e) = [text |-> a.text, calls |-> a.calls, usage |-> a.usage, finish |-> e.reason]
        BY <1>5, CaptureParts
    <2>. QED  BY <1>5, <2>1
<1>. QED  BY <1>1, <1>2, <1>3, <1>4, <1>5 DEF IsEvent

\* A Messages writer follows the capture by one event, calls left out.
LEMMA AnthropicStep ==
    ASSUME NEW w, WriterShape(w), NEW a, AnswerShape(a), NEW e, IsEvent(e), Told(w, a), ~w.closed
    PROVE  /\ WriterShape(Anthropic(w, e)) /\ Anthropic(w, e).closed = (e.type = "done")
           /\ Told(Anthropic(w, e), Capture(a, e))
<1>. DEFINE v == Anthropic(w, e)
            r == ReadAll(w.out)
            c == Capture(a, e)
<1>. DEFINE u == OutputOnly(a.usage)
<1>1. r = [text |-> a.text, calls |-> << >>, usage |-> u, finish |-> a.finish]
    BY DEF Told, Said
<1>2. /\ WriterShape(v) /\ v.closed = (e.type = "done")
      /\ e.type \in {"message_start", "call"} => ReadAll(v.out) = r
      /\ e.type = "text" => ReadAll(v.out) = Collect(r, e)
      /\ e.type = "usage" => ReadAll(v.out) = [r EXCEPT !.usage = OutputOnly(e.usage)]
      /\ e.type = "done" => ReadAll(v.out) = [r EXCEPT !.finish = AnthropicReason(e.reason)]
    BY AnthropicReads
<1>3. ASSUME e.type \in {"message_start", "call"}  PROVE ReadAll(v.out) = Said(c, c.finish)
    <2>1. c.text = a.text /\ c.usage = a.usage /\ c.finish = a.finish
        BY <1>3, CaptureFields
    <2>. HIDE DEF c, v, r
    <2>. QED  BY <1>1, <1>2, <1>3, <2>1 DEF Said
<1>4. ASSUME e.type = "text"  PROVE ReadAll(v.out) = Said(c, c.finish)
    <2>. DEFINE x == a.text \o e.text
    <2>1. Collect(r, e) = [text |-> x, calls |-> << >>, usage |-> u, finish |-> a.finish]
        <3>1. Collect(r, e) = [r EXCEPT !.text = x]
            BY <1>1, <1>4 DEF Collect
        <3>. HIDE DEF x, r, u
        <3>. QED  BY <1>1, <3>1
    <2>2. c.text = x /\ c.usage = a.usage /\ c.finish = a.finish
        BY <1>4, CaptureFields
    <2>. HIDE DEF x, c, v, r
    <2>. QED  BY <1>2, <1>4, <2>1, <2>2 DEF Said
<1>5. ASSUME e.type = "usage"  PROVE ReadAll(v.out) = Said(c, c.finish)
    <2>. DEFINE y == OutputOnly(e.usage)
    <2>1. ReadAll(v.out) = [text |-> a.text, calls |-> << >>, usage |-> y, finish |-> a.finish]
        <3>1. ReadAll(v.out) = [r EXCEPT !.usage = y]
            BY <1>2, <1>5
        <3>. HIDE DEF r, u, y, v
        <3>. QED  BY <1>1, <3>1
    <2>2. c.text = a.text /\ c.usage = e.usage /\ c.finish = a.finish
        BY <1>5, CaptureFields
    <2>. HIDE DEF c, v, r
    <2>. QED  BY <2>1, <2>2 DEF Said
<1>6. ASSUME e.type = "done"  PROVE ReadAll(v.out) = Said(c, AnthropicReason(c.finish))
    <2>1. c.text = a.text /\ c.usage = a.usage /\ c.finish = e.reason
        BY <1>6, CaptureFields
    <2>. HIDE DEF c, v, r
    <2>. DEFINE x == AnthropicReason(e.reason)
    <2>2. AnthropicReason(c.finish) = x
        BY <2>1
    <2>3. ReadAll(v.out) = [r EXCEPT !.finish = x]
        BY <1>2, <1>6
    <2>. HIDE DEF x
    <2>. QED  BY <1>1, <2>1, <2>2, <2>3 DEF Said
<1>7. Told(v, c)
    <2>1. CASE e.type = "done"
        BY <1>2, <1>6, <2>1 DEF Told
    <2>2. CASE e.type # "done"
        BY <1>2, <1>3, <1>4, <1>5, <2>2 DEF IsEvent, Told
    <2>. QED  BY <2>1, <2>2
<1>. QED  BY <1>2, <1>7 DEF v, c

(* -------------------------------- Responses ----------------------------- *)

ItemShape(x) ==
    /\ x = [kind |-> x.kind, index |-> x.index, at |-> x.at, id |-> x.id, name |-> x.name, args |-> x.args]
    /\ x.kind \in {"text", "tool"} /\ x.args \in Seq(Letters)

ItemsShape(K) ==
    /\ IsList(K)
    /\ \A k \in DOMAIN K : ItemShape(K[k]) /\ K[k].at = k - 1
    /\ \A j, k \in DOMAIN K : (K[j].kind = K[k].kind /\ K[j].index = K[k].index) => j = k

\* An item with what e adds to it; a call has its latest id.
Grown(x, e) == [kind |-> x.kind, index |-> x.index, at |-> x.at,
                id |-> IF e.type = "text" THEN x.id ELSE IF e.id = None THEN x.id ELSE e.id,
                name |-> x.name, args |-> x.args \o More(e)]

\* A text delta adds its text to an item.
LEMMA TextGrows ==
    ASSUME NEW x, ItemShape(x), NEW e, e.type = "text"
    PROVE  Grow(x, e) = Grown(x, e)
<1>1. DOMAIN x = {"kind", "index", "at", "id", "name", "args"}
    BY DEF ItemShape
<1>. DEFINE y == x.args \o e.text
            u == [x EXCEPT !.args = y]
<1>0. Grow(x, e) = u
    BY DEF Grow
<1>. HIDE DEF y
<1>2. /\ DOMAIN u = DOMAIN x /\ u = [f \in DOMAIN x |-> u[f]]
      /\ u.kind = x.kind /\ u.index = x.index /\ u.at = x.at /\ u.id = x.id /\ u.name = x.name /\ u.args = y
    BY <1>1
<1>. HIDE DEF u
<1>3. u = [kind |-> u.kind, index |-> u.index, at |-> u.at, id |-> u.id, name |-> u.name, args |-> u.args]
    BY <1>1, <1>2
<1>4. u = [kind |-> x.kind, index |-> x.index, at |-> x.at, id |-> x.id, name |-> x.name, args |-> y]
    BY <1>2, <1>3
<1>. QED  BY <1>0, <1>4 DEF y, More, Grown

\* A tool delta adds its arguments and may change the id, but not the name.
LEMMA CallGrows ==
    ASSUME NEW x, ItemShape(x), NEW e, e.type # "text", e.name \in {None, x.name}
    PROVE  Grow(x, e) = Grown(x, e)
<1>1. DOMAIN x = {"kind", "index", "at", "id", "name", "args"}
    BY DEF ItemShape
<1>. DEFINE y == x.args \o e.args
            i == IF e.id = None THEN x.id ELSE e.id
            n == IF e.name = None THEN x.name ELSE e.name
            u == [x EXCEPT !.args = y, !.id = i, !.name = n]
<1>2. n = x.name
    OBVIOUS
<1>3. Grow(x, e) = u
    BY DEF Grow
<1>. HIDE DEF y, i, n
<1>4. /\ DOMAIN u = DOMAIN x /\ u = [f \in DOMAIN x |-> u[f]]
      /\ u.kind = x.kind /\ u.index = x.index /\ u.at = x.at /\ u.id = i /\ u.name = n /\ u.args = y
    BY <1>1
<1>. HIDE DEF u
<1>5. u = [kind |-> u.kind, index |-> u.index, at |-> u.at, id |-> u.id, name |-> u.name, args |-> u.args]
    BY <1>1, <1>4
<1>6. u = [kind |-> x.kind, index |-> x.index, at |-> x.at, id |-> i, name |-> x.name, args |-> y]
    BY <1>2, <1>4, <1>5
<1>. QED  BY <1>3, <1>6 DEF i, y, More, Grown

\* One element of a list replaced.
LEMMA ListExcept ==
    ASSUME NEW s, IsList(s), NEW p \in DOMAIN s, NEW x
    PROVE  /\ IsList([s EXCEPT ![p] = x]) /\ DOMAIN [s EXCEPT ![p] = x] = DOMAIN s
           /\ Len([s EXCEPT ![p] = x]) = Len(s)
           /\ [s EXCEPT ![p] = x][p] = x
           /\ \A j \in DOMAIN s : j # p => [s EXCEPT ![p] = x][j] = s[j]
<1>. DEFINE u == [s EXCEPT ![p] = x]
            A == ToSet(s) \cup {x}
<1>1. s \in Seq(A) /\ x \in A
    BY DEF IsList
<1>2. u \in Seq(A) /\ DOMAIN u = DOMAIN s /\ Len(u) = Len(s)
    <2>. HIDE DEF A
    <2>. QED  BY <1>1
<1>3. IsList(u)
    BY <1>2, ListIs
<1>4. u[p] = x /\ \A j \in DOMAIN s : j # p => u[j] = s[j]
    <2>. HIDE DEF A
    <2>. QED  BY <1>1
<1>. QED  BY <1>2, <1>3, <1>4

\* A delta changes the item it is for, and sends a frame unless the item is quiet.
LEMMA DeltaIs ==
    ASSUME NEW w, WriterShape(w), ItemsShape(w.items), NEW p \in DOMAIN w.items, NEW e,
           NEW kind, NEW i, w.items[p].kind = kind, w.items[p].index = i,
           e.type # "text" => e.name \in {None, w.items[p].name},
           NEW x, x = Grown(w.items[p], e)
    PROVE  /\ WriterShape(Delta(w, kind, i, e))
           /\ Delta(w, kind, i, e).items = [w.items EXCEPT ![p] = x]
           /\ Quiet(x) => Delta(w, kind, i, e).out = w.out
           /\ ~Quiet(x) => Delta(w, kind, i, e).out =
                Append(w.out, [frame |-> "delta", at |-> p - 1, kind |-> kind, args |-> More(e)])
           /\ Delta(w, kind, i, e).closed = w.closed
           /\ Delta(w, kind, i, e).usage = w.usage
<1>. DEFINE d == Delta(w, kind, i, e)
            k == CHOOSE k \in ItemOf(w, kind, i) : TRUE
            f == [frame |-> "delta", at |-> p - 1, kind |-> kind, args |-> More(e)]
            y == [w.items EXCEPT ![p] = x]
            v == Emit(w, DeltaOf(x, More(e)))
<1>1. k = p
    <2>1. p \in ItemOf(w, kind, i) /\ \A j \in ItemOf(w, kind, i) : j = p
        BY DEF ItemOf, ItemsShape
    <2>. QED  BY <2>1
<1>2. ItemShape(w.items[p]) /\ w.items[p].at = p - 1
    BY DEF ItemsShape
<1>3. Grow(w.items[p], e) = x
    BY <1>2, TextGrows, CallGrows
<1>4. x.at = p - 1 /\ x.kind = kind
    BY <1>2 DEF Grown
<1>5. IsList(y)
    BY ListExcept DEF ItemsShape
<1>. HIDE DEF f, y
<1>6. WriterShape(v) /\ ButFor("out", v, w) /\ v.out = IF Quiet(x) THEN w.out ELSE Append(w.out, f)
    <2>1. CASE Quiet(x)
        <3>1. w.out \o << >> = w.out
            BY DEF WriterShape, IsList
        <3>. DEFINE o == w.out
        <3>2. v = [w EXCEPT !.out = w.out \o << >>]
            BY <2>1 DEF DeltaOf, Emit
        <3>3. v = [w EXCEPT !.out = o]
            BY <3>1, <3>2
        <3>4. RecordShape(w)
            BY DEF WriterShape
        <3>. HIDE DEF o, v
        <3>7. ButFor("out", [w EXCEPT !.out = o], w) /\ [w EXCEPT !.out = o].out = o
            BY <3>4, WithField
        <3>5. ButFor("out", v, w) /\ v.out = o
            BY <3>3, <3>7
        <3>6. WriterShape(v)
            BY <3>5 DEF ButFor, WriterShape, o
        <3>. QED  BY <2>1, <3>5, <3>6 DEF o
    <2>2. CASE ~Quiet(x)
        <3>1. v = Emit(w, <<f>>)
            BY <1>4, <2>2 DEF DeltaOf, f
        <3>. QED  BY <2>2, <3>1, EmitOne
    <2>. QED  BY <2>1, <2>2
<1>7. d = [v EXCEPT !.items[p] = x]
    BY <1>1, <1>3 DEF Delta
<1>. HIDE DEF d, v
<1>8. d = [v EXCEPT !.items = y]
    BY <1>6, <1>7 DEF ButFor, y
<1>9. RecordShape(v)
    BY <1>6 DEF ButFor
<1>10. ButFor("items", d, v) /\ d.items = y
    BY <1>8, <1>9, WithField
<1>11. WriterShape(d) /\ d.out = v.out /\ d.closed = w.closed /\ d.usage = w.usage
    BY <1>5, <1>6, <1>10 DEF ButFor, WriterShape
<1>. QED  BY <1>6, <1>10, <1>11 DEF d, f, y

CallOf(x) == [id |-> x.id, name |-> x.name, args |-> x.args]

\* The items of a writer are the calls and the text of an answer.
Carries(K, a) ==
    /\ \A k \in DOMAIN K : K[k].kind = "tool" =>
         K[k].index \in DOMAIN a.calls /\ a.calls[K[k].index] = CallOf(K[k])
    /\ \A k \in DOMAIN K : K[k].kind = "text" =>
         K[k].index = 0 /\ K[k].args = a.text /\ a.text # << >>
    /\ \A i \in DOMAIN a.calls : \E k \in DOMAIN K : K[k].kind = "tool" /\ K[k].index = i
    /\ a.text # << >> => \E k \in DOMAIN K : K[k].kind = "text"

KindOf(e) == IF e.type = "call" THEN "tool" ELSE "text"
IndexOf(e) == IF e.type = "call" THEN e.index ELSE 0
FreshItem(K, e) ==
    [kind |-> KindOf(e), index |-> IndexOf(e), at |-> Len(K),
     id |-> IF KindOf(e) = "tool" THEN e.id ELSE None,
     name |-> IF KindOf(e) = "tool" THEN e.name ELSE None, args |-> << >>]

\* p is the place of e's item in K, an old one of items or a new one.
PlaceOf(p, K, items, e) ==
    /\ ItemsShape(K) /\ p \in DOMAIN K /\ K[p].kind = KindOf(e) /\ K[p].index = IndexOf(e)
    /\ \/ p \in DOMAIN items /\ K = items
       \/ /\ p = Len(items) + 1 /\ K = Append(items, FreshItem(items, e))
          /\ \A k \in DOMAIN items : ~(items[k].kind = KindOf(e) /\ items[k].index = IndexOf(e))

\* An item already there is found again.
LEMMA OldPlace ==
    ASSUME NEW items, ItemsShape(items), NEW e, NEW p \in DOMAIN items,
           items[p].kind = KindOf(e), items[p].index = IndexOf(e)
    PROVE  PlaceOf(p, items, items, e)
BY DEF PlaceOf

\* A new item is at the end, and its own.
LEMMA NewPlace ==
    ASSUME NEW items, ItemsShape(items), NEW e, IsEvent(e),
           \A k \in DOMAIN items : ~(items[k].kind = KindOf(e) /\ items[k].index = IndexOf(e))
    PROVE  /\ PlaceOf(Len(items) + 1, Append(items, FreshItem(items, e)), items, e)
           /\ \A j \in DOMAIN items : j \in 1 .. Len(items) /\ Append(items, FreshItem(items, e))[j] = items[j]
           /\ Append(items, FreshItem(items, e))[Len(items) + 1] = FreshItem(items, e)
           /\ DOMAIN Append(items, FreshItem(items, e)) = 1 .. (Len(items) + 1) /\ Len(items) \in Nat
<1>. DEFINE x == FreshItem(items, e)
            K == Append(items, x)
            n == Len(items)
<1>1. IsList(K) /\ n \in Nat /\ DOMAIN items = 1 .. n /\ Len(K) = n + 1
    BY ListAppend DEF ItemsShape
<1>2. DOMAIN K = 1 .. (n + 1) /\ K[n + 1] = x /\ \A j \in 1 .. n : K[j] = items[j]
    <2>. DEFINE A == ToSet(items) \cup {x}
    <2>1. items \in Seq(A) /\ x \in A
        BY DEF ItemsShape, IsList
    <2>. HIDE DEF A, x
    <2>. QED  BY <2>1
<1>3. ItemShape(x) /\ x.at = n /\ x.kind = KindOf(e) /\ x.index = IndexOf(e)
    BY DEF FreshItem, ItemShape, KindOf
<1>. HIDE DEF x, K
<1>4. ASSUME NEW k \in DOMAIN K  PROVE ItemShape(K[k]) /\ K[k].at = k - 1
    <2>1. CASE k = n + 1
        BY <1>1, <1>2, <1>3, <2>1
    <2>2. CASE k \in 1 .. n
        BY <1>1, <1>2, <2>2 DEF ItemsShape
    <2>. QED  BY <1>1, <1>2, <2>1, <2>2
<1>5. ASSUME NEW j \in DOMAIN K, NEW k \in DOMAIN K, K[j].kind = K[k].kind, K[j].index = K[k].index
      PROVE  j = k
    <2>1. CASE j \in 1 .. n /\ k \in 1 .. n
        BY <1>1, <1>2, <1>5, <2>1 DEF ItemsShape
    <2>2. CASE j = n + 1 /\ k \in 1 .. n
        BY <1>1, <1>2, <1>3, <1>5, <2>2
    <2>3. CASE k = n + 1 /\ j \in 1 .. n
        BY <1>1, <1>2, <1>3, <1>5, <2>3
    <2>. QED  BY <1>1, <1>2, <2>1, <2>2, <2>3
<1>6. ItemsShape(K)
    BY <1>1, <1>4, <1>5 DEF ItemsShape
<1>7. PlaceOf(n + 1, K, items, e)
    <2>1. n + 1 \in DOMAIN K
        BY <1>1, <1>2
    <2>. QED  BY <1>2, <1>3, <1>6, <2>1 DEF PlaceOf, K, x
<1>. QED  BY <1>1, <1>2, <1>7 DEF K, x

\* What Extended holds.
LEMMA ExtendedIs ==
    ASSUME NEW calls, NEW i, NEW c
    PROVE  /\ DOMAIN Extended(calls, i, c) = DOMAIN calls \cup {i}
           /\ Extended(calls, i, c)[i] = c
           /\ \A j \in DOMAIN calls : j # i => Extended(calls, i, c)[j] = calls[j]
BY DEF Extended

\* What the event adds to its item is what it adds to the answer.
LEMMA ItemCarried ==
    ASSUME NEW items, ItemsShape(items), NEW a, AnswerShape(a), Carries(items, a),
           NEW e, IsEvent(e), e.type \in {"text", "call"}, Fits(a, e),
           NEW K, NEW p, PlaceOf(p, K, items, e)
    PROVE  /\ e.type # "text" => e.name \in {None, K[p].name}
           /\ Grown(K[p], e).args \in Seq(Letters)
           /\ e.type = "call" => Capture(a, e).calls = Extended(a.calls, e.index, CallOf(Grown(K[p], e)))
           /\ e.type = "text" => Capture(a, e).text = Grown(K[p], e).args
<1>. DEFINE x == Grown(K[p], e)
<1>1. CASE e.type = "text"
    <2>1. Capture(a, e).text = a.text \o e.text
        BY <1>1, CaptureFields
    <2>2. K[p].args = a.text
        <3>1. CASE p \in DOMAIN items /\ K = items
            BY <1>1, <3>1 DEF PlaceOf, KindOf, Carries
        <3>2. CASE /\ p = Len(items) + 1 /\ K = Append(items, FreshItem(items, e))
                   /\ \A k \in DOMAIN items : ~(items[k].kind = KindOf(e) /\ items[k].index = IndexOf(e))
            <4>1. K[p] = FreshItem(items, e)
                BY <3>2, NewPlace
            <4>2. a.text = << >>
                BY <1>1, <3>2 DEF Carries, KindOf, IndexOf
            <4>. QED  BY <4>1, <4>2 DEF FreshItem
        <3>. QED  BY <3>1, <3>2 DEF PlaceOf
    <2>3. x.args = K[p].args \o e.text
        BY <1>1 DEF Grown, More
    <2>4. a.text \o e.text \in Seq(Letters)
        BY <1>1 DEF AnswerShape, IsEvent, Legible
    <2>. QED  BY <1>1, <2>1, <2>2, <2>3, <2>4
<1>2. CASE e.type = "call"
    <2>1. Capture(a, e).calls = CaptureCall(a.calls, e)
        BY <1>2, CaptureFields
    <2>2. e.args \in Seq(Letters)
        BY <1>2 DEF IsEvent, Legible
    <2>3. CASE p \in DOMAIN items /\ K = items
        <3>1. e.index \in DOMAIN a.calls /\ a.calls[e.index] = CallOf(K[p])
            BY <1>2, <2>3 DEF PlaceOf, KindOf, IndexOf, Carries
        <3>2. CaptureCall(a.calls, e) = Extended(a.calls, e.index,
                  [id |-> IF e.id = None THEN a.calls[e.index].id ELSE e.id,
                   name |-> a.calls[e.index].name, args |-> a.calls[e.index].args \o e.args])
            BY <1>2, <3>1, CallMerges
        <3>3. /\ a.calls[e.index].id = K[p].id /\ a.calls[e.index].name = K[p].name
              /\ a.calls[e.index].args = K[p].args
            BY <3>1 DEF CallOf
        <3>4. CallOf(x) = [id |-> IF e.id = None THEN K[p].id ELSE e.id, name |-> K[p].name,
                           args |-> K[p].args \o e.args]
            BY <1>2 DEF CallOf, Grown, More
        <3>5. K[p].args \o e.args \in Seq(Letters)
            <4>1. K[p].args \in Seq(Letters)
                BY DEF PlaceOf, ItemsShape, ItemShape
            <4>. QED  BY <2>2, <4>1
        <3>6. x.args = K[p].args \o e.args
            BY <1>2 DEF Grown, More
        <3>7. e.name \in {None, K[p].name}
            BY <1>2, <3>1, <3>3 DEF Fits
        <3>. QED  BY <1>2, <2>1, <3>2, <3>3, <3>4, <3>5, <3>6, <3>7
    <2>4. CASE /\ p = Len(items) + 1 /\ K = Append(items, FreshItem(items, e))
               /\ \A k \in DOMAIN items : ~(items[k].kind = KindOf(e) /\ items[k].index = IndexOf(e))
        <3>1. e.index \notin DOMAIN a.calls
            BY <1>2, <2>4 DEF Carries, KindOf, IndexOf
        <3>2. CaptureCall(a.calls, e) = Extended(a.calls, e.index, NewCall(e))
            BY <3>1 DEF CaptureCall
        <3>3. K[p] = FreshItem(items, e)
            BY <2>4, NewPlace
        <3>4. K[p].id = e.id /\ K[p].name = e.name /\ K[p].args = << >>
            BY <1>2, <3>3 DEF FreshItem, KindOf
        <3>5. << >> \o e.args = e.args
            BY <2>2
        <3>6. x.args = e.args /\ CallOf(x) = NewCall(e)
            BY <1>2, <3>4, <3>5 DEF Grown, More, CallOf, NewCall
        <3>. QED  BY <1>2, <2>1, <2>2, <3>2, <3>4, <3>6
    <2>. QED  BY <2>3, <2>4 DEF PlaceOf
<1>. QED  BY <1>1, <1>2

\* An item that grew carries the answer that grew.
LEMMA ItemsCarried ==
    ASSUME NEW items, ItemsShape(items), NEW a, AnswerShape(a), Carries(items, a),
           NEW e, IsEvent(e), e.type \in {"text", "call"}, Fits(a, e),
           NEW K, NEW p, PlaceOf(p, K, items, e)
    PROVE  /\ ItemsShape([K EXCEPT ![p] = Grown(K[p], e)])
           /\ Carries([K EXCEPT ![p] = Grown(K[p], e)], Capture(a, e))
<1>. DEFINE x == Grown(K[p], e)
            L == [K EXCEPT ![p] = x]
            b == Capture(a, e)
<1>1. /\ x.args \in Seq(Letters)
      /\ e.type = "call" => b.calls = Extended(a.calls, e.index, CallOf(x))
      /\ e.type = "text" => b.text = x.args
    BY ItemCarried
<1>2. /\ e.type = "call" => b.text = a.text
      /\ e.type = "text" => b.calls = a.calls
    BY CaptureFields
<1>3. ItemsShape(K) /\ p \in DOMAIN K /\ K[p].kind = KindOf(e) /\ K[p].index = IndexOf(e)
    BY DEF PlaceOf
<1>4. x.kind = K[p].kind /\ x.index = K[p].index /\ x.at = K[p].at /\ ItemShape(x)
    <2>1. ItemShape(K[p])
        BY <1>3 DEF ItemsShape
    <2>. QED  BY <1>1, <2>1 DEF Grown, ItemShape
<1>. HIDE DEF x
<1>5. IsList(L) /\ DOMAIN L = DOMAIN K /\ L[p] = x /\ \A j \in DOMAIN K : j # p => L[j] = K[j]
    BY <1>3, ListExcept DEF ItemsShape
<1>. HIDE DEF L
<1>6. \A k \in DOMAIN K : L[k].kind = K[k].kind /\ L[k].index = K[k].index
    BY <1>4, <1>5
<1>7. ItemsShape(L)
    <2>1. ASSUME NEW k \in DOMAIN L  PROVE ItemShape(L[k]) /\ L[k].at = k - 1
        <3>1. CASE k = p
            BY <1>3, <1>4, <1>5, <3>1 DEF ItemsShape
        <3>2. CASE k # p
            BY <1>3, <1>5, <3>2 DEF ItemsShape
        <3>. QED  BY <3>1, <3>2
    <2>2. ASSUME NEW j \in DOMAIN L, NEW k \in DOMAIN L, L[j].kind = L[k].kind, L[j].index = L[k].index
          PROVE  j = k
        BY <1>3, <1>5, <1>6, <2>2 DEF ItemsShape
    <2>. QED  BY <1>5, <2>1, <2>2 DEF ItemsShape
\* The other items are the old ones.
<1>8. \A k \in DOMAIN K : k # p => k \in DOMAIN items /\ L[k] = items[k]
    <2>1. CASE p \in DOMAIN items /\ K = items
        BY <1>5, <2>1
    <2>2. CASE /\ p = Len(items) + 1 /\ K = Append(items, FreshItem(items, e))
               /\ \A k \in DOMAIN items : ~(items[k].kind = KindOf(e) /\ items[k].index = IndexOf(e))
        <3>1. DOMAIN items = 1 .. Len(items)
            BY ListAppend DEF ItemsShape
        <3>. QED  BY <1>5, <2>2, <3>1, NewPlace
    <2>. QED  BY <2>1, <2>2 DEF PlaceOf
<1>9. \A k \in DOMAIN items : k # p => k \in DOMAIN K
    <2>1. CASE p \in DOMAIN items /\ K = items
        BY <2>1
    <2>2. CASE /\ p = Len(items) + 1 /\ K = Append(items, FreshItem(items, e))
               /\ \A k \in DOMAIN items : ~(items[k].kind = KindOf(e) /\ items[k].index = IndexOf(e))
        BY <2>2, NewPlace
    <2>. QED  BY <2>1, <2>2 DEF PlaceOf
<1>10. CASE e.type = "call"
    <2>. DEFINE i == e.index
    <2>1. KindOf(e) = "tool" /\ IndexOf(e) = i
        BY <1>10 DEF KindOf, IndexOf
    <2>2. /\ DOMAIN b.calls = DOMAIN a.calls \cup {i} /\ b.calls[i] = CallOf(x)
          /\ \A j \in DOMAIN a.calls : j # i => b.calls[j] = a.calls[j]
        <3>. DEFINE m == CallOf(x)
                    calls == b.calls
        <3>1. calls = Extended(a.calls, i, m)
            BY <1>1, <1>10
        <3>. HIDE DEF m, calls, i
        <3>2. /\ DOMAIN calls = DOMAIN a.calls \cup {i} /\ calls[i] = m
              /\ \A j \in DOMAIN a.calls : j # i => calls[j] = a.calls[j]
            BY <3>1 DEF Extended
        <3>. QED  BY <3>2 DEF m, calls
    <2>. HIDE DEF i, b
    <2>3. ASSUME NEW k \in DOMAIN L, L[k].kind = "tool"
          PROVE  L[k].index \in DOMAIN b.calls /\ b.calls[L[k].index] = CallOf(L[k])
        <3>1. CASE k = p
            BY <1>3, <1>4, <1>5, <2>1, <2>2, <3>1
        <3>2. CASE k # p
            <4>1. L[k].index # i
                BY <1>3, <1>5, <1>6, <2>1, <2>3, <3>2 DEF ItemsShape
            <4>2. L[k].index \in DOMAIN a.calls /\ a.calls[L[k].index] = CallOf(L[k])
                BY <1>5, <1>8, <2>3, <3>2 DEF Carries
            <4>. QED  BY <2>2, <4>1, <4>2
        <3>. QED  BY <3>1, <3>2
    <2>4. ASSUME NEW k \in DOMAIN L, L[k].kind = "text"
          PROVE  L[k].index = 0 /\ L[k].args = b.text /\ b.text # << >>
        <3>1. k # p
            BY <1>3, <1>4, <1>5, <2>1, <2>4
        <3>2. k \in DOMAIN items /\ items[k].kind = "text" /\ L[k] = items[k]
            BY <1>5, <1>8, <2>4, <3>1
        <3>. QED  BY <1>2, <1>10, <3>2 DEF Carries, b
    <2>5. ASSUME NEW j \in DOMAIN b.calls  PROVE \E k \in DOMAIN L : L[k].kind = "tool" /\ L[k].index = j
        <3>1. CASE j = i
            BY <1>3, <1>4, <1>5, <2>1, <3>1
        <3>2. CASE j # i
            <4>1. PICK k \in DOMAIN items : items[k].kind = "tool" /\ items[k].index = j
                BY <2>2, <2>5, <3>2 DEF Carries
            <4>2. k # p \/ L[k].index = i
                BY <1>3, <1>4, <1>5, <2>1
            <4>3. CASE k # p
                <5>1. k \in DOMAIN K /\ L[k] = items[k]
                    BY <1>8, <1>9, <4>3
                <5>. QED  BY <1>5, <4>1, <5>1
            <4>4. CASE k = p
                <5>1. K = items
                    <6>1. p # Len(items) + 1
                        <7>1. Len(items) + 1 \notin DOMAIN items
                            <8>1. Len(items) \in Nat /\ DOMAIN items = 1 .. Len(items)
                                BY ListAppend DEF ItemsShape
                            <8>. QED  BY <8>1
                        <7>. QED  BY <4>4, <7>1
                    <6>. QED  BY <6>1 DEF PlaceOf
                <5>. QED  BY <1>3, <2>1, <3>2, <4>1, <4>4, <5>1
            <4>. QED  BY <4>3, <4>4
        <3>. QED  BY <3>1, <3>2
    <2>6. b.text # << >> => \E k \in DOMAIN L : L[k].kind = "text"
        <3>1. SUFFICES ASSUME b.text # << >>  PROVE \E k \in DOMAIN L : L[k].kind = "text"
            OBVIOUS
        <3>2. PICK k \in DOMAIN items : items[k].kind = "text"
            BY <1>2, <1>10, <3>1 DEF Carries, b
        <3>3. k # p
            <4>1. CASE k = p
                <5>1. Len(items) + 1 \notin DOMAIN items
                    <6>1. Len(items) \in Nat /\ DOMAIN items = 1 .. Len(items)
                        BY ListAppend DEF ItemsShape
                    <6>. QED  BY <6>1
                <5>2. K = items
                    BY <4>1, <5>1 DEF PlaceOf
                <5>. QED  BY <1>3, <2>1, <3>2, <4>1, <5>2
            <4>. QED  BY <4>1
        <3>4. k \in DOMAIN K /\ L[k] = items[k]
            BY <1>8, <1>9, <3>3
        <3>. QED  BY <1>5, <3>2, <3>4
    <2>7. Carries(L, b)
        BY <2>3, <2>4, <2>5, <2>6 DEF Carries
    <2>. QED  BY <1>7, <2>7 DEF L, b, x
<1>11. CASE e.type = "text"
    <2>1. KindOf(e) = "text" /\ IndexOf(e) = 0
        BY <1>11 DEF KindOf, IndexOf
    <2>2. b.calls = a.calls /\ b.text = x.args
        BY <1>1, <1>2, <1>11
    <2>3. b.text # << >>
        <3>1. e.text \in Seq(Letters) /\ e.text # << >> /\ a.text \in Seq(Letters)
            BY <1>11 DEF IsEvent, Legible, AnswerShape
        <3>2. b.text = a.text \o e.text
            BY <1>11, CaptureFields
        <3>. QED  BY <3>1, <3>2, ConcatProperties
    <2>. HIDE DEF b
    <2>4. ASSUME NEW k \in DOMAIN L, L[k].kind = "tool"
          PROVE  L[k].index \in DOMAIN b.calls /\ b.calls[L[k].index] = CallOf(L[k])
        <3>1. k # p
            BY <1>3, <1>4, <1>5, <2>1, <2>4
        <3>2. k \in DOMAIN items /\ items[k].kind = "tool" /\ L[k] = items[k]
            BY <1>5, <1>8, <2>4, <3>1
        <3>. QED  BY <2>2, <3>2 DEF Carries
    <2>5. ASSUME NEW k \in DOMAIN L, L[k].kind = "text"
          PROVE  L[k].index = 0 /\ L[k].args = b.text /\ b.text # << >>
        <3>1. CASE k = p
            BY <1>3, <1>4, <1>5, <2>1, <2>2, <2>3, <3>1
        <3>2. CASE k # p
            <4>1. k \in DOMAIN items /\ items[k].kind = "text" /\ L[k] = items[k]
                BY <1>5, <1>8, <2>5, <3>2
            <4>2. L[k].index = 0
                BY <4>1 DEF Carries
            <4>3. FALSE
                BY <1>3, <1>5, <1>6, <2>1, <2>5, <3>2, <4>2 DEF ItemsShape
            <4>. QED  BY <4>3
        <3>. QED  BY <3>1, <3>2
    <2>6. ASSUME NEW j \in DOMAIN b.calls  PROVE \E k \in DOMAIN L : L[k].kind = "tool" /\ L[k].index = j
        <3>1. PICK k \in DOMAIN items : items[k].kind = "tool" /\ items[k].index = j
            BY <2>2, <2>6 DEF Carries
        <3>2. k # p
            <4>1. CASE k = p
                <5>1. Len(items) + 1 \notin DOMAIN items
                    <6>1. Len(items) \in Nat /\ DOMAIN items = 1 .. Len(items)
                        BY ListAppend DEF ItemsShape
                    <6>. QED  BY <6>1
                <5>2. K = items
                    BY <4>1, <5>1 DEF PlaceOf
                <5>. QED  BY <1>3, <2>1, <3>1, <4>1, <5>2
            <4>. QED  BY <4>1
        <3>3. k \in DOMAIN K /\ L[k] = items[k]
            BY <1>8, <1>9, <3>2
        <3>. QED  BY <1>5, <3>1, <3>3
    <2>7. \E k \in DOMAIN L : L[k].kind = "text"
        BY <1>3, <1>4, <1>5, <2>1
    <2>8. Carries(L, b)
        BY <2>4, <2>5, <2>6, <2>7 DEF Carries
    <2>. QED  BY <1>7, <2>8 DEF L, b, x
<1>. QED  BY <1>10, <1>11

\* The frames written while the stream is open, beside the items of the writer.
FramesKnown(out) ==
    /\ IsList(out)
    /\ \A k \in DOMAIN out :
         out[k].frame \in {"response.created", "response.in_progress", "item.added", "delta"}
FramesAdd(out, K) ==
    /\ \A k \in DOMAIN out : out[k].frame = "item.added" =>
         out[k].at \in Nat /\ out[k].at + 1 \in DOMAIN K /\ out[k].kind = K[out[k].at + 1].kind
    /\ \A k \in DOMAIN K : \E j \in DOMAIN out : out[j].frame = "item.added" /\ out[j].at = k - 1
AddedOnce(out) ==
    \A j, k \in DOMAIN out :
        (out[j].frame = "item.added" /\ out[k].frame = "item.added" /\ out[j].at = out[k].at) => j = k
AddedFirst(out) ==
    \A k \in DOMAIN out : out[k].frame = "delta" =>
        \E j \in 1 .. (k - 1) :
            out[j].frame = "item.added" /\ out[j].at = out[k].at /\ out[j].kind = out[k].kind
FramesSum(out, K) ==
    /\ \A at \in DOMAIN Sums(out) : at \in Nat /\ at + 1 \in DOMAIN K
    /\ \A k \in DOMAIN K : Quiet(K[k]) \/ SumAt(out, k - 1) = K[k].args

FramesOpen(out, K) ==
    FramesKnown(out) /\ FramesAdd(out, K) /\ AddedOnce(out) /\ AddedFirst(out) /\ FramesSum(out, K)

\* The elements of a list with one more.
LEMMA AppendIs ==
    ASSUME NEW s, IsList(s), NEW x
    PROVE  /\ IsList(Append(s, x)) /\ Len(s) \in Nat /\ DOMAIN s = 1 .. Len(s)
           /\ DOMAIN Append(s, x) = 1 .. (Len(s) + 1)
           /\ Append(s, x)[Len(s) + 1] = x
           /\ \A j \in 1 .. Len(s) : Append(s, x)[j] = s[j]
<1>. DEFINE A == ToSet(s) \cup {x}
<1>1. s \in Seq(A) /\ x \in A
    BY DEF IsList
<1>2. IsList(Append(s, x))
    BY ListAppend
<1>3. /\ Len(s) \in Nat /\ DOMAIN s = 1 .. Len(s) /\ DOMAIN Append(s, x) = 1 .. (Len(s) + 1)
      /\ Append(s, x)[Len(s) + 1] = x /\ \A j \in 1 .. Len(s) : Append(s, x)[j] = s[j]
    <2>. HIDE DEF A
    <2>. QED  BY <1>1
<1>. QED  BY <1>2, <1>3

\* What a frame adds to the arguments summed up to it.
LEMMA SumsNext ==
    ASSUME NEW out, IsList(out), NEW f
    PROVE  /\ f.frame # "delta" => Sums(Append(out, f)) = Sums(out)
           /\ f.frame = "delta" => DOMAIN Sums(Append(out, f)) = DOMAIN Sums(out) \cup {f.at}
           /\ \A at : SumAt(Append(out, f), at) =
                IF f.frame = "delta" /\ at = f.at
                THEN (IF f.at \in DOMAIN Sums(out) THEN SumAt(out, at) \o f.args ELSE f.args)
                ELSE SumAt(out, at)
<1>1. Sums(Append(out, f)) = AddDelta(Sums(out), f)
    BY SumMore
<1>. DEFINE S == Sums(out)
            T == Sums(Append(out, f))
<1>2. CASE f.frame # "delta"
    <2>1. T = S
        BY <1>1, <1>2 DEF AddDelta
    <2>2. \A at : SumAt(Append(out, f), at) = SumAt(out, at)
        BY <2>1 DEF SumAt
    <2>. QED  BY <1>2, <2>1, <2>2
<1>3. CASE f.frame = "delta"
    <2>. DEFINE m == IF f.at \in DOMAIN S THEN S[f.at] \o f.args ELSE f.args
    <2>1. T = Extended(S, f.at, m)
        BY <1>1, <1>3 DEF AddDelta
    <2>. HIDE DEF T, m, S
    <2>2. /\ DOMAIN T = DOMAIN S \cup {f.at} /\ T[f.at] = m
          /\ \A at \in DOMAIN S : at # f.at => T[at] = S[at]
        BY <2>1 DEF Extended
    <2>3. ASSUME NEW at
          PROVE  SumAt(Append(out, f), at) = IF at = f.at THEN (IF f.at \in DOMAIN S THEN SumAt(out, at) \o f.args ELSE f.args)
                                             ELSE SumAt(out, at)
        <3>1. SumAt(Append(out, f), at) = IF at \in DOMAIN T THEN T[at] ELSE << >>
            BY DEF SumAt, T
        <3>2. SumAt(out, at) = IF at \in DOMAIN S THEN S[at] ELSE << >>
            BY DEF SumAt, S
        <3>3. CASE at = f.at
            BY <2>2, <3>1, <3>2, <3>3 DEF m
        <3>4. CASE at # f.at
            BY <2>2, <3>1, <3>2, <3>4
        <3>. QED  BY <3>3, <3>4
    <2>. QED  BY <1>3, <2>2, <2>3 DEF T, S
<1>. QED  BY <1>2, <1>3

\* The same for a delta.
LEMMA SumAtDelta ==
    ASSUME NEW out, IsList(out), NEW f, f.frame = "delta", NEW at
    PROVE  /\ at = f.at => SumAt(Append(out, f), at) =
                              IF f.at \in DOMAIN Sums(out) THEN SumAt(out, at) \o f.args ELSE f.args
           /\ at # f.at => SumAt(Append(out, f), at) = SumAt(out, at)
BY SumsNext

LEMMA SumAtNext ==
    ASSUME NEW out, IsList(out)
    PROVE  \A f : f.frame = "delta" =>
             \A at : SumAt(Append(out, f), at) =
                IF at = f.at
                THEN (IF f.at \in DOMAIN Sums(out) THEN SumAt(out, at) \o f.args ELSE f.args)
                ELSE SumAt(out, at)
<1>. SUFFICES ASSUME NEW f, f.frame = "delta", NEW at
              PROVE  SumAt(Append(out, f), at) =
                        IF at = f.at
                        THEN (IF f.at \in DOMAIN Sums(out) THEN SumAt(out, at) \o f.args ELSE f.args)
                        ELSE SumAt(out, at)
    OBVIOUS
<1>1. CASE at = f.at
    BY <1>1, SumAtDelta
<1>2. CASE at # f.at
    BY <1>2, SumAtDelta
<1>. QED  BY <1>1, <1>2

\* The opening frames leave a stream open.
LEMMA FrameSilent ==
    ASSUME NEW out, NEW K, FramesOpen(out, K), NEW f, f.frame \in {"response.created", "response.in_progress"}
    PROVE  FramesOpen(Append(out, f), K)
<1>. DEFINE n == Len(out)
            o == Append(out, f)
<1>1. /\ IsList(o) /\ n \in Nat /\ DOMAIN out = 1 .. n /\ DOMAIN o = 1 .. (n + 1) /\ o[n + 1] = f
      /\ \A j \in 1 .. n : o[j] = out[j]
    BY AppendIs DEF FramesOpen, FramesKnown
<1>2. Sums(o) = Sums(out) /\ \A at : SumAt(o, at) = SumAt(out, at)
    <2>1. IsList(out) /\ f.frame # "delta"
        BY DEF FramesOpen, FramesKnown
    <2>2. Sums(o) = Sums(out)
        BY <2>1, SumsNext
    <2>. QED  BY <2>2 DEF SumAt
<1>. HIDE DEF o, n
<1>3. FramesKnown(o)
    BY <1>1 DEF FramesOpen, FramesKnown
<1>4. FramesAdd(o, K)
    BY <1>1 DEF FramesOpen, FramesAdd
<1>5. AddedOnce(o)
    BY <1>1 DEF FramesOpen, AddedOnce
<1>6. AddedFirst(o)
    <2>. SUFFICES ASSUME NEW k \in DOMAIN o, o[k].frame = "delta"
                  PROVE  \E j \in 1 .. (k - 1) :
                            o[j].frame = "item.added" /\ o[j].at = o[k].at /\ o[j].kind = o[k].kind
        BY DEF AddedFirst
    <2>1. k \in 1 .. n /\ o[k] = out[k]
        BY <1>1
    <2>2. PICK j \in 1 .. (k - 1) :
              out[j].frame = "item.added" /\ out[j].at = out[k].at /\ out[j].kind = out[k].kind
        BY <1>1, <2>1 DEF FramesOpen, AddedFirst
    <2>3. o[j] = out[j]
        BY <1>1, <2>1
    <2>. QED  BY <2>1, <2>2, <2>3
<1>7. FramesSum(o, K)
    BY <1>2 DEF FramesOpen, FramesSum
<1>. QED  BY <1>3, <1>4, <1>5, <1>6, <1>7 DEF FramesOpen, o

\* A frame that adds an item to the stream goes with the item.
LEMMA FrameAdded ==
    ASSUME NEW out, NEW K, FramesOpen(out, K), IsList(K), NEW x, x.args = << >>,
           NEW f, f.frame = "item.added", f.at = Len(K), f.kind = x.kind
    PROVE  FramesOpen(Append(out, f), Append(K, x))
<1>. DEFINE n == Len(out)
            o == Append(out, f)
            m == Len(K)
            L == Append(K, x)
<1>1. /\ IsList(o) /\ n \in Nat /\ DOMAIN out = 1 .. n /\ DOMAIN o = 1 .. (n + 1) /\ o[n + 1] = f
      /\ \A j \in 1 .. n : o[j] = out[j]
    BY AppendIs DEF FramesOpen, FramesKnown
<1>2. Sums(o) = Sums(out) /\ \A at : SumAt(o, at) = SumAt(out, at)
    <2>1. IsList(out) /\ f.frame # "delta"
        BY DEF FramesOpen, FramesKnown
    <2>2. Sums(o) = Sums(out)
        BY <2>1, SumsNext
    <2>. HIDE DEF o
    <2>. QED  BY <2>2 DEF SumAt
<1>3. /\ m \in Nat /\ DOMAIN K = 1 .. m /\ DOMAIN L = 1 .. (m + 1) /\ L[m + 1] = x
      /\ \A j \in 1 .. m : L[j] = K[j]
    BY AppendIs
<1>4. f.at = m
    OBVIOUS
<1>. HIDE DEF o, n, m, L
<1>5. FramesKnown(o)
    BY <1>1 DEF FramesOpen, FramesKnown
<1>6. FramesAdd(o, L)
    <2>1. ASSUME NEW k \in DOMAIN o, o[k].frame = "item.added"
          PROVE  o[k].at \in Nat /\ o[k].at + 1 \in DOMAIN L /\ o[k].kind = L[o[k].at + 1].kind
        <3>1. CASE k = n + 1
            BY <1>1, <1>3, <1>4, <3>1
        <3>2. CASE k \in 1 .. n
            <4>1. out[k].at \in Nat /\ out[k].at + 1 \in DOMAIN K /\ out[k].kind = K[out[k].at + 1].kind
                BY <1>1, <2>1, <3>2 DEF FramesOpen, FramesAdd
            <4>. QED  BY <1>1, <1>3, <3>2, <4>1
        <3>. QED  BY <1>1, <3>1, <3>2
    <2>2. ASSUME NEW k \in DOMAIN L
          PROVE  \E j \in DOMAIN o : o[j].frame = "item.added" /\ o[j].at = k - 1
        <3>1. CASE k = m + 1
            <4>1. n + 1 \in DOMAIN o /\ o[n + 1].at = k - 1
                BY <1>1, <1>3, <1>4, <3>1
            <4>. QED  BY <1>1, <4>1
        <3>2. CASE k \in 1 .. m
            <4>1. PICK j \in DOMAIN out : out[j].frame = "item.added" /\ out[j].at = k - 1
                BY <1>3, <3>2 DEF FramesOpen, FramesAdd
            <4>2. j \in DOMAIN o /\ o[j] = out[j]
                BY <1>1
            <4>. QED  BY <4>1, <4>2
        <3>. QED  BY <1>3, <3>1, <3>2
    <2>. QED  BY <2>1, <2>2 DEF FramesAdd
<1>7. AddedOnce(o)
    <2>. SUFFICES ASSUME NEW j \in DOMAIN o, NEW k \in DOMAIN o,
                         o[j].frame = "item.added", o[k].frame = "item.added", o[j].at = o[k].at
                  PROVE  j = k
        BY DEF AddedOnce
    <2>1. \A i \in 1 .. n : o[i].frame = "item.added" => o[i].at # m
        <3>. SUFFICES ASSUME NEW i \in 1 .. n, o[i].frame = "item.added"  PROVE o[i].at # m
            OBVIOUS
        <3>1. o[i].at \in Nat /\ o[i].at + 1 \in 1 .. m
            BY <1>1, <1>3 DEF FramesOpen, FramesAdd
        <3>. QED  BY <1>3, <3>1
    <2>2. CASE j \in 1 .. n /\ k \in 1 .. n
        BY <1>1, <2>2 DEF FramesOpen, AddedOnce
    <2>3. CASE j = n + 1 \/ k = n + 1
        BY <1>1, <1>4, <2>1, <2>3
    <2>. QED  BY <1>1, <2>2, <2>3
<1>8. AddedFirst(o)
    <2>. SUFFICES ASSUME NEW k \in DOMAIN o, o[k].frame = "delta"
                  PROVE  \E j \in 1 .. (k - 1) :
                            o[j].frame = "item.added" /\ o[j].at = o[k].at /\ o[j].kind = o[k].kind
        BY DEF AddedFirst
    <2>1. k \in 1 .. n /\ o[k] = out[k]
        BY <1>1
    <2>2. PICK j \in 1 .. (k - 1) :
              out[j].frame = "item.added" /\ out[j].at = out[k].at /\ out[j].kind = out[k].kind
        BY <1>1, <2>1 DEF FramesOpen, AddedFirst
    <2>3. o[j] = out[j]
        BY <1>1, <2>1
    <2>. QED  BY <2>1, <2>2, <2>3
<1>9. FramesSum(o, L)
    <2>1. \A at \in DOMAIN Sums(o) : at \in Nat /\ at + 1 \in 1 .. m
        BY <1>2, <1>3 DEF FramesOpen, FramesSum
    <2>2. m \notin DOMAIN Sums(out)
        BY <1>2, <1>3, <2>1
    <2>3. ASSUME NEW k \in DOMAIN L  PROVE Quiet(L[k]) \/ SumAt(o, k - 1) = L[k].args
        <3>1. CASE k = m + 1
            <4>1. k - 1 = m /\ L[k].args = << >>
                BY <1>3, <3>1
            <4>. QED  BY <1>2, <2>2, <4>1 DEF SumAt
        <3>2. CASE k \in 1 .. m
            BY <1>2, <1>3, <3>2 DEF FramesOpen, FramesSum
        <3>. QED  BY <1>3, <3>1, <3>2
    <2>4. \A at \in DOMAIN Sums(o) : at \in Nat /\ at + 1 \in DOMAIN L
        BY <1>3, <2>1
    <2>. QED  BY <2>3, <2>4 DEF FramesSum
<1>. QED  BY <1>5, <1>6, <1>7, <1>8, <1>9 DEF FramesOpen, o, L

\* The item at p grows, with a delta or quietly.
LEMMA FrameGrown ==
    ASSUME NEW out, NEW K, FramesOpen(out, K), IsList(K), NEW p \in DOMAIN K,
           K[p].args \in Seq(Letters),
           NEW e, More(e) \in Seq(Letters), NEW f,
           f = [frame |-> "delta", at |-> p - 1, kind |-> K[p].kind, args |-> More(e)]
    PROVE  /\ Quiet(K[p]) => FramesOpen(out, [K EXCEPT ![p] = Grown(K[p], e)])
           /\ ~Quiet(K[p]) => FramesOpen(Append(out, f), [K EXCEPT ![p] = Grown(K[p], e)])
<1>. DEFINE n == Len(out)
            o == Append(out, f)
            x == Grown(K[p], e)
            L == [K EXCEPT ![p] = x]
<1>1. /\ IsList(o) /\ n \in Nat /\ DOMAIN out = 1 .. n /\ DOMAIN o = 1 .. (n + 1) /\ o[n + 1] = f
      /\ \A j \in 1 .. n : o[j] = out[j]
    BY AppendIs DEF FramesOpen, FramesKnown
<1>2. DOMAIN L = DOMAIN K /\ L[p] = x /\ \A j \in DOMAIN K : j # p => L[j] = K[j]
    BY ListExcept
<1>3. x.kind = K[p].kind /\ x.name = K[p].name /\ x.args = K[p].args \o More(e) /\ (Quiet(x) <=> Quiet(K[p]))
    BY DEF Grown, Quiet
<1>4. f.frame = "delta" /\ f.at = p - 1 /\ f.kind = K[p].kind /\ f.args = More(e)
    OBVIOUS
<1>5. p \in Nat /\ p # 0 /\ \A k \in DOMAIN K : k \in Nat
    BY ListAppend
<1>. HIDE DEF o, n, x, L
<1>6. \A k \in DOMAIN K : L[k].kind = K[k].kind
    BY <1>2, <1>3
<1>7. FramesAdd(out, L)
    BY <1>2, <1>6 DEF FramesOpen, FramesAdd
<1>8. ASSUME Quiet(K[p])  PROVE FramesOpen(out, L)
    <2>1. FramesSum(out, L)
        BY <1>2, <1>3, <1>8 DEF FramesOpen, FramesSum
    <2>. QED  BY <1>7, <2>1 DEF FramesOpen
<1>9. ASSUME ~Quiet(K[p])  PROVE FramesOpen(o, L)
    <2>1. FramesKnown(o)
        BY <1>1, <1>4 DEF FramesOpen, FramesKnown
    <2>2. FramesAdd(o, L)
        <3>1. ASSUME NEW k \in DOMAIN o, o[k].frame = "item.added"
              PROVE  o[k].at \in Nat /\ o[k].at + 1 \in DOMAIN L /\ o[k].kind = L[o[k].at + 1].kind
            <4>1. k \in DOMAIN out /\ o[k] = out[k]
                BY <1>1, <1>4, <3>1
            <4>. QED  BY <1>7, <3>1, <4>1 DEF FramesAdd
        <3>2. ASSUME NEW k \in DOMAIN L
              PROVE  \E j \in DOMAIN o : o[j].frame = "item.added" /\ o[j].at = k - 1
            <4>1. PICK j \in DOMAIN out : out[j].frame = "item.added" /\ out[j].at = k - 1
                BY <1>7 DEF FramesAdd
            <4>2. j \in DOMAIN o /\ o[j] = out[j]
                BY <1>1
            <4>. QED  BY <4>1, <4>2
        <3>. QED  BY <3>1, <3>2 DEF FramesAdd
    <2>3. AddedOnce(o)
        BY <1>1, <1>4 DEF FramesOpen, AddedOnce
    <2>4. AddedFirst(o)
        <3>. SUFFICES ASSUME NEW k \in DOMAIN o, o[k].frame = "delta"
                      PROVE  \E j \in 1 .. (k - 1) :
                                o[j].frame = "item.added" /\ o[j].at = o[k].at /\ o[j].kind = o[k].kind
            BY DEF AddedFirst
        <3>1. CASE k = n + 1
            <4>1. PICK j \in DOMAIN out : out[j].frame = "item.added" /\ out[j].at = p - 1
                BY DEF FramesOpen, FramesAdd
            <4>2. p - 1 + 1 = p
                BY <1>5
            <4>3. out[j].kind = K[p].kind
                BY <4>1, <4>2 DEF FramesOpen, FramesAdd
            <4>4. j \in 1 .. (k - 1) /\ o[j] = out[j]
                BY <1>1, <3>1
            <4>. QED  BY <1>1, <1>4, <3>1, <4>1, <4>3, <4>4
        <3>2. CASE k \in 1 .. n
            <4>1. o[k] = out[k]
                BY <1>1, <3>2
            <4>2. PICK j \in 1 .. (k - 1) :
                      out[j].frame = "item.added" /\ out[j].at = out[k].at /\ out[j].kind = out[k].kind
                BY <1>1, <3>2, <4>1 DEF FramesOpen, AddedFirst
            <4>3. o[j] = out[j]
                BY <1>1, <3>2
            <4>. QED  BY <4>1, <4>2, <4>3
        <3>. QED  BY <1>1, <3>1, <3>2
    <2>5. FramesSum(o, L)
        <3>1. /\ DOMAIN Sums(o) = DOMAIN Sums(out) \cup {p - 1}
              /\ \A at : SumAt(o, at) = IF at = p - 1
                    THEN (IF p - 1 \in DOMAIN Sums(out) THEN SumAt(out, at) \o More(e) ELSE More(e))
                    ELSE SumAt(out, at)
            <4>1. IsList(out)
                BY DEF FramesOpen, FramesKnown
            <4>2. DOMAIN Sums(o) = DOMAIN Sums(out) \cup {f.at}
                BY <1>4, <4>1, SumsNext DEF o
            <4>3. \A at, l : l = p - 1 => SumAt(o, at) = IF at = l
                            THEN (IF l \in DOMAIN Sums(out) THEN SumAt(out, at) \o More(e) ELSE More(e))
                            ELSE SumAt(out, at)
                <5>1. \A g : g.frame = "delta" =>
                        \A at : SumAt(Append(out, g), at) = IF at = g.at
                            THEN (IF g.at \in DOMAIN Sums(out) THEN SumAt(out, at) \o g.args ELSE g.args)
                            ELSE SumAt(out, at)
                    BY <4>1, SumAtNext
                <5>2. o = Append(out, f)
                    BY DEF o
                <5>. QED  BY <1>4, <5>1, <5>2
            <4>. QED  BY <1>4, <4>2, <4>3
        <3>2. \A at \in DOMAIN Sums(o) : at \in Nat /\ at + 1 \in DOMAIN L
            <4>1. p - 1 \in Nat /\ p - 1 + 1 = p
                BY <1>5
            <4>. QED  BY <1>2, <3>1, <4>1 DEF FramesOpen, FramesSum
        <3>3. ASSUME NEW k \in DOMAIN L  PROVE Quiet(L[k]) \/ SumAt(o, k - 1) = L[k].args
            <4>1. CASE k = p
                <5>1. SumAt(out, p - 1) = K[p].args
                    BY <1>9 DEF FramesOpen, FramesSum
                <5>2. CASE p - 1 \in DOMAIN Sums(out)
                    BY <1>2, <1>3, <3>1, <4>1, <5>1, <5>2
                <5>3. CASE p - 1 \notin DOMAIN Sums(out)
                    <6>1. K[p].args = << >>
                        BY <5>1, <5>3 DEF SumAt
                    <6>2. << >> \o More(e) = More(e)
                        OBVIOUS
                    <6>. QED  BY <1>2, <1>3, <3>1, <4>1, <5>3, <6>1, <6>2
                <5>. QED  BY <5>2, <5>3
            <4>2. CASE k # p
                <5>1. k - 1 # p - 1
                    BY <1>2, <1>5, <4>2
                <5>. QED  BY <1>2, <3>1, <4>2, <5>1 DEF FramesOpen, FramesSum
            <4>. QED  BY <4>1, <4>2
        <3>. QED  BY <3>2, <3>3 DEF FramesSum
    <2>. QED  BY <2>1, <2>2, <2>3, <2>4, <2>5 DEF FramesOpen
<1>. QED  BY <1>8, <1>9 DEF o, L, x

\* A Responses writer in the middle of its stream, and after it.
ResponsesOpen(w, a) ==
    /\ WriterShape(w) /\ ItemsShape(w.items) /\ Carries(w.items, a) /\ FramesOpen(w.out, w.items)
    /\ w.usage = a.usage

ResponsesBegun(w) == Started(w, <<Frame("response.created"), Frame("response.in_progress")>>)

\* An opened stream has opened, and nothing else.
LEMMA BegunIs ==
    ASSUME NEW w, WriterShape(w), FramesOpen(w.out, w.items)
    PROVE  /\ WriterShape(ResponsesBegun(w)) /\ FramesOpen(ResponsesBegun(w).out, ResponsesBegun(w).items)
           /\ ResponsesBegun(w).items = w.items /\ ResponsesBegun(w).closed = w.closed
           /\ ResponsesBegun(w).usage = w.usage
<1>. DEFINE c == Frame("response.created")
            p == Frame("response.in_progress")
            v == Emit(w, <<c>>)
            u == Emit(v, <<p>>)
            t == [u EXCEPT !.started = TRUE]
<1>1. Emit(w, <<c, p>>) = u
    BY EmitTwo
<1>2. ResponsesBegun(w) = IF w.started THEN w ELSE t
    BY <1>1 DEF ResponsesBegun, Started
<1>3. c.frame \in {"response.created", "response.in_progress"} /\ p.frame \in {"response.created", "response.in_progress"}
    BY DEF Frame
<1>. HIDE DEF c, p
<1>4. v.out = Append(w.out, c) /\ ButFor("out", v, w) /\ WriterShape(v)
    BY EmitOne
<1>. HIDE DEF v
<1>5. u.out = Append(v.out, p) /\ ButFor("out", u, v) /\ WriterShape(u)
    BY <1>4, EmitOne
<1>. HIDE DEF u
<1>6. WriterShape(t) /\ ButFor("started", t, u)
    BY <1>5, Beside
<1>. HIDE DEF t
<1>7. FramesOpen(v.out, w.items)
    BY <1>3, <1>4, FrameSilent
<1>8. FramesOpen(u.out, w.items)
    BY <1>3, <1>5, <1>7, FrameSilent
<1>9. t.out = u.out /\ t.items = w.items /\ t.closed = w.closed /\ t.usage = w.usage
    BY <1>4, <1>5, <1>6 DEF ButFor
<1>. QED  BY <1>2, <1>6, <1>8, <1>9

\* An item added is announced.
LEMMA ItemAddedIs ==
    ASSUME NEW w, WriterShape(w), FramesOpen(w.out, w.items), NEW x, x.args = << >>, x.at = Len(w.items)
    PROVE  /\ WriterShape(ItemAdded(w, x)) /\ ItemAdded(w, x).items = Append(w.items, x)
           /\ FramesOpen(ItemAdded(w, x).out, Append(w.items, x))
           /\ ItemAdded(w, x).closed = w.closed /\ ItemAdded(w, x).usage = w.usage
<1>. DEFINE f == [frame |-> "item.added", at |-> x.at, kind |-> x.kind]
            v == Emit(w, <<f>>)
            K == Append(w.items, x)
            u == [v EXCEPT !.items = K]
<1>1. f.frame = "item.added" /\ f.at = Len(w.items) /\ f.kind = x.kind
    OBVIOUS
<1>2. ItemAdded(w, x) = [v EXCEPT !.items = Append(@, x)]
    BY DEF ItemAdded
<1>. HIDE DEF f
<1>3. v.out = Append(w.out, f) /\ ButFor("out", v, w) /\ WriterShape(v)
    BY EmitOne
<1>. HIDE DEF v
<1>4. IsList(K)
    BY ListAppend DEF WriterShape
<1>5. FramesOpen(Append(w.out, f), K)
    BY <1>1, FrameAdded DEF WriterShape
<1>6. ItemAdded(w, x) = u
    BY <1>2, <1>3 DEF ButFor
<1>. HIDE DEF K
<1>7. RecordShape(v)
    BY <1>3 DEF WriterShape
<1>8. ButFor("items", u, v) /\ u.items = K
    BY <1>7, WithField
<1>. HIDE DEF u
<1>9. WriterShape(u) /\ u.out = v.out /\ u.closed = w.closed /\ u.usage = w.usage
    BY <1>3, <1>4, <1>8 DEF ButFor, WriterShape
<1>. QED  BY <1>3, <1>5, <1>6, <1>8, <1>9 DEF K

ItemKnown(w, e) ==
    IF ItemOf(w, KindOf(e), IndexOf(e)) # {} THEN w ELSE ItemAdded(w, FreshItem(w.items, e))

\* After ItemKnown the event has its item, announced before.
LEMMA KnownIs ==
    ASSUME NEW w, WriterShape(w), ItemsShape(w.items), FramesOpen(w.out, w.items), NEW e, IsEvent(e)
    PROVE  /\ WriterShape(ItemKnown(w, e)) /\ FramesOpen(ItemKnown(w, e).out, ItemKnown(w, e).items)
           /\ ItemKnown(w, e).closed = w.closed /\ ItemKnown(w, e).usage = w.usage
           /\ \E p : PlaceOf(p, ItemKnown(w, e).items, w.items, e)
<1>1. CASE ItemOf(w, KindOf(e), IndexOf(e)) # {}
    <2>1. PICK p \in DOMAIN w.items : w.items[p].kind = KindOf(e) /\ w.items[p].index = IndexOf(e)
        BY <1>1 DEF ItemOf
    <2>2. PlaceOf(p, w.items, w.items, e)
        BY <2>1, OldPlace
    <2>3. ItemKnown(w, e) = w
        BY <1>1 DEF ItemKnown
    <2>. QED  BY <2>2, <2>3
<1>2. CASE ItemOf(w, KindOf(e), IndexOf(e)) = {}
    <2>. DEFINE x == FreshItem(w.items, e)
                v == ItemAdded(w, x)
    <2>1. \A k \in DOMAIN w.items : ~(w.items[k].kind = KindOf(e) /\ w.items[k].index = IndexOf(e))
        BY <1>2 DEF ItemOf
    <2>2. PlaceOf(Len(w.items) + 1, Append(w.items, x), w.items, e)
        BY <2>1, NewPlace
    <2>3. x.args = << >> /\ x.at = Len(w.items)
        BY DEF FreshItem
    <2>4. ItemKnown(w, e) = v
        BY <1>2 DEF ItemKnown
    <2>. HIDE DEF x
    <2>5. /\ WriterShape(v) /\ v.items = Append(w.items, x) /\ FramesOpen(v.out, Append(w.items, x))
          /\ v.closed = w.closed /\ v.usage = w.usage
        BY <2>3, ItemAddedIs
    <2>. HIDE DEF v
    <2>. QED  BY <2>2, <2>4, <2>5
<1>. QED  BY <1>1, <1>2

\* A Responses writer takes a delta in these steps.
LEMMA ResponsesIs ==
    ASSUME NEW w, NEW e, e.type \in {"text", "call"}
    PROVE  Responses(w, e) =
              Delta(ItemKnown(ResponsesBegun(w), e), KindOf(e), IndexOf(e), e)
BY DEF Responses, ItemKnown, ResponsesBegun, KindOf, IndexOf, FreshItem, PlaceOfNew

\* A delta leaves a Responses stream open, for the answer that has grown.
LEMMA ResponsesGrow ==
    ASSUME NEW w, NEW a, ResponsesOpen(w, a), AnswerShape(a), NEW e, IsEvent(e), Fits(a, e),
           e.type \in {"text", "call"}
    PROVE  ResponsesOpen(Responses(w, e), Capture(a, e)) /\ Responses(w, e).closed = w.closed
<1>. DEFINE b == ResponsesBegun(w)
            v == ItemKnown(b, e)
            d == Delta(v, KindOf(e), IndexOf(e), e)
            K == v.items
<1>1. /\ WriterShape(b) /\ FramesOpen(b.out, b.items) /\ b.items = w.items /\ b.closed = w.closed
      /\ b.usage = w.usage
    BY BegunIs DEF ResponsesOpen
<1>2. Responses(w, e) = d
    BY ResponsesIs
<1>. HIDE DEF b
<1>3. ItemsShape(b.items) /\ Carries(b.items, a)
    BY <1>1 DEF ResponsesOpen
<1>4. /\ WriterShape(v) /\ FramesOpen(v.out, v.items) /\ v.closed = w.closed /\ v.usage = w.usage
      /\ \E p : PlaceOf(p, v.items, b.items, e)
    BY <1>1, <1>3, KnownIs
<1>. HIDE DEF v, d
<1>5. PICK p : PlaceOf(p, K, b.items, e)
    BY <1>4
<1>6. ItemsShape(K) /\ p \in DOMAIN K /\ K[p].kind = KindOf(e) /\ K[p].index = IndexOf(e)
    BY <1>5 DEF PlaceOf
<1>. DEFINE x == Grown(K[p], e)
            L == [K EXCEPT ![p] = x]
            f == [frame |-> "delta", at |-> p - 1, kind |-> KindOf(e), args |-> More(e)]
<1>7. ItemsShape(L) /\ Carries(L, Capture(a, e))
    BY <1>3, <1>5, ItemsCarried
<1>8. e.type # "text" => e.name \in {None, K[p].name}
    BY <1>3, <1>5, ItemCarried
<1>9. /\ WriterShape(d) /\ d.items = L /\ d.closed = v.closed /\ d.usage = v.usage
      /\ Quiet(x) => d.out = v.out
      /\ ~Quiet(x) => d.out = Append(v.out, f)
    <2>. HIDE DEF x
    <2>1. x = Grown(v.items[p], e)
        BY DEF x
    <2>. QED  BY <1>4, <1>6, <1>8, <2>1, DeltaIs DEF d
<1>10. FramesOpen(d.out, L)
    <2>1. More(e) \in Seq(Letters)
        BY DEF IsEvent, Legible, More
    <2>2. K[p].args \in Seq(Letters)
        BY <1>6 DEF ItemsShape, ItemShape
    <2>3. /\ Quiet(K[p]) => FramesOpen(v.out, L)
          /\ ~Quiet(K[p]) => FramesOpen(Append(v.out, f), L)
        <3>1. IsList(K) /\ f = [frame |-> "delta", at |-> p - 1, kind |-> K[p].kind, args |-> More(e)]
            BY <1>6 DEF ItemsShape
        <3>. HIDE DEF f
        <3>. QED  BY <1>4, <1>6, <2>1, <2>2, <3>1, FrameGrown
    <2>4. Quiet(x) <=> Quiet(K[p])
        BY DEF Grown, Quiet
    <2>. HIDE DEF x, L, f
    <2>. QED  BY <1>9, <2>3, <2>4
<1>11. Capture(a, e).usage = a.usage /\ w.usage = a.usage
    BY CaptureFields DEF ResponsesOpen
<1>. HIDE DEF L
<1>. QED  BY <1>2, <1>4, <1>7, <1>9, <1>10, <1>11 DEF ResponsesOpen

\* Items carry whatever has the same text and calls.
LEMMA CarriesSame ==
    ASSUME NEW K, NEW a, Carries(K, a), NEW b, b.calls = a.calls, b.text = a.text
    PROVE  Carries(K, b)
BY DEF Carries

\* A Responses writer follows the capture by one event that is not done.
LEMMA ResponsesStep ==
    ASSUME NEW w, NEW a, ResponsesOpen(w, a), AnswerShape(a), NEW e, IsEvent(e), Fits(a, e), e.type # "done"
    PROVE  ResponsesOpen(Responses(w, e), Capture(a, e)) /\ Responses(w, e).closed = w.closed
<1>1. CASE e.type \in {"text", "call"}
    BY <1>1, ResponsesGrow
<1>2. CASE e.type = "message_start"
    <2>1. Responses(w, e) = ResponsesBegun(w)
        BY <1>2 DEF Responses, ResponsesBegun
    <2>2. Capture(a, e) = a
        BY <1>2, CaptureParts
    <2>. QED  BY <2>1, <2>2, BegunIs DEF ResponsesOpen
<1>3. CASE e.type = "usage"
    <2>. DEFINE x == e.usage
                v == [w EXCEPT !.usage = x]
    <2>1. Responses(w, e) = v
        BY <1>3 DEF Responses
    <2>2. Capture(a, e).calls = a.calls /\ Capture(a, e).text = a.text /\ Capture(a, e).usage = x
        BY <1>3, CaptureFields
    <2>3. Carries(w.items, Capture(a, e))
        BY <2>2, CarriesSame DEF ResponsesOpen
    <2>4. RecordShape(w)
        BY DEF ResponsesOpen, WriterShape
    <2>. HIDE DEF x
    <2>5. ButFor("usage", v, w) /\ v.usage = x
        BY <2>4, WithField
    <2>. HIDE DEF v
    <2>6. WriterShape(v) /\ v.out = w.out /\ v.items = w.items /\ v.closed = w.closed
        BY <2>5 DEF ButFor, WriterShape, ResponsesOpen
    <2>. QED  BY <2>1, <2>2, <2>3, <2>5, <2>6 DEF ResponsesOpen
<1>. QED  BY <1>1, <1>2, <1>3 DEF IsEvent

(* ------------------------------ the last frames ------------------------- *)

\* The elements of two lists put together.
LEMMA ConcatIs ==
    ASSUME NEW s, IsList(s), NEW t, IsList(t), NEW u, u = s \o t
    PROVE  /\ IsList(u) /\ Len(u) = Len(s) + Len(t) /\ DOMAIN u = 1 .. (Len(s) + Len(t))
           /\ \A i \in 1 .. Len(s) : u[i] = s[i]
           /\ \A i \in 1 .. Len(t) : u[Len(s) + i] = t[i]
           /\ Len(s) \in Nat /\ Len(t) \in Nat /\ DOMAIN s = 1 .. Len(s) /\ DOMAIN t = 1 .. Len(t)
<1>. DEFINE A == ToSet(s) \cup ToSet(t)
<1>1. s \in Seq(A) /\ t \in Seq(A)
    BY DEF IsList
<1>2. IsList(u)
    BY ListConcat
<1>3. /\ Len(u) = Len(s) + Len(t) /\ DOMAIN u = 1 .. (Len(s) + Len(t))
      /\ \A i \in 1 .. Len(s) : u[i] = s[i]
      /\ \A i \in 1 .. Len(t) : u[Len(s) + i] = t[i]
      /\ Len(s) \in Nat /\ Len(t) \in Nat /\ DOMAIN s = 1 .. Len(s) /\ DOMAIN t = 1 .. Len(t)
    <2>. HIDE DEF A
    <2>. QED  BY <1>1
<1>. QED  BY <1>2, <1>3

LEMMA ConcatLen ==
    ASSUME NEW s, IsList(s), NEW t, IsList(t), NEW u, u = s \o t
    PROVE  Len(u) = Len(s) + Len(t)
BY ConcatIs

LEMMA ConcatDomain ==
    ASSUME NEW s, IsList(s), NEW t, IsList(t), NEW u, u = s \o t
    PROVE  DOMAIN u = 1 .. (Len(s) + Len(t))
BY ConcatIs

\* Frames without arguments add none to the sums.
LEMMA SumsStay ==
    ASSUME NEW s, IsList(s), NEW t, IsList(t), \A f \in ToSet(t) : f.frame # "delta"
    PROVE  Sums(s \o t) = Sums(s)
<1>. DEFINE A == ToSet(s) \cup ToSet(t)
<1>1. s \in Seq(A) /\ t \in Seq(A) /\ t \in Seq(ToSet(t))
    BY DEF IsList
<1>2. Sums(s \o t) = Summing!Folded(Sums(s), t)
    <2>. HIDE DEF A
    <2>. QED  BY <1>1, SumFold, Summing!FoldConcat, NumbersWellOrdered
<1>. DEFINE R == {Sums(s)}
<1>3. Sums(s) \in R /\ \A r \in R : \A f \in ToSet(t) : AddDelta(r, f) \in R
    BY DEF AddDelta
<1>4. Summing!Folded(Sums(s), t) \in R
    <2>. HIDE DEF R
    <2>. QED  BY <1>1, <1>3, Summing!FoldStays, NumbersWellOrdered
<1>. QED  BY <1>2, <1>4

\* A list of one.
LEMMA OneList ==
    ASSUME NEW x
    PROVE  IsList(<<x>>) /\ ToSet(<<x>>) = {x} /\ Len(<<x>>) = 1 /\ <<x>>[1] = x
<1>1. <<x>> \in Seq({x})
    OBVIOUS
<1>2. IsList(<<x>>)
    BY <1>1, ListIs
<1>3. ToSet(<<x>>) = {x}
    BY DEF ToSet
<1>. QED  BY <1>2, <1>3

\* A list made from a list, item by item.
LEMMA ListMade ==
    ASSUME NEW K, IsList(K), NEW D, DOMAIN D = DOMAIN K, D = [k \in DOMAIN K |-> D[k]]
    PROVE  IsList(D) /\ Len(D) = Len(K)
<1>1. Len(K) \in Nat /\ DOMAIN K = 1 .. Len(K)
    BY ListAppend
<1>. DEFINE A == ToSet(D)
<1>2. \A k \in DOMAIN K : D[k] \in A
    BY DEF ToSet
<1>3. D \in Seq(A) /\ Len(D) = Len(K)
    <2>. HIDE DEF A
    <2>1. D \in [1 .. Len(K) -> A]
        BY <1>1, <1>2
    <2>. QED  BY <1>1, <2>1
<1>. QED  BY <1>3 DEF IsList

(* what ResponsesFramesLegal says of the frames *)
DoneAt(out, at) == {k \in DOMAIN out : out[k].frame = "item.done" /\ out[k].at = at}
CompletedLast(out) ==
    \A k \in DOMAIN out : out[k].frame = "completed" =>
        /\ k = Len(out)
        /\ \A j \in DOMAIN out : out[j].frame = "item.added" =>
             /\ Cardinality(DoneAt(out, out[j].at)) = 1
             /\ LET item == out[CHOOSE d \in DoneAt(out, out[j].at) : TRUE].item
                IN  /\ out[k].output[out[j].at + 1] = item
                    /\ item.type # "custom_tool_call" => item.args = SumAt(out, out[j].at)
FramesLegal(out) == AddedFirst(out) /\ AddedOnce(out) /\ CompletedLast(out)

\* The property in terms of the frames alone.
LEMMA LegalFrames ==
    ASSUME turn.route = "openai_responses" => FramesLegal(writer.out)
    PROVE  ResponsesFramesLegal
BY DEF ResponsesFramesLegal, FramesLegal, AddedFirst, AddedOnce, CompletedLast, DoneAt

\* The frames of an open stream are legal.
LEMMA OpenFramesLegal ==
    ASSUME NEW out, NEW K, FramesOpen(out, K)
    PROVE  FramesLegal(out)
<1>1. CompletedLast(out)
    BY DEF FramesOpen, FramesKnown, CompletedLast
<1>. QED  BY <1>1 DEF FramesOpen, FramesLegal

\* Only a custom tool call is quiet: all else has streamed its arguments.
LEMMA QuietItem ==
    ASSUME NEW x, ItemShape(x), CompletedItem(x).type # "custom_tool_call"
    PROVE  CompletedItem(x).args = x.args /\ ~Quiet(x)
<1>1. CASE x.kind = "text"
    BY <1>1 DEF CompletedItem, Quiet
<1>2. CASE x.kind = "tool"
    <2>. DEFINE c == [id |-> x.id, name |-> x.name, args |-> x.args]
    <2>1. CompletedItem(x) = ToolItem(c)
        BY <1>2 DEF CompletedItem
    <2>2. c.name = x.name /\ c.args = x.args
        OBVIOUS
    <2>. HIDE DEF c
    <2>3. CASE AdapterOf(c.name) # None /\ AdapterOf(c.name).type = "custom"
        BY <2>1, <2>3 DEF ToolItem
    <2>4. CASE ~(AdapterOf(c.name) # None /\ AdapterOf(c.name).type = "custom")
        BY <2>1, <2>2, <2>4 DEF ToolItem, Quiet
    <2>. QED  BY <2>3, <2>4
<1>. QED  BY <1>1, <1>2 DEF ItemShape

\* The frames that end a stream with the items K.
LastFrames(K, D, c) ==
    /\ IsList(D) /\ Len(D) = Len(K)
    /\ \A k \in DOMAIN K : /\ D[k].frame = "item.done" /\ D[k].at = K[k].at
                           /\ D[k].item = CompletedItem(K[k])
    /\ c.frame = "completed" /\ \A k \in DOMAIN K : c.output[k] = CompletedItem(K[k])

EndsWith(out, f) == Last(out) = f

\* The last frames, after those of an open stream, make a legal stream.
LEMMA ClosedLegal ==
    ASSUME NEW B, NEW K, FramesOpen(B, K), ItemsShape(K), NEW D, NEW c, LastFrames(K, D, c),
           NEW O, O = B \o (D \o <<c>>)
    PROVE  IsList(O) /\ FramesLegal(O) /\ EndsWith(O, c)
<1>0. /\ IsList(D) /\ Len(D) = Len(K)
      /\ \A k \in DOMAIN K : /\ D[k].frame = "item.done" /\ D[k].at = K[k].at
                             /\ D[k].item = CompletedItem(K[k])
      /\ c.frame = "completed" /\ \A k \in DOMAIN K : c.output[k] = CompletedItem(K[k])
    BY DEF LastFrames
<1>. DEFINE m == Len(B)
            n == Len(K)
            T == D \o <<c>>
<1>1. IsList(B) /\ m \in Nat /\ DOMAIN B = 1 .. m
    BY ListAppend DEF FramesOpen, FramesKnown
<1>2. IsList(D) /\ Len(D) = n /\ n \in Nat /\ DOMAIN K = 1 .. n
    <2>1. IsList(K)
        BY DEF ItemsShape
    <2>. QED  BY <1>0, <2>1, ListAppend
<1>3. IsList(<<c>>) /\ Len(<<c>>) = 1 /\ <<c>>[1] = c
    BY OneList
<1>. DEFINE e == <<c>>
<1>4. /\ IsList(T) /\ Len(T) = n + 1 /\ \A i \in 1 .. n : T[i] = D[i]
      /\ T[n + 1] = c
    <2>1. T = D \o e /\ IsList(e) /\ Len(e) = 1 /\ e[1] = c
        BY <1>3
    <2>5. T = D \o e /\ IsList(e) /\ IsList(D)
        BY <1>2, <2>1
    <2>. HIDE DEF T, e, n
    <2>2. IsList(T)
        BY <2>5, ConcatIs
    <2>6. Len(T) = Len(D) + Len(e)
        BY <2>5, ConcatLen
    <2>3. \A i \in 1 .. Len(D) : T[i] = D[i]
        BY <2>5, ConcatIs
    <2>4. \A i \in 1 .. Len(e) : T[Len(D) + i] = e[i]
        BY <2>5, ConcatIs
    <2>. QED  BY <1>2, <2>1, <2>2, <2>3, <2>4, <2>6
<1>. HIDE DEF e
<1>5. /\ IsList(O) /\ Len(O) = m + n + 1 /\ DOMAIN O = 1 .. (m + n + 1)
      /\ \A i \in 1 .. m : O[i] = B[i]
      /\ \A i \in 1 .. (n + 1) : O[m + i] = T[i]
    <2>1. O = B \o T /\ IsList(B) /\ IsList(T)
        BY <1>1, <1>4 DEF T
    <2>. HIDE DEF T, n, m
    <2>2. IsList(O)
        BY <2>1, ConcatIs
    <2>6. Len(O) = Len(B) + Len(T)
        BY <2>1, ConcatLen
    <2>7. DOMAIN O = 1 .. (Len(B) + Len(T))
        BY <2>1, ConcatDomain
    <2>4. \A i \in 1 .. Len(B) : O[i] = B[i]
        BY <2>1, ConcatIs
    <2>5. \A i \in 1 .. Len(T) : O[Len(B) + i] = T[i]
        BY <2>1, ConcatIs
    <2>3. Len(B) + Len(T) = m + n + 1
        BY <1>1, <1>2, <1>4 DEF m
    <2>. QED  BY <1>4, <2>2, <2>3, <2>4, <2>5, <2>6, <2>7 DEF m
<1>. HIDE DEF T, m, n
<1>6. /\ \A i \in 1 .. n : O[m + i].frame = "item.done" /\ O[m + i].at = i - 1
                           /\ O[m + i].item = CompletedItem(K[i])
      /\ O[m + n + 1] = c
    <2>1. ASSUME NEW i \in 1 .. n
          PROVE  O[m + i].frame = "item.done" /\ O[m + i].at = i - 1 /\ O[m + i].item = CompletedItem(K[i])
        <3>1. O[m + i] = D[i]
            <4>1. i \in 1 .. (n + 1)
                BY <1>2
            <4>2. T[i] = D[i]
                BY <1>4 DEF n
            <4>. QED  BY <1>5, <4>1, <4>2
        <3>2. K[i].at = i - 1
            BY <1>2 DEF ItemsShape
        <3>. QED  BY <1>0, <1>2, <3>1, <3>2
    <2>2. O[m + (n + 1)] = T[n + 1] /\ m + (n + 1) = m + n + 1
        BY <1>1, <1>2, <1>5
    <2>. QED  BY <1>4, <2>1, <2>2
<1>7. ASSUME NEW k \in DOMAIN O
      PROVE  \/ k \in 1 .. m /\ O[k] = B[k]
             \/ \E i \in 1 .. n : k = m + i
             \/ k = m + n + 1
    <2>1. k \in 1 .. m \/ k - m \in 1 .. n \/ k = m + n + 1
        BY <1>1, <1>2, <1>5
    <2>2. k = m + (k - m)
        BY <1>1, <1>5
    <2>. QED  BY <1>5, <2>1, <2>2
<1>8. \A k \in DOMAIN O : O[k].frame \in {"item.added", "delta"} => k \in 1 .. m /\ O[k] = B[k]
    BY <1>0, <1>6, <1>7
<1>9. AddedFirst(O)
    <2>. SUFFICES ASSUME NEW k \in DOMAIN O, O[k].frame = "delta"
                  PROVE  \E j \in 1 .. (k - 1) :
                            O[j].frame = "item.added" /\ O[j].at = O[k].at /\ O[j].kind = O[k].kind
        BY DEF AddedFirst
    <2>1. k \in 1 .. m /\ O[k] = B[k]
        BY <1>8
    <2>2. PICK j \in 1 .. (k - 1) : B[j].frame = "item.added" /\ B[j].at = B[k].at /\ B[j].kind = B[k].kind
        BY <1>1, <2>1 DEF FramesOpen, AddedFirst
    <2>3. O[j] = B[j]
        BY <1>1, <1>5, <2>1
    <2>. QED  BY <2>1, <2>2, <2>3
<1>10. AddedOnce(O)
    <2>. SUFFICES ASSUME NEW j \in DOMAIN O, NEW k \in DOMAIN O,
                         O[j].frame = "item.added", O[k].frame = "item.added", O[j].at = O[k].at
                  PROVE  j = k
        BY DEF AddedOnce
    <2>1. j \in 1 .. m /\ O[j] = B[j] /\ k \in 1 .. m /\ O[k] = B[k]
        BY <1>8
    <2>. QED  BY <1>1, <2>1 DEF FramesOpen, AddedOnce
<1>11. Sums(O) = Sums(B)
    <2>1. \A f \in ToSet(T) : f.frame # "delta"
        <3>. SUFFICES ASSUME NEW f \in ToSet(T)  PROVE f.frame # "delta"
            OBVIOUS
        <3>1. PICK i \in DOMAIN T : f = T[i]
            BY DEF ToSet
        <3>2. DOMAIN T = 1 .. (n + 1)
            BY <1>4, ListAppend
        <3>3. CASE i \in 1 .. n
            <4>1. T[i] = D[i]
                BY <1>4, <3>3 DEF n
            <4>. QED  BY <1>0, <1>2, <3>1, <3>3, <4>1
        <3>4. CASE i = n + 1
            <4>1. T[i] = c
                BY <1>4, <3>4 DEF n
            <4>. QED  BY <1>0, <3>1, <4>1
        <3>. QED  BY <1>2, <3>2, <3>3, <3>4
    <2>2. O = B \o T
        BY DEF T
    <2>3. Sums(B \o T) = Sums(B)
        BY <1>1, <1>4, <2>1, SumsStay
    <2>. QED  BY <2>2, <2>3
<1>12. CompletedLast(O)
    <2>. SUFFICES ASSUME NEW k \in DOMAIN O, O[k].frame = "completed"
                  PROVE  /\ k = Len(O)
                         /\ \A j \in DOMAIN O : O[j].frame = "item.added" =>
                              /\ Cardinality(DoneAt(O, O[j].at)) = 1
                              /\ LET item == O[CHOOSE d \in DoneAt(O, O[j].at) : TRUE].item
                                 IN  /\ O[k].output[O[j].at + 1] = item
                                     /\ item.type # "custom_tool_call" => item.args = SumAt(O, O[j].at)
        BY DEF CompletedLast
    <2>1. \A i \in 1 .. m : O[i].frame # "completed"
        BY <1>1, <1>5 DEF FramesOpen, FramesKnown
    <2>2. k = m + n + 1 /\ k = Len(O) /\ O[k] = c
        BY <1>0, <1>5, <1>6, <1>7, <2>1
    <2>3. ASSUME NEW j \in DOMAIN O, O[j].frame = "item.added"
          PROVE  /\ Cardinality(DoneAt(O, O[j].at)) = 1
                 /\ LET item == O[CHOOSE d \in DoneAt(O, O[j].at) : TRUE].item
                    IN  /\ O[k].output[O[j].at + 1] = item
                        /\ item.type # "custom_tool_call" => item.args = SumAt(O, O[j].at)
        <3>. DEFINE at == O[j].at
                    p == at + 1
        <3>1. j \in 1 .. m /\ O[j] = B[j]
            BY <1>8, <2>3
        <3>2. at \in Nat /\ p \in 1 .. n
            BY <1>1, <1>2, <2>3, <3>1 DEF FramesOpen, FramesAdd
        <3>. HIDE DEF at
        <3>3. DoneAt(O, at) = {m + p}
            <4>1. m + p \in DOMAIN O
                BY <1>1, <1>2, <1>5, <3>2
            <4>2. O[m + p].frame = "item.done" /\ O[m + p].at = at
                <5>1. O[m + p].frame = "item.done" /\ O[m + p].at = p - 1
                    BY <1>6, <3>2
                <5>2. p - 1 = at
                    BY <3>2
                <5>. QED  BY <5>1, <5>2
            <4>3. ASSUME NEW d \in DOMAIN O, O[d].frame = "item.done", O[d].at = at  PROVE d = m + p
                <5>1. d \notin 1 .. m
                    BY <1>1, <1>5, <4>3 DEF FramesOpen, FramesKnown
                <5>2. d # m + n + 1
                    BY <1>0, <1>6, <4>3
                <5>3. PICK i \in 1 .. n : d = m + i
                    BY <1>7, <5>1, <5>2
                <5>4. i - 1 = at
                    BY <1>6, <4>3, <5>3
                <5>5. i = p
                    BY <1>2, <3>2, <5>4
                <5>. QED  BY <5>3, <5>5
            <4>. QED  BY <4>1, <4>2, <4>3 DEF DoneAt
        <3>4. Cardinality(DoneAt(O, at)) = 1
            BY <3>3, FS_Singleton
        <3>5. (CHOOSE d \in DoneAt(O, at) : TRUE) = m + p
            BY <3>3
        <3>. DEFINE item == O[CHOOSE d \in DoneAt(O, at) : TRUE].item
        <3>6. item = CompletedItem(K[p])
            BY <1>6, <3>2, <3>5
        <3>. HIDE DEF item
        <3>7. O[k].output[p] = item
            BY <1>0, <1>2, <2>2, <3>2, <3>6
        <3>8. ASSUME item.type # "custom_tool_call"  PROVE item.args = SumAt(O, at)
            <4>1. ItemShape(K[p])
                BY <1>2, <3>2 DEF ItemsShape
            <4>2. item.args = K[p].args /\ ~Quiet(K[p])
                BY <3>6, <3>8, <4>1, QuietItem
            <4>3. SumAt(B, p - 1) = K[p].args
                BY <1>2, <3>2, <4>2 DEF FramesOpen, FramesSum
            <4>4. p - 1 = at
                BY <3>2
            <4>5. SumAt(O, at) = SumAt(B, at)
                BY <1>11 DEF SumAt
            <4>. QED  BY <4>2, <4>3, <4>4, <4>5
        <3>. QED  BY <3>4, <3>7, <3>8 DEF at, item
    <2>. QED  BY <2>2, <2>3
<1>13. Last(O) = c
    BY <1>5, <1>6 DEF Last
<1>. QED  BY <1>5, <1>9, <1>10, <1>12, <1>13 DEF FramesLegal, EndsWith

ResponsesShut(w, a) ==
    /\ FramesLegal(w.out) /\ ItemsShape(w.items) /\ Carries(w.items, a)
    /\ Last(w.out).output = [k \in DOMAIN w.items |-> CompletedItem(w.items[k])]
    /\ Last(w.out).usage = Counted(a.usage)

\* Done shuts a Responses stream.
LEMMA ResponsesEnd ==
    ASSUME NEW w, NEW a, ResponsesOpen(w, a), AnswerShape(a), NEW e, IsEvent(e), e.type = "done"
    PROVE  ResponsesShut(Responses(w, e), Capture(a, e)) /\ Responses(w, e).closed = TRUE
<1>. DEFINE b == ResponsesBegun(w)
            K == w.items
            D == [k \in DOMAIN w.items |-> [frame |-> "item.done", at |-> w.items[k].at,
                                            item |-> CompletedItem(w.items[k])]]
            y == [k \in DOMAIN w.items |-> CompletedItem(w.items[k])]
            u == Counted(w.usage)
            c == [frame |-> "completed", usage |-> u, output |-> y]
            O == b.out \o (D \o <<c>>)
            v == [b EXCEPT !.out = O]
            t == [v EXCEPT !.closed = TRUE]
<1>1. Responses(w, e) = Closed(b, D \o <<c>>)
    BY DEF Responses, ResponsesBegun
<1>2. Responses(w, e) = t
    BY <1>1 DEF Closed, Emit
<1>3. /\ WriterShape(b) /\ FramesOpen(b.out, K) /\ b.items = K
    BY BegunIs DEF ResponsesOpen
<1>4. ItemsShape(K) /\ Carries(K, a)
    BY DEF ResponsesOpen
<1>5. IsList(D) /\ Len(D) = Len(K)
    <2>1. DOMAIN D = DOMAIN K /\ D = [k \in DOMAIN K |-> D[k]]
        OBVIOUS
    <2>2. IsList(K)
        BY <1>4 DEF ItemsShape
    <2>. HIDE DEF D, K
    <2>. QED  BY <2>1, <2>2, ListMade
<1>6. \A k \in DOMAIN K : /\ D[k].frame = "item.done" /\ D[k].at = K[k].at
                          /\ D[k].item = CompletedItem(K[k])
    OBVIOUS
<1>7. c.frame = "completed" /\ c.output = y /\ c.usage = u /\ \A k \in DOMAIN K : c.output[k] = CompletedItem(K[k])
    OBVIOUS
<1>. HIDE DEF b, D, c
<1>8. IsList(O) /\ FramesLegal(O) /\ Last(O) = c
    <2>1. O = b.out \o (D \o <<c>>)
        OBVIOUS
    <2>2. LastFrames(K, D, c)
        BY <1>5, <1>6, <1>7 DEF LastFrames
    <2>3. FramesOpen(b.out, K) /\ ItemsShape(K)
        BY <1>3, <1>4
    <2>. HIDE DEF K, O
    <2>4. IsList(O)
        BY <2>1, <2>2, <2>3, ClosedLegal
    <2>5. FramesLegal(O)
        BY <2>1, <2>2, <2>3, ClosedLegal
    <2>6. EndsWith(O, c)
        BY <2>1, <2>2, <2>3, ClosedLegal
    <2>. QED  BY <2>4, <2>5, <2>6 DEF EndsWith
<1>. HIDE DEF O
<1>9. RecordShape(b)
    BY <1>3 DEF WriterShape
<1>10. ButFor("out", v, b) /\ v.out = O
    BY <1>9, WithField
<1>. HIDE DEF v
<1>11. RecordShape(v)
    BY <1>10 DEF ButFor
<1>12. ButFor("closed", t, v) /\ t.closed = TRUE
    BY <1>11, WithField
<1>. HIDE DEF t
<1>13. t.out = O /\ t.items = K
    BY <1>3, <1>10, <1>12 DEF ButFor
<1>14. Carries(K, Capture(a, e))
    <2>1. Capture(a, e).calls = a.calls /\ Capture(a, e).text = a.text
        BY CaptureFields
    <2>. QED  BY <1>4, <2>1, CarriesSame
<1>15. Last(t.out).output = [k \in DOMAIN t.items |-> CompletedItem(t.items[k])]
    BY <1>7, <1>8, <1>13
<1>16. Capture(a, e).usage = w.usage
    BY CaptureFields DEF ResponsesOpen
<1>17. Last(t.out).usage = u
    BY <1>7, <1>8, <1>13
<1>. QED  BY <1>2, <1>4, <1>8, <1>12, <1>13, <1>14, <1>15, <1>16, <1>17 DEF ResponsesShut

\* The last frame lists every item.
LEMMA OutputIs ==
    ASSUME NEW w, NEW a, ResponsesShut(w, a)
    PROVE  ToSet(Last(w.out).output) = {CompletedItem(w.items[k]) : k \in DOMAIN w.items}
BY DEF ResponsesShut, ToSet

\* {} is no empty list and wraps nothing.
LEMMA EmptyIsNone == EmptyObject # << >> /\ ~Wrapped(<< >>) /\ ~Wrapped(EmptyObject)
<1>1. EmptyObject # << >> /\ Len(EmptyObject) = 1 /\ Len(<< >>) = 0
    BY DEF EmptyObject
<1>. QED  BY <1>1 DEF Wrapped

\* Empty arguments come out as {} whether they are filled in before or after.
LEMMA FilledEither ==
    ASSUME NEW c, CallShape(c)
    PROVE  WithArgs(ToolItem(WithArgs(c))) = WithArgs(ToolItem(c))
<1>1. CASE c.args # << >>
    <2>1. WithArgs(c) = c
        BY <1>1 DEF WithArgs, CallShape
    <2>. QED  BY <2>1
<1>2. CASE c.args = << >>
    <2>. DEFINE d == WithArgs(c)
                a == AdapterOf(c.name)
    <2>1. d = [c EXCEPT !.args = EmptyObject]
        BY <1>2 DEF WithArgs
    <2>2. d.id = c.id /\ d.name = c.name /\ d.args = EmptyObject
        BY <2>1 DEF CallShape
    <2>. HIDE DEF d
    <2>3. CASE a # None /\ a.type = "custom"
        <3>1. /\ ToolItem(d) = [type |-> "custom_tool_call", id |-> c.id, name |-> a.name, namespace |-> None,
                                args |-> Unwrap(EmptyObject)]
              /\ ToolItem(c) = [type |-> "custom_tool_call", id |-> c.id, name |-> a.name, namespace |-> None,
                                args |-> Unwrap(<< >>)]
            BY <1>2, <2>2, <2>3 DEF ToolItem
        <3>2. Unwrap(EmptyObject) = EmptyObject /\ Unwrap(<< >>) = << >>
            BY EmptyIsNone DEF Unwrap
        <3>. DEFINE n == a.name
        <3>3. /\ ToolItem(d) = [type |-> "custom_tool_call", id |-> c.id, name |-> n, namespace |-> None,
                                args |-> EmptyObject]
              /\ ToolItem(c) = [type |-> "custom_tool_call", id |-> c.id, name |-> n, namespace |-> None,
                                args |-> << >>]
            BY <3>1, <3>2
        <3>. HIDE DEF n
        <3>. QED  BY <3>3, EmptyIsNone DEF WithArgs, d
    <2>4. CASE ~(a # None /\ a.type = "custom")
        <3>. DEFINE n == IF a = None THEN c.name ELSE a.name
                    s == IF a = None THEN None ELSE a.namespace
        <3>1. /\ ToolItem(d) = [type |-> "function_call", id |-> c.id, name |-> n, namespace |-> s,
                                args |-> EmptyObject]
              /\ ToolItem(c) = [type |-> "function_call", id |-> c.id, name |-> n, namespace |-> s,
                                args |-> << >>]
            BY <1>2, <2>2, <2>4 DEF ToolItem
        <3>. HIDE DEF n, s
        <3>. QED  BY <3>1, EmptyIsNone DEF WithArgs, d
    <2>. QED  BY <2>3, <2>4
<1>. QED  BY <1>1, <1>2

(* ------------------------- a writer and its events ---------------------- *)

\* What the frames of a writer have to do with the answer captured from the same events.
Follows(w, a) ==
    /\ w.closed \in BOOLEAN
    /\ turn.route = "openai_responses" =>
         (w.closed => ResponsesShut(w, a)) /\ (~w.closed => ResponsesOpen(w, a))
    /\ turn.route = "anthropic_messages" => WriterShape(w) /\ Told(w, a)
    /\ turn.route \notin {"openai_responses", "anthropic_messages"} => WriterShape(w) /\ ReadAll(w.out) = a

\* Whatever the route, a writer follows the capture by one event.
LEMMA FollowsOn ==
    ASSUME NEW w, NEW a, AnswerShape(a), Follows(w, a), ~w.closed, NEW e, IsEvent(e), Fits(a, e)
    PROVE  Follows(Write(w, e), Capture(a, e)) /\ Write(w, e).closed = (e.type = "done")
<1>1. CASE turn.route = "openai_responses"
    <2>1. Write(w, e) = Responses(w, e) /\ ResponsesOpen(w, a)
        BY <1>1 DEF Write, Follows
    <2>2. CASE e.type = "done"
        <3>1. ResponsesShut(Responses(w, e), Capture(a, e)) /\ Responses(w, e).closed = TRUE
            BY <2>1, <2>2, ResponsesEnd
        <3>. QED  BY <1>1, <2>1, <2>2, <3>1 DEF Follows
    <2>3. CASE e.type # "done"
        <3>1. ResponsesOpen(Responses(w, e), Capture(a, e)) /\ Responses(w, e).closed = w.closed
            BY <2>1, <2>3, ResponsesStep
        <3>2. w.closed = FALSE
            BY DEF Follows
        <3>. QED  BY <1>1, <2>1, <2>3, <3>1, <3>2 DEF Follows
    <2>. QED  BY <2>2, <2>3
<1>2. CASE turn.route = "anthropic_messages"
    <2>1. Write(w, e) = Anthropic(w, e) /\ WriterShape(w) /\ Told(w, a)
        BY <1>2 DEF Write, Follows
    <2>2. WriterShape(Anthropic(w, e)) /\ Anthropic(w, e).closed = (e.type = "done")
            /\ Told(Anthropic(w, e), Capture(a, e))
        BY <2>1, AnthropicStep
    <2>. QED  BY <1>2, <2>1, <2>2 DEF Follows
<1>3. CASE turn.route \notin {"openai_responses", "anthropic_messages"}
    <2>1. Write(w, e) = Chat(w, e) /\ WriterShape(w) /\ ReadAll(w.out) = a
        BY <1>3 DEF Write, Follows
    <2>2. WriterShape(Chat(w, e)) /\ Chat(w, e).closed = (e.type = "done")
            /\ ReadAll(Chat(w, e).out) = Capture(a, e)
        BY <2>1, ChatStep
    <2>. QED  BY <1>3, <2>1, <2>2 DEF Follows
<1>. QED  BY <1>1, <1>2, <1>3

OnWay(es, w) == EventsOK(es) /\ Follows(w, CaptureAll(es))

\* A new writer follows no events.
LEMMA WayStarts == OnWay(<< >>, NewWriter) /\ NewWriter.closed = FALSE
<1>1. EventsOK(<< >>)
    BY EmptyList, FoldsOfNone DEF EventsOK
<1>2. CaptureAll(<< >>) = NoAnswer /\ ReadAll(<< >>) = NoAnswer /\ Sums(<< >>) = << >>
    BY FoldsOfNone
<1>3. /\ NewWriter.out = << >> /\ NewWriter.items = << >> /\ NewWriter.closed = FALSE
      /\ WriterShape(NewWriter)
    BY EmptyList DEF NewWriter, WriterShape, RecordShape
<1>4. ItemsShape(<< >>)
    BY EmptyList DEF ItemsShape
<1>5. Carries(<< >>, NoAnswer)
    BY DEF Carries, NoAnswer
<1>6. FramesOpen(<< >>, << >>)
    BY <1>2, EmptyList DEF FramesOpen, FramesKnown, FramesAdd, AddedOnce, AddedFirst, FramesSum
<1>7. ResponsesOpen(NewWriter, NoAnswer)
    <2>1. NewWriter.usage = NoAnswer.usage
        BY DEF NewWriter, NoAnswer
    <2>. QED  BY <1>3, <1>4, <1>5, <1>6, <2>1 DEF ResponsesOpen
<1>8. Told(NewWriter, NoAnswer)
    BY <1>2, <1>3 DEF Told, Said, OutputOnly, NoAnswer
<1>9. Follows(NewWriter, NoAnswer)
    BY <1>2, <1>3, <1>7, <1>8 DEF Follows
<1>. QED  BY <1>1, <1>2, <1>3, <1>9 DEF OnWay

\* One event more on its way.
LEMMA WayOn ==
    ASSUME NEW es, NEW w, OnWay(es, w), ~w.closed, NEW e, IsEvent(e), Fits(CaptureAll(es), e)
    PROVE  OnWay(Append(es, e), Write(w, e)) /\ Write(w, e).closed = (e.type = "done")
<1>1. EventsOK(Append(es, e)) /\ CaptureAll(Append(es, e)) = Capture(CaptureAll(es), e)
    BY EventAdded DEF OnWay
<1>2. AnswerShape(CaptureAll(es))
    BY EventsShaped DEF OnWay
<1>3. Follows(Write(w, e), Capture(CaptureAll(es), e)) /\ Write(w, e).closed = (e.type = "done")
    BY <1>2, FollowsOn DEF OnWay
<1>. QED  BY <1>1, <1>3 DEF OnWay

\* The last event on its way.
LEMMA WayEnds ==
    ASSUME NEW es, NEW w, OnWay(es, w), ~w.closed, NEW e, IsEvent(e), e.type = "done"
    PROVE  OnWay(Append(es, e), Write(w, e)) /\ Write(w, e).closed = TRUE
<1>1. Fits(CaptureAll(es), e)
    BY DEF Fits
<1>2. OnWay(Append(es, e), Write(w, e)) /\ Write(w, e).closed = (e.type = "done")
    BY <1>1, WayOn
<1>. QED  BY <1>2

(* ---------------------------- parser and writer ------------------------- *)

\* Parser and writer as records of their fields.
ParserRecord(st) ==
    st = [started |-> st.started, finish |-> st.finish, closed |-> st.closed, usage |-> st.usage,
          calls |-> st.calls, events |-> st.events]
ParserShape(st) == ParserRecord(st) /\ IsList(st.events) /\ st.closed \in BOOLEAN

\* The writer has got what the parser yielded from st on.
Reaches(st, w, st2, w2) ==
    \E Y : IsList(Y) /\ st2.events = st.events \o Y /\ w2 = WriteAll(w, Y)

\* st and w after a provider's answer of which h is captured so far.
Good(h, st, w) ==
    /\ ParserShape(st) /\ OnWay(st.events, w) /\ w.closed = st.closed /\ h.finish = None
    /\ ~st.closed => CaptureAll(st.events) = h
    /\ st.closed => \E r : CaptureAll(st.events) = Capture(h, Done(r))

Leads(st, w, h, st2) == \E w2 : Reaches(st, w, st2, w2) /\ Good(h, st2, w2)

Joins(s, t, u) == u = s \o t

\* Lists put together in either order.
LEMMA ConcatAgain ==
    ASSUME NEW A, NEW s \in Seq(A), NEW t \in Seq(A), NEW u \in Seq(A),
           NEW a, Joins(s, t, a), NEW b, Joins(a, u, b), NEW c, Joins(t, u, c)
    PROVE  Joins(s, c, b)
BY DEF Joins

\* What is passed on in two steps is passed on in one.
LEMMA ReachesFurther ==
    ASSUME NEW st, IsList(st.events), NEW w, NEW st2, NEW w2, NEW st3, NEW w3,
           Reaches(st, w, st2, w2), Reaches(st2, w2, st3, w3)
    PROVE  Reaches(st, w, st3, w3)
<1>1. PICK X : IsList(X) /\ st2.events = st.events \o X /\ w2 = WriteAll(w, X)
    BY DEF Reaches
<1>2. PICK Y : IsList(Y) /\ st3.events = st2.events \o Y /\ w3 = WriteAll(w2, Y)
    BY DEF Reaches
<1>. DEFINE A == ToSet(st.events) \cup ToSet(X) \cup ToSet(Y)
<1>3. st.events \in Seq(A) /\ X \in Seq(A) /\ Y \in Seq(A)
    BY <1>1, <1>2 DEF IsList
<1>. DEFINE Z == X \o Y
<1>4. Z = X \o Y
    OBVIOUS
<1>. HIDE DEF A, Z
<1>5. IsList(Z)
    BY <1>1, <1>2, <1>4, ListConcat
<1>6. w3 = WriteAll(w, Z)
    BY <1>1, <1>2, <1>3, <1>4, WriteFold, Writing!FoldConcat, NumbersWellOrdered
<1>7. st3.events = st.events \o Z
    <2>1. Joins(st.events, X, st2.events) /\ Joins(st2.events, Y, st3.events) /\ Joins(X, Y, Z)
        BY <1>1, <1>2, <1>4 DEF Joins
    <2>2. Joins(st.events, Z, st3.events)
        BY <2>1, <1>3, ConcatAgain
    <2>. QED  BY <2>2 DEF Joins
<1>. QED  BY <1>5, <1>6, <1>7 DEF Reaches

LEMMA ReachesSame ==
    ASSUME NEW st, IsList(st.events), NEW w, NEW st2, st2.events = st.events
    PROVE  Reaches(st, w, st2, w)
<1>1. st.events \o << >> = st.events
    BY DEF IsList
<1>2. WriteAll(w, << >>) = w
    BY FoldsOfNone
<1>. QED  BY <1>1, <1>2, EmptyList DEF Reaches

LEMMA ReachesOne ==
    ASSUME NEW st, IsList(st.events), NEW w, NEW e, NEW st2, st2.events = Append(st.events, e)
    PROVE  Reaches(st, w, st2, Write(w, e))
<1>1. st.events \o <<e>> = Append(st.events, e)
    BY ListAppend
<1>2. WriteAll(w, <<e>>) = Write(w, e)
    BY WriteFold, Writing!FoldOne, NumbersWellOrdered
<1>3. IsList(<<e>>)
    BY OneList
<1>. DEFINE Z == <<e>>
<1>4. IsList(Z) /\ st2.events = st.events \o Z /\ Write(w, e) = WriteAll(w, Z)
    BY <1>1, <1>2, <1>3
<1>. HIDE DEF Z
<1>. QED  BY <1>4 DEF Reaches

\* The same with the invariant kept in between.
LEMMA LeadsFurther ==
    ASSUME NEW st, IsList(st.events), NEW w, NEW h, NEW st2, Leads(st, w, h, st2), NEW k, NEW st3,
           \A w2 : Good(h, st2, w2) => Leads(st2, w2, k, st3)
    PROVE  Leads(st, w, k, st3)
<1>1. PICK w2 : Reaches(st, w, st2, w2) /\ Good(h, st2, w2)
    BY DEF Leads
<1>2. PICK w3 : Reaches(st2, w2, st3, w3) /\ Good(k, st3, w3)
    BY <1>1 DEF Leads
<1>. QED  BY <1>1, <1>2, ReachesFurther DEF Leads

\* v differs from st in one field at most.
Unlike(field, v, st) ==
    /\ ParserRecord(v)
    /\ field # "started" => v.started = st.started
    /\ field # "finish" => v.finish = st.finish
    /\ field # "closed" => v.closed = st.closed
    /\ field # "usage" => v.usage = st.usage
    /\ field # "calls" => v.calls = st.calls
    /\ field # "events" => v.events = st.events

\* A field of the generator written, and the others stay.
LEMMA ParserField ==
    ASSUME NEW st, ParserRecord(st), NEW x
    PROVE  /\ Unlike("started", [st EXCEPT !.started = x], st)
           /\ Unlike("finish", [st EXCEPT !.finish = x], st) /\ [st EXCEPT !.finish = x].finish = x
           /\ Unlike("closed", [st EXCEPT !.closed = x], st) /\ [st EXCEPT !.closed = x].closed = x
           /\ Unlike("usage", [st EXCEPT !.usage = x], st) /\ [st EXCEPT !.usage = x].usage = x
           /\ Unlike("calls", [st EXCEPT !.calls = x], st) /\ [st EXCEPT !.calls = x].calls = x
           /\ Unlike("events", [st EXCEPT !.events = x], st) /\ [st EXCEPT !.events = x].events = x
<1>1. Unlike("started", [st EXCEPT !.started = x], st)
    BY DEF ParserRecord, Unlike
<1>2. Unlike("finish", [st EXCEPT !.finish = x], st) /\ [st EXCEPT !.finish = x].finish = x
    BY DEF ParserRecord, Unlike
<1>3. Unlike("closed", [st EXCEPT !.closed = x], st) /\ [st EXCEPT !.closed = x].closed = x
    BY DEF ParserRecord, Unlike
<1>4. Unlike("usage", [st EXCEPT !.usage = x], st) /\ [st EXCEPT !.usage = x].usage = x
    BY DEF ParserRecord, Unlike
<1>5. Unlike("calls", [st EXCEPT !.calls = x], st) /\ [st EXCEPT !.calls = x].calls = x
    BY DEF ParserRecord, Unlike
<1>6. Unlike("events", [st EXCEPT !.events = x], st) /\ [st EXCEPT !.events = x].events = x
    BY DEF ParserRecord, Unlike
<1>. QED  BY <1>1, <1>2, <1>3, <1>4, <1>5, <1>6

LEMMA EventsWritten ==
    ASSUME NEW st, ParserRecord(st), NEW x, NEW v, v = [st EXCEPT !.events = x]
    PROVE  Unlike("events", v, st) /\ v.events = x
<1>1. Unlike("events", [st EXCEPT !.events = x], st) /\ [st EXCEPT !.events = x].events = x
    BY ParserField
<1>. QED  BY <1>1

\* What is captured is an answer.
LEMMA GoodShape ==
    ASSUME NEW h, NEW st, NEW w, Good(h, st, w), ~st.closed
    PROVE  AnswerShape(h)
BY EventsShaped DEF Good, OnWay

\* Fields that the client does not see.
LEMMA GoodBeside ==
    ASSUME NEW h, NEW st, NEW w, Good(h, st, w), NEW field \in {"started", "finish", "usage", "calls"},
           NEW v, Unlike(field, v, st)
    PROVE  Good(h, v, w) /\ Leads(st, w, h, v)
<1>1. v.events = st.events /\ v.closed = st.closed /\ ParserShape(v)
    BY DEF Unlike, Good, ParserShape
<1>2. Good(h, v, w)
    BY <1>1 DEF Good
<1>3. Reaches(st, w, v, w)
    BY <1>1, ReachesSame DEF Good, ParserShape
<1>. QED  BY <1>2, <1>3 DEF Leads

\* A generator that yields an event which fits is as good as before, with that event.
LEMMA YieldedOne ==
    ASSUME NEW h, NEW st, NEW w, Good(h, st, w), ~st.closed, NEW e, IsEvent(e), Fits(h, e),
           e.type # "done"
    PROVE  Leads(st, w, Capture(h, e), Yield(st, <<e>>)) /\ Unlike("events", Yield(st, <<e>>), st)
<1>. DEFINE v == Yield(st, <<e>>)
<1>1. st.events \o <<e>> = Append(st.events, e) /\ IsList(Append(st.events, e))
    BY ListAppend DEF Good, ParserShape
<1>2. v = [st EXCEPT !.events = Append(st.events, e)]
    BY <1>1 DEF Yield
<1>. HIDE DEF v
<1>3. Unlike("events", v, st) /\ v.events = Append(st.events, e)
    <2>1. ParserRecord(st)
        BY DEF Good, ParserShape
    <2>. QED  BY <1>2, <2>1, EventsWritten
<1>4. v.closed = st.closed /\ ParserShape(v)
    BY <1>1, <1>3 DEF Unlike, ParserShape, Good
<1>5. CaptureAll(st.events) = h /\ OnWay(st.events, w) /\ ~w.closed /\ w.closed = st.closed
    BY DEF Good
<1>6. OnWay(v.events, Write(w, e)) /\ Write(w, e).closed = (e.type = "done")
    BY <1>3, <1>5, WayOn
<1>7. CaptureAll(v.events) = Capture(h, e)
    BY <1>3, <1>5, EventAdded DEF OnWay
<1>8. Capture(h, e).finish = None
    BY GoodShape, CaptureFields DEF Good
<1>9. ~v.closed /\ v.closed = FALSE /\ Write(w, e).closed = FALSE
    BY <1>4, <1>6 DEF ParserShape
<1>10. Good(Capture(h, e), v, Write(w, e))
    BY <1>4, <1>6, <1>7, <1>8, <1>9 DEF Good
<1>11. Reaches(st, w, v, Write(w, e))
    BY <1>3, ReachesOne DEF Good, ParserShape
<1>12. Leads(st, w, Capture(h, e), v)
    BY <1>10, <1>11 DEF Leads
<1>. QED  BY <1>3, <1>12 DEF v

\* The events the generator makes itself.
LEMMA DoneIsEvent == \A r : IsEvent(Done(r)) /\ Done(r).type = "done"
BY DEF IsEvent, Legible, Done

LEMMA StartIsEvent == IsEvent(Start) /\ Start.type = "message_start"
BY DEF IsEvent, Legible, Start

\* message_start changes no answer.
LEMMA YieldedStart ==
    ASSUME NEW h, NEW st, NEW w, Good(h, st, w), ~st.closed
    PROVE  Leads(st, w, h, Yield(st, <<Start>>)) /\ Unlike("events", Yield(st, <<Start>>), st)
<1>1. Fits(h, Start)
    BY StartIsEvent DEF Fits
<1>2. Capture(h, Start) = h
    BY StartIsEvent, GoodShape, CaptureParts
<1>3. Leads(st, w, Capture(h, Start), Yield(st, <<Start>>)) /\ Unlike("events", Yield(st, <<Start>>), st)
    BY <1>1, StartIsEvent, YieldedOne
<1>. QED  BY <1>2, <1>3

\* Nor does beginning.
LEMMA Begins ==
    ASSUME NEW h, NEW st, NEW w, Good(h, st, w), ~st.closed
    PROVE  /\ Leads(st, w, h, Begin(st)) /\ Begin(st).closed = st.closed
           /\ Begin(st).finish = st.finish /\ Begin(st).usage = st.usage /\ Begin(st).calls = st.calls
<1>1. CASE st.started
    <2>1. Begin(st) = st
        BY <1>1 DEF Begin
    <2>2. Leads(st, w, h, st)
        BY ReachesSame DEF Leads, Good, ParserShape
    <2>. QED  BY <2>1, <2>2
<1>2. CASE ~st.started
    <2>. DEFINE u == Yield(st, <<Start>>)
                v == [u EXCEPT !.started = TRUE]
    <2>1. Begin(st) = v
        BY <1>2 DEF Begin
    <2>2. Leads(st, w, h, u) /\ Unlike("events", u, st)
        BY YieldedStart
    <2>. HIDE DEF u
    <2>6. ParserRecord(u)
        BY <2>2 DEF Unlike
    <2>3. Unlike("started", v, u)
        BY <2>6, ParserField
    <2>. HIDE DEF v
    <2>4. \A w2 : Good(h, u, w2) => Leads(u, w2, h, v)
        BY <2>3, GoodBeside
    <2>5. Leads(st, w, h, v)
        BY <2>2, <2>4, LeadsFurther DEF Good, ParserShape
    <2>. QED  BY <2>1, <2>2, <2>3, <2>5 DEF Unlike
<1>. QED  BY <1>1, <1>2

\* Closing ends the stream, with what was captured.
LEMMA Closes ==
    ASSUME NEW h, NEW st, NEW w, Good(h, st, w), ~st.closed, NEW r
    PROVE  /\ Leads(st, w, h, Close(st, r)) /\ Close(st, r).closed
           /\ Close(st, r).usage = st.usage /\ Close(st, r).calls = st.calls
<1>. DEFINE u == Yield(st, <<Done(r)>>)
            v == [u EXCEPT !.closed = TRUE]
            e == Done(r)
<1>1. st.events \o <<e>> = Append(st.events, e) /\ IsList(Append(st.events, e))
    BY ListAppend DEF Good, ParserShape
<1>2. u = [st EXCEPT !.events = Append(st.events, e)]
    BY <1>1 DEF Yield
<1>3. IsEvent(e) /\ e.type = "done"
    BY DoneIsEvent
<1>4. Close(st, r) = v
    BY DEF Close
<1>5. e = Done(r)
    OBVIOUS
<1>. HIDE DEF u, e
<1>6. Unlike("events", u, st) /\ u.events = Append(st.events, e)
    <2>1. ParserRecord(st)
        BY DEF Good, ParserShape
    <2>. QED  BY <1>2, <2>1, EventsWritten
<1>16. ParserRecord(u)
    BY <1>6 DEF Unlike
<1>7. Unlike("closed", v, u) /\ v.closed = TRUE
    BY <1>16, ParserField
<1>. HIDE DEF v
<1>8. v.events = Append(st.events, e) /\ ParserShape(v)
    BY <1>1, <1>6, <1>7 DEF Unlike, ParserShape
<1>9. CaptureAll(st.events) = h /\ OnWay(st.events, w) /\ ~w.closed /\ h.finish = None
    BY DEF Good
<1>10. Fits(h, e)
    BY <1>3 DEF Fits
<1>11. OnWay(v.events, Write(w, e)) /\ Write(w, e).closed = TRUE
    <2>1. OnWay(Append(st.events, e), Write(w, e)) /\ Write(w, e).closed = TRUE
        BY <1>3, <1>9, WayEnds
    <2>. QED  BY <1>8, <2>1
<1>12. CaptureAll(v.events) = Capture(h, Done(r))
    BY <1>3, <1>5, <1>8, <1>9, <1>10, EventAdded DEF OnWay
<1>13. Good(h, v, Write(w, e))
    BY <1>7, <1>8, <1>9, <1>11, <1>12 DEF Good
<1>14. Reaches(st, w, v, Write(w, e))
    BY <1>8, ReachesOne DEF Good, ParserShape
<1>15. Leads(st, w, h, v)
    BY <1>13, <1>14 DEF Leads
<1>17. v.usage = st.usage /\ v.calls = st.calls
    BY <1>6, <1>7 DEF Unlike
<1>. QED  BY <1>4, <1>7, <1>15, <1>17

\* Induction over the numbers, with a set for the predicate.
LEMMA NaturalsSet ==
    ASSUME NEW P, 0 \in P, \A n \in Nat \cap P : n + 1 \in P
    PROVE  Nat \subseteq P
<1>1. SUFFICES ASSUME Nat \ P # {} PROVE FALSE
    OBVIOUS
<1>2. PICK x \in Nat \ P : \A y \in Nat \ P : x <= y
    BY <1>1, LeastNumber
<1>3. x # 0 /\ x - 1 \in Nat /\ x - 1 < x
    OBVIOUS
<1>4. x - 1 \in P
    BY <1>2, <1>3
<1>5. (x - 1) + 1 \in P
    BY <1>3, <1>4
<1>. QED  BY <1>2, <1>5

(* --------------------------- the provider's answer ----------------------- *)

\* The answer as the generator gets it.
Decoded == [i \in 1 .. Len(turn.answer) |-> Payload(i)]
Heard(n) == CaptureAll(SubSeq(Decoded, 1, n))

\* A character replaced leaves a text a text.
LEMMA Replacing ==
    ASSUME NEW s \in Seq(Letters), NEW k \in DOMAIN s
    PROVE  [s EXCEPT ![k] = Replaced] \in Seq(Letters) /\ [s EXCEPT ![k] = Replaced] # << >>
<1>1. Replaced \in Letters
    BY DEF Letters
<1>2. Len(s) \in Nat /\ DOMAIN s = 1 .. Len(s) /\ s \in [1 .. Len(s) -> Letters]
    OBVIOUS
<1>. DEFINE u == [s EXCEPT ![k] = Replaced]
<1>3. u \in [1 .. Len(s) -> Letters]
    BY <1>1, <1>2
<1>. HIDE DEF u
<1>4. u \in Seq(Letters) /\ Len(u) = Len(s)
    BY <1>2, <1>3
<1>5. u # << >>
    BY <1>2, <1>4
<1>. QED  BY <1>4, <1>5 DEF u

\* The payloads of an answer, by the assumption on turns: decoding changes no more than a
\* piece of a text or of the arguments.
LEMMA AnswerIs ==
    ASSUME turn \in Turns
    PROVE  /\ IsList(turn.answer) /\ Len(turn.answer) \in Nat
           /\ turn.backend # "agent" => Decoded = turn.answer
           /\ \A i \in 1 .. Len(turn.answer) :
                 /\ turn.backend # "agent" => Payload(i) = turn.answer[i]
                 /\ turn.answer[i].type \in {"text", "call", "usage", "finish", "[DONE]"}
                 /\ Legible(turn.answer[i]) /\ Legible(Payload(i))
                 /\ Payload(i).type = turn.answer[i].type
                 /\ turn.answer[i].type = "call" =>
                      Payload(i).index = turn.answer[i].index /\ Payload(i).name = turn.answer[i].name
<1>1. IsList(turn.answer) /\ Len(turn.answer) \in Nat /\ DOMAIN turn.answer = 1 .. Len(turn.answer)
    BY TurnsAssumption DEF IsList
<1>2. turn.backend # "agent" => \A i : Payload(i) = turn.answer[i]
    BY TurnsAssumption DEF Payload
<1>3. ASSUME NEW i \in 1 .. Len(turn.answer)
      PROVE  /\ turn.answer[i].type \in {"text", "call", "usage", "finish", "[DONE]"}
             /\ Legible(turn.answer[i]) /\ Legible(Payload(i))
             /\ Payload(i).type = turn.answer[i].type
             /\ turn.answer[i].type = "call" =>
                  Payload(i).index = turn.answer[i].index /\ Payload(i).name = turn.answer[i].name
    <2>. DEFINE p == turn.answer[i]
                k == turn.cut[i]
    <2>1. p \in ToSet(turn.answer)
        BY <1>1 DEF ToSet
    <2>2. i \in DOMAIN turn.cut => p.type \in {"text", "call"} /\ k \in DOMAIN PieceOf(p)
        BY TurnsAssumption
    <2>3. Payload(i) = IF i \in DOMAIN turn.cut THEN Garbled(p, k) ELSE p
        BY DEF Payload
    <2>. HIDE DEF p, k
    <2>9. ASSUME NEW s \in Seq(STRING) PROVE s \in Seq(Letters)
        BY DEF Letters
    <2>4. p.type \in {"text", "call", "usage", "finish", "[DONE]"} /\ Legible(p)
        BY <2>1, <2>9, TurnsAssumption DEF Legible
    <2>5. ASSUME p.type = "text", k \in DOMAIN PieceOf(p)
          PROVE  Garbled(p, k).type = "text" /\ Legible(Garbled(p, k))
        <3>. DEFINE u == [p.text EXCEPT ![k] = Replaced]
        <3>1. u \in Seq(Letters) /\ u # << >>
            BY <2>4, <2>5, Replacing DEF Legible, PieceOf
        <3>2. Garbled(p, k) = [type |-> "text", text |-> u]
            BY <2>5 DEF Garbled
        <3>. HIDE DEF u
        <3>. QED  BY <3>1, <3>2 DEF Legible
    <2>6. ASSUME p.type = "call", k \in DOMAIN PieceOf(p)
          PROVE  /\ Garbled(p, k).type = "call" /\ Legible(Garbled(p, k))
                 /\ Garbled(p, k).index = p.index /\ Garbled(p, k).name = p.name
        <3>. DEFINE u == [p.args EXCEPT ![k] = Replaced]
        <3>1. u \in Seq(Letters) /\ p.index \in Nat
            BY <2>4, <2>6, Replacing DEF Legible, PieceOf
        <3>2. Garbled(p, k) = [type |-> "call", index |-> p.index, id |-> p.id, name |-> p.name, args |-> u]
            BY <2>6 DEF Garbled
        <3>. HIDE DEF u
        <3>. QED  BY <3>1, <3>2 DEF Legible
    <2>7. CASE i \in DOMAIN turn.cut
        BY <2>2, <2>3, <2>4, <2>5, <2>6, <2>7 DEF p
    <2>8. CASE i \notin DOMAIN turn.cut
        BY <2>3, <2>4, <2>8 DEF p
    <2>. QED  BY <2>7, <2>8
<1>4. turn.backend # "agent" => Decoded = turn.answer
    <2>1. ASSUME turn.backend # "agent" PROVE Decoded = [i \in 1 .. Len(turn.answer) |-> turn.answer[i]]
        BY <1>2, <2>1 DEF Decoded
    <2>2. turn.answer = [i \in 1 .. Len(turn.answer) |-> turn.answer[i]]
        BY <1>1 DEF IsList
    <2>. QED  BY <2>1, <2>2
<1>. QED  BY <1>1, <1>2, <1>3, <1>4

\* The decoded payloads make a list.
LEMMA DecodedIs ==
    ASSUME turn \in Turns
    PROVE  /\ IsList(Decoded) /\ Len(Decoded) = Len(turn.answer)
           /\ \A i \in 1 .. Len(turn.answer) : Decoded[i] = Payload(i)
           /\ \A e \in ToSet(Decoded) : Legible(e)
<1>. DEFINE n == Len(turn.answer)
            A == {Payload(i) : i \in 1 .. n}
<1>1. n \in Nat /\ \A i \in 1 .. n : Legible(Payload(i))
    BY AnswerIs
<1>. HIDE DEF n
<1>2. DOMAIN Decoded = 1 .. n /\ \A i \in 1 .. n : Decoded[i] = Payload(i)
    BY DEF Decoded, n
<1>3. Decoded = [i \in 1 .. n |-> Decoded[i]]
    BY DEF Decoded, n
<1>4. \A i \in 1 .. n : Decoded[i] \in A
    BY <1>2
<1>5. ToSet(Decoded) \subseteq A
    BY <1>2, <1>4 DEF ToSet
<1>6. \A e \in A : Legible(e)
    BY <1>1
<1>. HIDE DEF A
<1>7. Decoded \in [1 .. n -> A]
    BY <1>3, <1>4
<1>8. Decoded \in Seq(A) /\ Len(Decoded) = n
    BY <1>1, <1>7
<1>. QED  BY <1>2, <1>5, <1>6, <1>8, ListIs DEF n

\* One payload more of the answer.
LEMMA PrefixNext ==
    ASSUME turn \in Turns, NEW n \in Nat, n < Len(turn.answer)
    PROVE  /\ SubSeq(Decoded, 1, n + 1) = Append(SubSeq(Decoded, 1, n), Payload(n + 1))
           /\ IsList(SubSeq(Decoded, 1, n))
<1>. DEFINE S == ToSet(Decoded)
            d == Decoded
<1>1. d \in Seq(S) /\ n + 1 \in 1 .. Len(d) /\ d[n + 1] = Payload(n + 1)
    BY DecodedIs, AnswerIs DEF IsList
<1>. HIDE DEF S, d
<1>2. SubSeq(d, 1, n) \in Seq(S)
    BY <1>1
<1>3. IsList(SubSeq(d, 1, n))
    BY <1>2, ListIs
<1>4. SubSeq(d, 1, n + 1) = Append(SubSeq(d, 1, n), d[n + 1])
    BY <1>1
<1>. QED  BY <1>1, <1>3, <1>4 DEF d

\* What a client of n payloads has heard, one payload more.
LEMMA HeardNext ==
    ASSUME turn \in Turns, NEW n \in Nat, n < Len(turn.answer)
    PROVE  Heard(n + 1) = Capture(Heard(n), Payload(n + 1))
BY PrefixNext, CollectMore DEF Heard

LEMMA HeardNone == Heard(0) = NoAnswer
<1>1. ASSUME NEW s PROVE SubSeq(s, 1, 0) = << >>
    OBVIOUS
<1>2. SubSeq(Decoded, 1, 0) = << >>
    BY <1>1
<1>. QED  BY <1>2, FoldsOfNone DEF Heard

\* What is heard is an answer.
LEMMA HeardShape ==
    ASSUME turn \in Turns, NEW n \in Nat, n <= Len(turn.answer)
    PROVE  AnswerShape(Heard(n))
<1>. DEFINE S == ToSet(Decoded)
            d == Decoded
<1>1. d \in Seq(S) /\ Len(d) = Len(turn.answer) /\ \A e \in S : Legible(e)
    BY DecodedIs DEF IsList
<1>. HIDE DEF S, d
<1>2. SubSeq(d, 1, n) \in Seq(S)
    BY <1>1
<1>3. AnswerShape(CaptureAll(SubSeq(d, 1, n)))
    BY <1>1, <1>2, AnswersShaped
<1>. QED  BY <1>3 DEF Heard, d

\* A payload with content is an event.
LEMMA PayloadIsEvent ==
    ASSUME turn \in Turns, NEW i \in 1 .. Len(turn.answer),
           Payload(i).type \notin {"finish", "[DONE]"}
    PROVE  IsEvent(Payload(i)) /\ Payload(i).type \in {"text", "call", "usage"}
BY AnswerIs DEF IsEvent

\* The end of a stream tells nothing.
LEMMA OtherPayload ==
    ASSUME NEW a, NEW e, e.type \in {"finish", "[DONE]"}
    PROVE  Capture(a, e) = a
BY DEF Capture, Collect

\* The first delta of each call known after n payloads.
First(n, k, i) ==
    /\ IsCall(Payload(i), k) /\ \A m \in 1 .. (i - 1) : ~IsCall(Payload(m), k)
    /\ Heard(n).calls[k].name = Payload(i).name
FirstsKnown(n) ==
    \A k : IF k \in DOMAIN Heard(n).calls THEN \E i \in 1 .. n : First(n, k, i)
           ELSE \A i \in 1 .. n : ~IsCall(Payload(i), k)

\* A payload fits what was heard before it.
LEMMA FirstsFit ==
    ASSUME turn \in Turns, NEW n \in Nat, n < Len(turn.answer), FirstsKnown(n)
    PROVE  Fits(Heard(n), Payload(n + 1))
<1>. DEFINE p == Payload(n + 1)
            k == p.index
<1>1. SUFFICES ASSUME p.type = "call", k \in DOMAIN Heard(n).calls
               PROVE  p.name \in {None, Heard(n).calls[k].name}
    BY DEF Fits
<1>2. PICK i \in 1 .. n : First(n, k, i)
    BY <1>1 DEF FirstsKnown
<1>3. CallsAgree(turn.answer) /\ DOMAIN turn.answer = 1 .. Len(turn.answer) /\ Len(turn.answer) \in Nat
    BY TurnsAssumption, AnswerIs DEF IsList
<1>4. i \in DOMAIN turn.answer /\ n + 1 \in DOMAIN turn.answer /\ i < n + 1
    BY <1>3
<1>. HIDE DEF p
<1>5. \A m \in 1 .. i : m \in 1 .. Len(turn.answer)
    BY <1>3, <1>4
<1>6. \A m \in 1 .. Len(turn.answer) : \A j : IsCall(Payload(m), j) <=> IsCall(turn.answer[m], j)
    BY AnswerIs DEF IsCall
<1>7. IsCall(p, k) /\ IsCall(turn.answer[n + 1], k) /\ turn.answer[n + 1].name = p.name
    BY <1>1, <1>3, <1>4, <1>6, AnswerIs DEF IsCall, p
<1>8. IsCall(turn.answer[i], k) /\ turn.answer[i].name = Payload(i).name
    BY <1>2, <1>3, <1>4, <1>6, AnswerIs DEF IsCall, First
<1>9. \A m \in 1 .. (i - 1) : ~IsCall(turn.answer[m], k)
    BY <1>2, <1>5, <1>6 DEF First
<1>10. Continues(turn.answer, i, n + 1)
    BY <1>4, <1>7, <1>8, <1>9 DEF Continues, Opens, IsCall
<1>11. p.name \in {None, Payload(i).name}
    BY <1>3, <1>4, <1>7, <1>8, <1>10 DEF CallsAgree
<1>. QED  BY <1>2, <1>11 DEF First

\* And what is known of the first deltas of calls stays known.
LEMMA FirstsNext ==
    ASSUME turn \in Turns, NEW n \in Nat, n < Len(turn.answer), FirstsKnown(n)
    PROVE  FirstsKnown(n + 1)
<1>. DEFINE p == Payload(n + 1)
            a == Heard(n)
            b == Heard(n + 1)
<1>1. b = Capture(a, p) /\ AnswerShape(a) /\ n + 1 \in 1 .. Len(turn.answer) /\ n \in Nat
    BY HeardNext, HeardShape
<1>2. CASE p.type # "call"
    <2>1. b.calls = a.calls
        <3>1. CASE p.type \in {"finish", "[DONE]"}
            BY <1>1, <3>1, OtherPayload
        <3>2. CASE p.type \notin {"finish", "[DONE]"}
            <4>1. IsEvent(p)
                BY <1>1, <3>2, PayloadIsEvent
            <4>. QED  BY <1>1, <1>2, <4>1, CaptureFields
        <3>. QED  BY <3>1, <3>2
    <2>2. \A k : ~IsCall(p, k)
        BY <1>2 DEF IsCall
    <2>3. ASSUME NEW k, k \in DOMAIN b.calls PROVE \E i \in 1 .. (n + 1) : First(n + 1, k, i)
        <3>1. PICK i \in 1 .. n : First(n, k, i)
            BY <2>1, <2>3 DEF FirstsKnown
        <3>2. First(n + 1, k, i)
            BY <2>1, <3>1 DEF First
        <3>. QED  BY <3>2
    <2>4. ASSUME NEW k, k \notin DOMAIN b.calls, NEW i \in 1 .. (n + 1) PROVE ~IsCall(Payload(i), k)
        <3>1. CASE i = n + 1
            BY <2>2, <3>1
        <3>2. CASE i # n + 1
            BY <2>1, <2>4, <3>2 DEF FirstsKnown
        <3>. QED  BY <3>1, <3>2
    <2>. QED  BY <2>3, <2>4 DEF FirstsKnown
<1>3. CASE p.type = "call"
    <2>1. IsEvent(p) /\ Fits(a, p)
        BY <1>1, <1>3, PayloadIsEvent, FirstsFit
    <2>2. b.calls = CaptureCall(a.calls, p)
        BY <1>1, <1>3, <2>1, CaptureFields
    <2>3. PICK c : b.calls = Extended(a.calls, p.index, c)
        BY <2>2 DEF CaptureCall
    <2>4. DOMAIN b.calls = DOMAIN a.calls \cup {p.index} /\ IsCall(p, p.index)
        BY <1>3, <2>3 DEF Extended, IsCall
    <2>5. ASSUME NEW k \in DOMAIN a.calls, k # p.index PROVE b.calls[k] = a.calls[k]
        BY <2>3, <2>5 DEF Extended
    <2>6. ASSUME NEW k \in DOMAIN a.calls
          PROVE  b.calls[k].name = a.calls[k].name
        <3>1. CASE k # p.index
            BY <2>5, <3>1
        <3>2. CASE k = p.index
            <4>. DEFINE d == [id |-> IF p.id = None THEN a.calls[k].id ELSE p.id,
                              name |-> a.calls[k].name, args |-> a.calls[k].args \o p.args]
            <4>1. CaptureCall(a.calls, p) = Extended(a.calls, k, d)
                BY <1>1, <1>3, <2>1, <3>2, CallMerges
            <4>2. d.name = a.calls[k].name
                OBVIOUS
            <4>. HIDE DEF d
            <4>3. b.calls[k] = d
                BY <2>2, <4>1 DEF Extended
            <4>. QED  BY <4>2, <4>3
        <3>. QED  BY <3>1, <3>2
    <2>7. ASSUME NEW k \in DOMAIN a.calls PROVE \E i \in 1 .. (n + 1) : First(n + 1, k, i)
        <3>1. PICK i \in 1 .. n : First(n, k, i)
            BY <2>7 DEF FirstsKnown
        <3>2. First(n + 1, k, i)
            BY <2>6, <3>1 DEF First
        <3>. QED  BY <3>2
    <2>8. ASSUME p.index \notin DOMAIN a.calls PROVE \E i \in 1 .. (n + 1) : First(n + 1, p.index, i)
        <3>1. \A m \in 1 .. ((n + 1) - 1) : ~IsCall(Payload(m), p.index)
            BY <2>8 DEF FirstsKnown
        <3>2. CaptureCall(a.calls, p) = Extended(a.calls, p.index, NewCall(p))
            BY <2>8 DEF CaptureCall
        <3>3. b.calls[p.index] = NewCall(p)
            BY <2>2, <3>2 DEF Extended
        <3>4. b.calls[p.index].name = p.name
            BY <3>3 DEF NewCall
        <3>5. First(n + 1, p.index, n + 1)
            BY <2>4, <3>1, <3>4 DEF First
        <3>. QED  BY <3>5
    <2>9. ASSUME NEW k, k \in DOMAIN b.calls PROVE \E i \in 1 .. (n + 1) : First(n + 1, k, i)
        BY <2>4, <2>7, <2>8, <2>9
    <2>10. ASSUME NEW k, k \notin DOMAIN b.calls, NEW i \in 1 .. (n + 1) PROVE ~IsCall(Payload(i), k)
        <3>1. CASE i = n + 1
            BY <2>4, <2>10, <3>1 DEF IsCall
        <3>2. CASE i # n + 1
            BY <2>4, <2>10, <3>2 DEF FirstsKnown
        <3>. QED  BY <3>1, <3>2
    <2>. QED  BY <2>9, <2>10 DEF FirstsKnown
<1>. QED  BY <1>2, <1>3

\* Each payload continues what was captured from those before it.
LEMMA PayloadFits ==
    ASSUME turn \in Turns, NEW n \in Nat, n < Len(turn.answer)
    PROVE  Fits(Heard(n), Payload(n + 1))
<1>. DEFINE P == {m \in Nat : m <= Len(turn.answer) => FirstsKnown(m)}
<1>1. 0 \in P
    <2>1. DOMAIN NoAnswer.calls = {}
        BY DEF NoAnswer
    <2>. QED  BY <2>1, HeardNone DEF FirstsKnown
<1>2. \A m \in Nat \cap P : m + 1 \in P
    BY AnswerIs, FirstsNext
<1>. HIDE DEF P
<1>3. n \in P
    BY <1>1, <1>2, NaturalsSet
<1>4. FirstsKnown(n)
    BY <1>3, AnswerIs DEF P
<1>. QED  BY <1>4, FirstsFit

(* ------------------------------ lines read ------------------------------ *)

\* Nothing yielded, nothing changed.
LEMMA LeadsSame ==
    ASSUME NEW h, NEW st, NEW w, Good(h, st, w)
    PROVE  Leads(st, w, h, st)
BY ReachesSame DEF Leads, Good, ParserShape

\* A payload of the provider, passed on.
LEMMA PayloadYielded ==
    ASSUME turn \in Turns, NEW n \in Nat, n < Len(turn.answer),
           Payload(n + 1).type \notin {"finish", "[DONE]"},
           NEW st, NEW w, Good(Heard(n), st, w), ~st.closed
    PROVE  /\ Leads(st, w, Heard(n + 1), Yield(st, <<Payload(n + 1)>>))
           /\ Unlike("events", Yield(st, <<Payload(n + 1)>>), st)
<1>. DEFINE p == Payload(n + 1)
<1>1. n + 1 \in 1 .. Len(turn.answer)
    BY AnswerIs
<1>2. IsEvent(p) /\ p.type \in {"text", "call", "usage"}
    BY <1>1, PayloadIsEvent
<1>3. Fits(Heard(n), p) /\ Heard(n + 1) = Capture(Heard(n), p)
    BY PayloadFits, HeardNext
<1>. HIDE DEF p
<1>4. Leads(st, w, Capture(Heard(n), p), Yield(st, <<p>>)) /\ Unlike("events", Yield(st, <<p>>), st)
    BY <1>2, <1>3, YieldedOne
<1>. QED  BY <1>3, <1>4 DEF p

\* A line parsed is heard, or it closes the generator.
LEMMA LineParsed ==
    ASSUME turn \in Turns, NEW n \in Nat, n < Len(turn.answer),
           NEW st, NEW w, Good(Heard(n), st, w), ~st.closed
    PROVE  \/ Leads(st, w, Heard(n + 1), ParseLine(st, n + 1))
           \/ Leads(st, w, Heard(n), ParseLine(st, n + 1)) /\ ParseLine(st, n + 1).closed
<1>. DEFINE p == Payload(n + 1)
<1>0. ParseLine(st, n + 1) = Parse(st, p) /\ Heard(n + 1) = Capture(Heard(n), p)
    BY HeardNext DEF ParseLine
<1>1. IsList(st.events)
    BY DEF Good, ParserShape
<1>2. CASE p.type = "[DONE]"
    <2>1. Parse(st, p) = Close(st, st.finish)
        BY <1>2 DEF Parse
    <2>. QED  BY <1>0, <2>1, Closes
<1>3. CASE p.type = "finish"
    <2>. DEFINE v == [Begin(st) EXCEPT !.finish = p.reason]
    <2>1. Parse(st, p) = v
        BY <1>3 DEF Parse
    <2>2. Leads(st, w, Heard(n), Begin(st))
        BY Begins
    <2>3. ASSUME NEW w2, Good(Heard(n), Begin(st), w2) PROVE Leads(Begin(st), w2, Heard(n), v)
        <3>1. ParserRecord(Begin(st))
            BY <2>3 DEF Good, ParserShape
        <3>2. Unlike("finish", v, Begin(st))
            BY <3>1, ParserField
        <3>. HIDE DEF v
        <3>. QED  BY <2>3, <3>2, GoodBeside
    <2>. HIDE DEF v
    <2>4. Leads(st, w, Heard(n), v)
        BY <1>1, <2>2, <2>3, LeadsFurther
    <2>5. Heard(n + 1) = Heard(n)
        BY <1>0, <1>3, OtherPayload
    <2>. QED  BY <1>0, <2>1, <2>4, <2>5
<1>4. CASE p.type \notin {"[DONE]", "finish"}
    <2>1. Parse(st, p) = Yield(Begin(st), <<p>>)
        BY <1>4 DEF Parse
    <2>2. Leads(st, w, Heard(n), Begin(st)) /\ ~Begin(st).closed
        BY Begins
    <2>3. ASSUME NEW w2, Good(Heard(n), Begin(st), w2)
          PROVE  Leads(Begin(st), w2, Heard(n + 1), Yield(Begin(st), <<p>>))
        BY <1>4, <2>2, <2>3, PayloadYielded
    <2>4. Leads(st, w, Heard(n + 1), Yield(Begin(st), <<p>>))
        BY <1>1, <2>2, <2>3, LeadsFurther
    <2>. QED  BY <1>0, <2>1, <2>4
<1>. QED  BY <1>2, <1>3, <1>4

\* st and w after n of the provider's payloads.
GoodAt(n, st, w) == \E h : Good(h, st, w) /\ (~st.closed => h = Heard(n))
LeadsTo(st, w, n, st2) == \E w2 : Reaches(st, w, st2, w2) /\ GoodAt(n, st2, w2)

\* So a line more leaves the pair good.
LEMMA LineLeads ==
    ASSUME turn \in Turns, NEW n \in Nat, n < Len(turn.answer), NEW st, NEW w, GoodAt(n, st, w)
    PROVE  LeadsTo(st, w, n + 1, ParseLine(st, n + 1))
<1>1. PICK h : Good(h, st, w) /\ (~st.closed => h = Heard(n))
    BY DEF GoodAt
<1>2. CASE st.closed
    <2>1. ParseLine(st, n + 1) = st
        BY <1>2 DEF ParseLine, Parse
    <2>2. GoodAt(n + 1, st, w)
        BY <1>1, <1>2 DEF GoodAt
    <2>3. Reaches(st, w, st, w)
        BY <1>1, ReachesSame DEF Good, ParserShape
    <2>. QED  BY <2>1, <2>2, <2>3 DEF LeadsTo
<1>3. CASE ~st.closed
    <2>. DEFINE v == ParseLine(st, n + 1)
    <2>1. Leads(st, w, Heard(n + 1), v) \/ (Leads(st, w, Heard(n), v) /\ v.closed)
        BY <1>1, <1>3, LineParsed
    <2>. HIDE DEF v
    <2>2. PICK w2 : /\ Reaches(st, w, v, w2)
                    /\ Good(Heard(n + 1), v, w2) \/ (Good(Heard(n), v, w2) /\ v.closed)
        BY <2>1 DEF Leads
    <2>3. GoodAt(n + 1, v, w2)
        BY <2>2 DEF GoodAt
    <2>4. LeadsTo(st, w, n + 1, v)
        BY <2>2, <2>3 DEF LeadsTo
    <2>. QED  BY <2>4 DEF v
<1>. QED  BY <1>2, <1>3

\* The lines from the (a + 1)-th to the (a + b)-th.
Lines(a, b) == [i \in 1 .. b |-> a + i]

\* Lines from a on, one line more.
LEMMA LinesNext ==
    ASSUME NEW a \in Nat, NEW b \in Nat
    PROVE  /\ Lines(a, b) \in Seq(Nat) /\ Lines(a, b + 1) = Append(Lines(a, b), a + b + 1)
           /\ \A st : ParseAll(st, Lines(a, b + 1)) = ParseLine(ParseAll(st, Lines(a, b)), a + b + 1)
<1>1. Lines(a, b) \in Seq(Nat)
    BY DEF Lines
<1>2. Lines(a, b + 1) = Append(Lines(a, b), a + b + 1)
    BY DEF Lines
<1>3. a + b + 1 \in Nat
    OBVIOUS
<1>4. \A st : ParseAll(st, Append(Lines(a, b), a + b + 1)) = ParseLine(ParseAll(st, Lines(a, b)), a + b + 1)
    BY <1>1, <1>3, ParseFold, Parsing!FoldAppend, NumbersWellOrdered
<1>. QED  BY <1>1, <1>2, <1>4

LEMMA NoLines == \A a : Lines(a, 0) = << >>
BY DEF Lines

\* So do n lines, by induction.
LEMMA LinesLead ==
    ASSUME turn \in Turns, NEW a \in Nat, NEW st, NEW w, GoodAt(a, st, w), NEW n \in Nat,
           a + n <= Len(turn.answer)
    PROVE  LeadsTo(st, w, a + n, ParseAll(st, Lines(a, n)))
<1>0. IsList(st.events)
    BY DEF GoodAt, Good, ParserShape
<1>. DEFINE P == {m \in Nat : a + m <= Len(turn.answer)
                                => LeadsTo(st, w, a + m, ParseAll(st, Lines(a, m)))}
<1>1. 0 \in P
    <2>1. ParseAll(st, Lines(a, 0)) = st
        BY NoLines, FoldsOfNone
    <2>2. Reaches(st, w, st, w)
        BY <1>0, ReachesSame
    <2>3. LeadsTo(st, w, a + 0, st)
        BY <2>2 DEF LeadsTo
    <2>. QED  BY <2>1, <2>3
<1>2. ASSUME NEW m \in Nat \cap P PROVE m + 1 \in P
    <2>1. SUFFICES ASSUME a + (m + 1) <= Len(turn.answer)
                   PROVE  LeadsTo(st, w, a + (m + 1), ParseAll(st, Lines(a, m + 1)))
        OBVIOUS
    <2>. DEFINE u == ParseAll(st, Lines(a, m))
    <2>2. a + m \in Nat /\ a + m < Len(turn.answer) /\ a + (m + 1) = a + m + 1 /\ a + m <= Len(turn.answer)
        BY <2>1, AnswerIs
    <2>3. LeadsTo(st, w, a + m, u)
        BY <1>2, <2>2
    <2>4. ParseAll(st, Lines(a, m + 1)) = ParseLine(u, a + m + 1)
        BY LinesNext
    <2>. HIDE DEF u
    <2>5. PICK w2 : Reaches(st, w, u, w2) /\ GoodAt(a + m, u, w2)
        BY <2>3 DEF LeadsTo
    <2>6. LeadsTo(u, w2, a + m + 1, ParseLine(u, a + m + 1))
        BY <2>2, <2>5, LineLeads
    <2>7. PICK w3 : /\ Reaches(u, w2, ParseLine(u, a + m + 1), w3)
                    /\ GoodAt(a + m + 1, ParseLine(u, a + m + 1), w3)
        BY <2>6 DEF LeadsTo
    <2>8. Reaches(st, w, ParseLine(u, a + m + 1), w3)
        BY <1>0, <2>5, <2>7, ReachesFurther
    <2>. QED  BY <2>2, <2>4, <2>7, <2>8 DEF LeadsTo
<1>. HIDE DEF P
<1>3. n \in P
    BY <1>1, <1>2, NaturalsSet
<1>. QED  BY <1>3 DEF P

(* ------------------------------- the wire ------------------------------- *)

\* Positions of the wire by payload and part.
LEMMA Thirds ==
    ASSUME NEW m \in Nat
    PROVE  \E q \in Nat, r \in 0 .. 2 : m = 3 * q + r
<1>. DEFINE P == {k \in Nat : \E q \in Nat, r \in 0 .. 2 : k = 3 * q + r}
<1>1. 0 \in P
    OBVIOUS
<1>2. ASSUME NEW k \in Nat \cap P PROVE k + 1 \in P
    <2>1. PICK q \in Nat, r \in 0 .. 2 : k = 3 * q + r
        OBVIOUS
    <2>2. CASE r = 2
        <3>. DEFINE d == q + 1
        <3>1. d \in Nat /\ 0 \in 0 .. 2 /\ k + 1 = 3 * d + 0
            BY <2>1, <2>2
        <3>. HIDE DEF d
        <3>2. \E u \in Nat, v \in 0 .. 2 : k + 1 = 3 * u + v
            BY <3>1
        <3>. QED  BY <3>2
    <2>3. CASE r # 2
        <3>1. r + 1 \in 0 .. 2 /\ k + 1 = 3 * q + (r + 1)
            BY <2>1, <2>3
        <3>. QED  BY <3>1
    <2>. QED  BY <2>2, <2>3
<1>. HIDE DEF P
<1>3. m \in P
    BY <1>1, <1>2, NaturalsSet
<1>. QED  BY <1>3 DEF P

LEMMA ThirdsAre ==
    ASSUME NEW q \in Nat, NEW r \in 0 .. 2
    PROVE  (3 * q + r) \div 3 = q /\ (3 * q + r) % 3 = r
OBVIOUS

\* The pieces of a wire.
LEMMA WireIs ==
    ASSUME turn \in Turns
    PROVE  /\ Pieces \in Seq({Pieces[k] : k \in 1 .. 3 * Len(turn.answer)})
           /\ Len(Pieces) = 3 * Len(turn.answer) /\ Len(turn.answer) \in Nat
<1>. DEFINE n == 3 * Len(turn.answer)
            A == {Pieces[k] : k \in 1 .. n}
<1>1. Len(turn.answer) \in Nat /\ n \in Nat
    BY AnswerIs
<1>2. DOMAIN Pieces = 1 .. n /\ Pieces = [k \in 1 .. n |-> Pieces[k]]
    BY DEF Pieces
<1>3. \A k \in 1 .. n : Pieces[k] \in A
    OBVIOUS
<1>. HIDE DEF A, n
<1>4. Pieces \in [1 .. n -> A]
    BY <1>2, <1>3
<1>5. Pieces \in Seq(A) /\ Len(Pieces) = n
    BY <1>1, <1>4
<1>. QED  BY <1>1, <1>5 DEF A, n

Part(r) == <<"head", "tail", "newline">>[r + 1]

LEMMA PieceIs ==
    ASSUME turn \in Turns, NEW q \in Nat, NEW r \in 0 .. 2, 3 * q + r < 3 * Len(turn.answer)
    PROVE  Pieces[3 * q + r + 1] = [of |-> q + 1, part |-> Part(r)]
<1>. DEFINE k == 3 * q + r + 1
<1>1. k \in 1 .. (3 * Len(turn.answer))
    BY AnswerIs
<1>2. k - 1 = 3 * q + r /\ k + 2 = 3 * (q + 1) + r /\ q + 1 \in Nat
    OBVIOUS
<1>3. (k - 1) % 3 = r /\ (k + 2) \div 3 = q + 1
    BY <1>2, ThirdsAre
<1>. HIDE DEF k
<1>4. Pieces[k] = [of |-> (k + 2) \div 3, part |-> <<"head", "tail", "newline">>[((k - 1) % 3) + 1]]
    BY <1>1 DEF Pieces
<1>5. Pieces[k] = [of |-> q + 1, part |-> Part(r)]
    BY <1>3, <1>4 DEF Part
<1>. QED  BY <1>5 DEF k

\* The parts in their order.
LEMMA PartsAre == Part(0) = "head" /\ Part(1) = "tail" /\ Part(2) = "newline"
BY DEF Part

\* The pieces from the (k + 1)-th to the m-th.
Wire(k, m) == SubSeq(Pieces, k + 1, m)

\* One piece more of the wire.
LEMMA WireNext ==
    ASSUME turn \in Turns, NEW k \in Nat, NEW m \in Nat, k <= m, m < 3 * Len(turn.answer)
    PROVE  Wire(k, m + 1) = Append(Wire(k, m), Pieces[m + 1]) /\ IsList(Wire(k, m)) /\ Wire(k, k) = << >>
<1>. DEFINE A == {Pieces[i] : i \in 1 .. 3 * Len(turn.answer)}
<1>1. Pieces \in Seq(A) /\ Len(Pieces) = 3 * Len(turn.answer)
    BY WireIs
<1>. HIDE DEF A
<1>2. SubSeq(Pieces, k + 1, m + 1) = Append(SubSeq(Pieces, k + 1, m), Pieces[m + 1])
    BY <1>1
<1>3. SubSeq(Pieces, k + 1, m) \in Seq(A) /\ SubSeq(Pieces, k + 1, k) = << >>
    BY <1>1
<1>. QED  BY <1>2, <1>3, ListIs DEF Wire

\* What Split makes of the wire from the line after the a-th up to the m-th piece.
Cut(a, m) == [line |-> Wire(3 * (m \div 3), m), lines |-> Lines(a, (m \div 3) - a)]

\* Splitting a wire, piece by piece: payloads come out at their newlines.
LEMMA CutNext ==
    ASSUME turn \in Turns, NEW a \in Nat, NEW m \in Nat, 3 * a <= m, m < 3 * Len(turn.answer)
    PROVE  SplitPiece(Cut(a, m), Pieces[m + 1]) = Cut(a, m + 1)
<1>1. PICK q \in Nat, r \in 0 .. 2 : m = 3 * q + r
    BY Thirds
<1>2. m \div 3 = q /\ a <= q /\ q - a \in Nat
    BY <1>1, ThirdsAre
<1>3. Pieces[m + 1] = [of |-> q + 1, part |-> Part(r)]
    BY <1>1, PieceIs
<1>4. Cut(a, m) = [line |-> Wire(3 * q, m), lines |-> Lines(a, q - a)]
    BY <1>2 DEF Cut
<1>5. Wire(3 * q, m + 1) = Append(Wire(3 * q, m), Pieces[m + 1])
    BY <1>1, WireNext
<1>. DEFINE p == Pieces[m + 1]
            l == Wire(3 * q, m)
            n == Lines(a, q - a)
<1>6. p.of = q + 1 /\ p.part = Part(r)
    BY <1>3
<1>7. CASE r # 2
    <2>1. (m + 1) \div 3 = q
        <3>1. r + 1 \in 0 .. 2 /\ m + 1 = 3 * q + (r + 1)
            BY <1>1, <1>7
        <3>. QED  BY <3>1, ThirdsAre
    <2>2. Cut(a, m + 1) = [line |-> Append(l, p), lines |-> n]
        BY <1>5, <2>1 DEF Cut
    <2>3. p.part # "newline"
        <3>1. r = 0 \/ r = 1
            BY <1>7
        <3>. QED  BY <1>6, <3>1, PartsAre
    <2>. HIDE DEF p, l, n
    <2>4. SplitPiece([line |-> l, lines |-> n], p) = [line |-> Append(l, p), lines |-> n]
        BY <2>3 DEF SplitPiece
    <2>. QED  BY <1>4, <2>2, <2>4 DEF p, l, n
<1>8. CASE r = 2
    <2>1. m + 1 = 3 * (q + 1) /\ q + 1 \in Nat /\ m = 3 * q + 2
        BY <1>1, <1>8
    <2>2. (m + 1) \div 3 = q + 1
        <3>1. m + 1 = 3 * (q + 1) + 0 /\ 0 \in 0 .. 2
            BY <2>1
        <3>. QED  BY <2>1, <3>1, ThirdsAre
    <2>3. Wire(3 * (q + 1), m + 1) = << >>
        BY <2>1, WireIs DEF Wire
    <2>4. (q + 1) - a = (q - a) + 1 /\ a + (q - a) + 1 = q + 1
        BY <1>2
    <2>5. Lines(a, (q + 1) - a) = Append(n, q + 1)
        BY <1>2, <2>4, LinesNext
    <2>6. Cut(a, m + 1) = [line |-> << >>, lines |-> Append(n, q + 1)]
        BY <2>2, <2>3, <2>5 DEF Cut
    <2>7. p.part = "newline"
        BY <1>6, <1>8, PartsAre
    <2>8. l # << >> /\ Head(l) = Pieces[3 * q + 1]
        BY <2>1, WireIs DEF Wire
    <2>. DEFINE z == 0
    <2>12. z \in 0 .. 2 /\ 3 * q + z < 3 * Len(turn.answer) /\ 3 * q + 1 = 3 * q + z + 1
        BY <2>1, AnswerIs
    <2>13. Part(z) = "head"
        BY PartsAre
    <2>. HIDE DEF z
    <2>9. Pieces[3 * q + z + 1] = [of |-> q + 1, part |-> "head"]
        BY <2>12, <2>13, PieceIs
    <2>10. Head(l).part = "head" /\ Head(l).of = q + 1
        BY <2>8, <2>9, <2>12
    <2>. HIDE DEF p, l, n
    <2>11. SplitPiece([line |-> l, lines |-> n], p) = [line |-> << >>, lines |-> Append(n, q + 1)]
        BY <2>7, <2>8, <2>10 DEF SplitPiece
    <2>. QED  BY <1>4, <2>6, <2>11 DEF p, l, n
<1>. QED  BY <1>7, <1>8

\* Lines come out whole however the body is cut.
LEMMA SplitCuts ==
    ASSUME turn \in Turns, NEW a \in Nat, NEW m \in Nat, 3 * a <= m, m <= 3 * Len(turn.answer)
    PROVE  Split(Wire(3 * a, m)) = Cut(a, m)
<1>. DEFINE P == {d \in Nat : 3 * a + d <= 3 * Len(turn.answer)
                                => Split(Wire(3 * a, 3 * a + d)) = Cut(a, 3 * a + d)}
<1>1. 0 \in P
    <2>1. Split(<< >>) = NewLine
        BY SplitFold, Splitting!FoldEmpty, NumbersWellOrdered
    <2>2. Wire(3 * a, 3 * a) = << >>
        BY WireIs DEF Wire
    <2>3. (3 * a + 0) \div 3 = a /\ a - a = 0 /\ 3 * a + 0 = 3 * a
        BY ThirdsAre
    <2>4. Cut(a, 3 * a + 0) = [line |-> << >>, lines |-> << >>]
        BY <2>2, <2>3, NoLines DEF Cut
    <2>. QED  BY <2>1, <2>2, <2>3, <2>4 DEF NewLine
<1>2. ASSUME NEW d \in Nat \cap P PROVE d + 1 \in P
    <2>1. SUFFICES ASSUME 3 * a + (d + 1) <= 3 * Len(turn.answer)
                   PROVE  Split(Wire(3 * a, 3 * a + (d + 1))) = Cut(a, 3 * a + (d + 1))
        OBVIOUS
    <2>. DEFINE k == 3 * a + d
    <2>2. k \in Nat /\ 3 * a \in Nat /\ 3 * a <= k /\ k < 3 * Len(turn.answer) /\ 3 * a + (d + 1) = k + 1
        BY <2>1, AnswerIs
    <2>3. Split(Wire(3 * a, k)) = Cut(a, k)
        BY <1>2, <2>2, AnswerIs
    <2>. HIDE DEF k
    <2>4. Wire(3 * a, k + 1) = Append(Wire(3 * a, k), Pieces[k + 1]) /\ IsList(Wire(3 * a, k))
        BY <2>2, WireNext
    <2>. DEFINE A == ToSet(Wire(3 * a, k)) \cup {Pieces[k + 1]}
    <2>5. Wire(3 * a, k) \in Seq(A) /\ Pieces[k + 1] \in A
        BY <2>4 DEF IsList
    <2>. HIDE DEF A
    <2>6. Split(Append(Wire(3 * a, k), Pieces[k + 1])) = SplitPiece(Split(Wire(3 * a, k)), Pieces[k + 1])
        BY <2>5, SplitFold, Splitting!FoldAppend, NumbersWellOrdered
    <2>7. SplitPiece(Cut(a, k), Pieces[k + 1]) = Cut(a, k + 1)
        BY <2>2, CutNext
    <2>. QED  BY <2>2, <2>3, <2>4, <2>6, <2>7
<1>. HIDE DEF P
<1>3. m - (3 * a) \in P
    BY <1>1, <1>2, NaturalsSet
<1>4. 3 * a + (m - (3 * a)) = m
    OBVIOUS
<1>. QED  BY <1>3, <1>4 DEF P

(* ----------------------- the calls of a whole answer --------------------- *)

Below(D, k) == {j \in D : j < k}

\* Every rank below the number of indices is that of one index ...
LEMMA RankExists ==
    ASSUME NEW D, D \subseteq Nat, IsFiniteSet(D), NEW i \in Nat, i < Cardinality(D)
    PROVE  \E k \in D : Cardinality(Below(D, k)) = i
<1>. DEFINE P == {m \in Nat : m < Cardinality(D) => \E k \in D : Cardinality(Below(D, k)) = m}
<1>0. Cardinality(D) \in Nat
    BY FS_CardinalityType
<1>1. 0 \in P
    <2>1. SUFFICES ASSUME 0 < Cardinality(D) PROVE \E k \in D : Cardinality(Below(D, k)) = 0
        OBVIOUS
    <2>2. D # {}
        BY <2>1, FS_EmptySet
    <2>3. PICK k \in D : \A y \in D : k <= y
        BY <2>2, LeastNumber
    <2>4. ASSUME NEW j \in D, j < k PROVE FALSE
        <3>1. j \in Nat /\ k \in Nat /\ k <= j
            BY <2>3
        <3>. QED  BY <2>4, <3>1
    <2>5. Below(D, k) = {}
        BY <2>4 DEF Below
    <2>. QED  BY <2>5, FS_EmptySet
<1>2. ASSUME NEW m \in Nat \cap P PROVE m + 1 \in P
    <2>1. SUFFICES ASSUME m + 1 < Cardinality(D)
                   PROVE  \E l \in D : Cardinality(Below(D, l)) = m + 1
        OBVIOUS
    <2>2. PICK k \in D : Cardinality(Below(D, k)) = m
        BY <1>0, <1>2, <2>1
    <2>. DEFINE B == Below(D, k)
                T == B \cup {k}
    <2>3. IsFiniteSet(B) /\ k \notin B
        BY FS_Subset DEF Below
    <2>4. Cardinality(T) = m + 1
        BY <2>2, <2>3, FS_AddElement
    <2>5. T # D
        BY <2>1, <2>4
    <2>6. T \subseteq D
        BY DEF Below
    <2>7. PICK l \in D \ T : \A y \in D \ T : l <= y
        BY <2>5, <2>6, LeastNumber
    <2>8. Below(D, l) = T
        <3>1. ASSUME NEW j \in D, j < l PROVE j \in T
            BY <2>7, <3>1
        <3>2. ASSUME NEW j \in T PROVE j < l
            BY <2>7, <3>2 DEF Below
        <3>. QED  BY <2>6, <3>1, <3>2 DEF Below
    <2>. QED  BY <2>4, <2>7, <2>8
<1>. HIDE DEF P
<1>3. i \in P
    BY <1>1, <1>2, NaturalsSet
<1>. QED  BY <1>3 DEF P

\* ... and of one only.
LEMMA RanksDiffer ==
    ASSUME NEW D, D \subseteq Nat, IsFiniteSet(D), NEW k \in D, NEW l \in D,
           Cardinality(Below(D, k)) = Cardinality(Below(D, l))
    PROVE  k = l
<1>1. ASSUME NEW a \in D, NEW b \in D, a < b, Cardinality(Below(D, a)) = Cardinality(Below(D, b))
      PROVE  FALSE
    <2>4. Below(D, b) \subseteq D
        BY DEF Below
    <2>5. IsFiniteSet(Below(D, b))
        BY <2>4, FS_Subset
    <2>6. ASSUME NEW j \in D, j < a PROVE j < b
        <3>1. j \in Nat /\ a \in Nat /\ b \in Nat
            OBVIOUS
        <3>. QED  BY <1>1, <2>6, <3>1
    <2>1. IsFiniteSet(Below(D, b)) /\ Below(D, a) \subseteq Below(D, b)
        BY <2>5, <2>6 DEF Below
    <2>2. Below(D, a) = Below(D, b)
        BY <1>1, <2>1, FS_Subset
    <2>3. a \in Below(D, b) /\ a \notin Below(D, a)
        BY <1>1 DEF Below
    <2>. QED  BY <2>2, <2>3
<1>. QED  BY <1>1

\* And every index has a rank.
LEMMA RankIs ==
    ASSUME NEW D, D \subseteq Nat, IsFiniteSet(D), NEW k \in D
    PROVE  Cardinality(Below(D, k)) \in 0 .. (Cardinality(D) - 1) /\ Cardinality(D) \in Nat
<1>1. Below(D, k) \subseteq D /\ k \notin Below(D, k)
    BY DEF Below
<1>2. /\ IsFiniteSet(Below(D, k)) /\ Cardinality(Below(D, k)) <= Cardinality(D)
      /\ Cardinality(Below(D, k)) # Cardinality(D)
    BY <1>1, FS_Subset
<1>3. Cardinality(Below(D, k)) \in Nat /\ Cardinality(D) \in Nat
    BY <1>2, FS_CardinalityType
<1>. QED  BY <1>2, <1>3

\* The key of the i-th call, and how many calls there are.
KeyAt(i) == CHOOSE k \in DOMAIN Whole.calls : Cardinality(Below(DOMAIN Whole.calls, k)) = i - 1
CallCount == Cardinality(DOMAIN Whole.calls)

\* The whole answer is an answer, and outside the agents it is what is heard in the end.
LEMMA WholeShape ==
    ASSUME turn \in Turns
    PROVE  AnswerShape(Whole) /\ (turn.backend # "agent" => Whole = Heard(Len(turn.answer)))
<1>. DEFINE s == turn.answer
            S == ToSet(s)
<1>1. s \in Seq(S) /\ Len(s) \in Nat /\ \A e \in S : Legible(e)
    BY AnswerIs DEF IsList, ToSet
<1>. HIDE DEF S
<1>2. AnswerShape(CaptureAll(s)) /\ Whole = CaptureAll(s)
    BY <1>1, AnswersShaped DEF Whole
<1>. HIDE DEF s
<1>3. SubSeq(s, 1, Len(s)) = s
    BY <1>1
<1>4. turn.backend # "agent" => Decoded = s
    BY AnswerIs DEF s
<1>5. turn.backend # "agent" => Heard(Len(s)) = CaptureAll(s)
    BY <1>3, <1>4 DEF Heard
<1>. QED  BY <1>2, <1>5 DEF s

\* The calls of the whole answer can be numbered.
LEMMA KeysAre ==
    ASSUME turn \in Turns
    PROVE  /\ CallCount \in Nat
           /\ \A i \in 1 .. CallCount : KeyAt(i) \in DOMAIN Whole.calls
           /\ \A k \in DOMAIN Whole.calls : \E i \in 1 .. CallCount : KeyAt(i) = k
<1>. DEFINE D == DOMAIN Whole.calls
<1>1. D \subseteq Nat /\ IsFiniteSet(D)
    BY WholeShape DEF AnswerShape, CallsShape
<1>2. CallCount \in Nat /\ CallCount = Cardinality(D)
    BY <1>1, FS_CardinalityType DEF CallCount
<1>. HIDE DEF D
<1>3. \A i : KeyAt(i) = CHOOSE k \in D : Cardinality(Below(D, k)) = i - 1
    BY DEF KeyAt, D
<1>4. ASSUME NEW i \in 1 .. CallCount PROVE KeyAt(i) \in D /\ Cardinality(Below(D, KeyAt(i))) = i - 1
    <2>1. i - 1 \in Nat /\ i - 1 < Cardinality(D)
        BY <1>2
    <2>2. \E k \in D : Cardinality(Below(D, k)) = i - 1
        BY <1>1, <2>1, RankExists
    <2>. QED  BY <1>3, <2>2
<1>5. ASSUME NEW k \in D PROVE \E i \in 1 .. CallCount : KeyAt(i) = k
    <2>. DEFINE r == Cardinality(Below(D, k))
                i == r + 1
    <2>4. r \in 0 .. (CallCount - 1)
        BY <1>1, <1>2, RankIs
    <2>5. Cardinality(Below(D, k)) = r
        OBVIOUS
    <2>. HIDE DEF r
    <2>6. i \in 1 .. CallCount /\ r = i - 1
        BY <1>2, <2>4
    <2>1. i \in 1 .. CallCount /\ Cardinality(Below(D, k)) = i - 1
        BY <2>5, <2>6
    <2>. HIDE DEF i
    <2>2. KeyAt(i) \in D /\ Cardinality(Below(D, KeyAt(i))) = i - 1
        BY <1>4, <2>1
    <2>3. KeyAt(i) = k
        BY <1>1, <2>1, <2>2, RanksDiffer
    <2>. QED  BY <2>1, <2>3
<1>. QED  BY <1>2, <1>4, <1>5 DEF D

CallAt(i) == Whole.calls[KeyAt(i)]

\* The events of the calls, by number.
LEMMA CallsWholeIs ==
    CallsWhole = [i \in 1 .. CallCount |->
                    [type |-> "call", index |-> i - 1, id |-> CallAt(i).id, name |-> CallAt(i).name,
                     args |-> CallAt(i).args]]
<1>. DEFINE D == DOMAIN Whole.calls
            rank == [k \in D |-> Cardinality({j \in D : j < k})]
<1>1. \A k \in D : rank[k] = Cardinality(Below(D, k))
    BY DEF Below
<1>2. \A i : (CHOOSE k \in D : rank[k] = i - 1) = KeyAt(i)
    BY <1>1 DEF KeyAt
<1>. DEFINE G(i) == CHOOSE k \in D : rank[k] = i - 1
<1>3. CallsWhole = [i \in 1 .. Cardinality(D) |->
                      [type |-> "call", index |-> i - 1, id |-> Whole.calls[G(i)].id,
                       name |-> Whole.calls[G(i)].name, args |-> Whole.calls[G(i)].args]]
    BY DEF CallsWhole
<1>4. \A i : G(i) = KeyAt(i)
    BY <1>2
<1>5. CallCount = Cardinality(D)
    BY DEF CallCount
<1>. HIDE DEF G, rank, D
<1>. QED  BY <1>3, <1>4, <1>5 DEF CallAt

\* What yielding leaves.
LEMMA YieldIs ==
    ASSUME NEW st, ParserShape(st), NEW es, IsList(es)
    PROVE  /\ Unlike("events", Yield(st, es), st) /\ Yield(st, es).events = st.events \o es
           /\ ParserShape(Yield(st, es))
<1>. DEFINE x == st.events \o es
            v == Yield(st, es)
<1>1. IsList(x)
    BY ListConcat DEF ParserShape
<1>2. v = [st EXCEPT !.events = x]
    BY DEF Yield
<1>. HIDE DEF v, x
<1>3. Unlike("events", v, st) /\ v.events = x
    BY <1>2, ParserField DEF ParserShape
<1>4. ParserShape(v)
    BY <1>1, <1>3 DEF ParserShape, Unlike
<1>. QED  BY <1>3, <1>4 DEF v, x

\* Generators with the same events that differ in nothing else are the same.
LEMMA SameParser ==
    ASSUME NEW u, NEW v, NEW st, Unlike("events", u, st), Unlike("events", v, st), u.events = v.events
    PROVE  u = v
BY DEF Unlike, ParserRecord

\* Nothing yielded.
LEMMA YieldNone ==
    ASSUME NEW st, ParserShape(st)
    PROVE  Yield(st, << >>) = st
<1>. DEFINE v == Yield(st, << >>)
<1>1. Unlike("events", v, st) /\ v.events = st.events \o << >>
    BY EmptyList, YieldIs
<1>2. st.events \o << >> = st.events
    BY DEF ParserShape, IsList
<1>3. Unlike("events", st, st)
    BY DEF ParserShape, Unlike
<1>. HIDE DEF v
<1>4. v = st
    BY <1>1, <1>2, <1>3, SameParser
<1>. QED  BY <1>4 DEF v

\* Yielding in one go or in two.
LEMMA YieldTwice ==
    ASSUME NEW st, ParserShape(st), NEW a, IsList(a), NEW b, IsList(b), NEW c, Joins(a, b, c)
    PROVE  Yield(st, c) = Yield(Yield(st, a), b)
<1>. DEFINE u == Yield(st, a)
            v == Yield(u, b)
            x == Yield(st, c)
<1>0. IsList(c)
    BY ListConcat DEF Joins
<1>1. Unlike("events", u, st) /\ u.events = st.events \o a /\ ParserShape(u)
    BY YieldIs
<1>. HIDE DEF u
<1>2. Unlike("events", v, u) /\ v.events = u.events \o b
    BY <1>1, YieldIs
<1>3. Unlike("events", x, st) /\ x.events = st.events \o c
    BY <1>0, YieldIs
<1>. HIDE DEF v, x
<1>4. Unlike("events", v, st)
    BY <1>1, <1>2 DEF Unlike
<1>. DEFINE A == ToSet(st.events) \cup ToSet(a) \cup ToSet(b)
<1>5. st.events \in Seq(A) /\ a \in Seq(A) /\ b \in Seq(A)
    BY DEF IsList, ParserShape
<1>. HIDE DEF A
<1>6. Joins(st.events, a, u.events) /\ Joins(u.events, b, v.events) /\ Joins(st.events, c, x.events)
    BY <1>1, <1>2, <1>3 DEF Joins
<1>7. Joins(st.events, c, v.events)
    BY <1>5, <1>6, ConcatAgain
<1>8. v.events = x.events
    BY <1>6, <1>7 DEF Joins
<1>9. x = v
    BY <1>3, <1>4, <1>8, SameParser
<1>. QED  BY <1>9 DEF u, v, x

\* Yielding es takes an answer from h to k.
Passes(h, es, k) ==
    /\ IsList(es)
    /\ \A st, w : Good(h, st, w) /\ ~st.closed => Leads(st, w, k, Yield(st, es))

\* Lists of events that pass.
LEMMA PassNone ==
    ASSUME NEW h
    PROVE  Passes(h, << >>, h)
BY EmptyList, YieldNone, LeadsSame DEF Passes, Good

LEMMA PassOne ==
    ASSUME NEW h, NEW e, IsEvent(e), e.type # "done", Fits(h, e)
    PROVE  Passes(h, <<e>>, Capture(h, e))
BY OneList, YieldedOne DEF Passes

LEMMA PassMore ==
    ASSUME NEW h, NEW a, NEW k, Passes(h, a, k), NEW b, NEW l, Passes(k, b, l), NEW c, Joins(a, b, c)
    PROVE  Passes(h, c, l)
<1>1. IsList(a) /\ IsList(b)
    BY DEF Passes
<1>2. IsList(c)
    BY <1>1, ListConcat DEF Joins
<1>3. ASSUME NEW st, NEW w, Good(h, st, w), ~st.closed PROVE Leads(st, w, l, Yield(st, c))
    <2>. DEFINE u == Yield(st, a)
                v == Yield(u, b)
    <2>1. ParserShape(st) /\ IsList(st.events)
        BY <1>3 DEF Good, ParserShape
    <2>2. Yield(st, c) = v
        BY <1>1, <2>1, YieldTwice
    <2>3. Leads(st, w, k, u)
        BY <1>3 DEF Passes
    <2>4. u.closed = st.closed
        BY <1>1, <2>1, YieldIs DEF Unlike
    <2>5. \A w2 : Good(k, u, w2) => Leads(u, w2, l, v)
        BY <1>3, <2>4 DEF Passes
    <2>. HIDE DEF u, v
    <2>6. Leads(st, w, l, v)
        BY <2>1, <2>3, <2>5, LeadsFurther
    <2>. QED  BY <2>2, <2>6
<1>. QED  BY <1>2, <1>3 DEF Passes

Ans(t, c, u) == [text |-> t, calls |-> c, usage |-> u, finish |-> None]

\* An answer of which nothing has come.
LEMMA NothingYet == NoAnswer = Ans(<< >>, << >>, None) /\ CallsShape(<< >>)
<1>1. NoAnswer = Ans(<< >>, << >>, None)
    BY DEF NoAnswer, Ans
<1>2. DOMAIN << >> = {}
    OBVIOUS
<1>3. CallsShape(<< >>)
    BY <1>2, FS_EmptySet DEF CallsShape
<1>. QED  BY <1>1, <1>3

\* Answers put together from parts.
LEMMA AnsShape ==
    ASSUME NEW t \in Seq(Letters), NEW c, CallsShape(c), NEW u
    PROVE  AnswerShape(Ans(t, c, u))
BY DEF AnswerShape, Ans

\* The whole text, usage and calls pass one after another.
LEMMA TextPasses ==
    ASSUME turn \in Turns, NEW c, CallsShape(c), NEW u
    PROVE  Passes(Ans(<< >>, c, u), TextWhole, Ans(Whole.text, c, u))
<1>. DEFINE h == Ans(<< >>, c, u)
            t == Whole.text
<1>1. t \in Seq(Letters)
    BY WholeShape DEF AnswerShape
<1>0. << >> \in Seq(Letters)
    OBVIOUS
<1>2. AnswerShape(h)
    BY <1>0, AnsShape
<1>3. CASE t = << >>
    BY <1>3, PassNone DEF TextWhole
<1>4. CASE t # << >>
    <2>. DEFINE e == [type |-> "text", text |-> t]
    <2>1. IsEvent(e) /\ e.type = "text" /\ e.text = t
        BY <1>1, <1>4 DEF IsEvent, Legible
    <2>2. TextWhole = <<e>>
        BY <1>4 DEF TextWhole
    <2>. HIDE DEF e
    <2>3. Fits(h, e)
        BY <2>1 DEF Fits
    <2>4. Capture(h, e) = [text |-> h.text \o e.text, calls |-> h.calls, usage |-> h.usage,
                           finish |-> h.finish]
        BY <1>2, <2>1, CaptureParts
    <2>5. h.text = << >> /\ h.calls = c /\ h.usage = u /\ h.finish = None
        BY DEF Ans
    <2>6. << >> \o t = t
        BY <1>1
    <2>. HIDE DEF h, t
    <2>7. Capture(h, e) = Ans(t, c, u)
        BY <2>1, <2>4, <2>5, <2>6 DEF Ans
    <2>8. Passes(h, <<e>>, Ans(t, c, u))
        BY <2>1, <2>3, <2>7, PassOne
    <2>. QED  BY <2>2, <2>8 DEF h, t
<1>. QED  BY <1>3, <1>4

LEMMA UsagePasses ==
    ASSUME NEW t \in Seq(Letters), NEW c, CallsShape(c)
    PROVE  Passes(Ans(t, c, None), UsageWhole, Ans(t, c, Whole.usage))
<1>. DEFINE h == Ans(t, c, None)
            u == Whole.usage
<1>2. AnswerShape(h)
    BY AnsShape
<1>3. CASE u = None
    BY <1>3, PassNone DEF UsageWhole
<1>4. CASE u # None
    <2>. DEFINE e == [type |-> "usage", usage |-> u]
    <2>1. IsEvent(e) /\ e.type = "usage" /\ e.usage = u
        BY DEF IsEvent, Legible
    <2>2. UsageWhole = <<e>>
        BY <1>4 DEF UsageWhole
    <2>. HIDE DEF e
    <2>3. Fits(h, e)
        BY <2>1 DEF Fits
    <2>4. Capture(h, e) = [text |-> h.text, calls |-> h.calls, usage |-> e.usage, finish |-> h.finish]
        BY <1>2, <2>1, CaptureParts
    <2>5. h.text = t /\ h.calls = c /\ h.finish = None
        BY DEF Ans
    <2>. HIDE DEF h, u
    <2>7. Capture(h, e) = Ans(t, c, u)
        BY <2>1, <2>4, <2>5 DEF Ans
    <2>8. Passes(h, <<e>>, Ans(t, c, u))
        BY <2>1, <2>3, <2>7, PassOne
    <2>. QED  BY <2>2, <2>8 DEF h, u
<1>. QED  BY <1>3, <1>4

\* The first m calls of the whole answer, numbered from 0.
Numbered(m) == [k \in 0 .. (m - 1) |-> CallAt(k + 1)]

\* The first m calls are calls.
LEMMA NumberedShape ==
    ASSUME turn \in Turns, NEW m \in Nat, m <= CallCount
    PROVE  CallsShape(Numbered(m)) /\ DOMAIN Numbered(m) = 0 .. (m - 1)
<1>1. DOMAIN Numbered(m) = 0 .. (m - 1) /\ IsFiniteSet(0 .. (m - 1)) /\ 0 .. (m - 1) \subseteq Nat
    BY FS_Interval DEF Numbered
<1>2. ASSUME NEW k \in 0 .. (m - 1) PROVE CallShape(Numbered(m)[k])
    <2>1. k + 1 \in 1 .. CallCount
        BY KeysAre
    <2>2. KeyAt(k + 1) \in DOMAIN Whole.calls
        BY <2>1, KeysAre
    <2>3. CallShape(CallAt(k + 1))
        BY <2>2, WholeShape DEF CallAt, AnswerShape, CallsShape
    <2>. QED  BY <2>3 DEF Numbered
<1>3. Numbered(m) = [k \in DOMAIN Numbered(m) |-> Numbered(m)[k]]
    BY DEF Numbered
<1>. QED  BY <1>1, <1>2, <1>3 DEF CallsShape

\* One call more.
LEMMA NumberedNext ==
    ASSUME turn \in Turns, NEW m \in Nat, m < CallCount, NEW e, e = CallsWhole[m + 1]
    PROVE  /\ IsEvent(e) /\ e.type = "call" /\ e.index \notin DOMAIN Numbered(m)
           /\ CaptureCall(Numbered(m), e) = Numbered(m + 1)
<1>1. m + 1 \in 1 .. CallCount /\ (m + 1) - 1 = m
    BY KeysAre
<1>2. CallShape(CallAt(m + 1))
    BY <1>1, KeysAre, WholeShape DEF CallAt, AnswerShape, CallsShape
<1>3. e = [type |-> "call", index |-> m, id |-> CallAt(m + 1).id, name |-> CallAt(m + 1).name,
           args |-> CallAt(m + 1).args]
    BY <1>1, CallsWholeIs
<1>. DEFINE c == CallAt(m + 1)
<1>4. c = [id |-> c.id, name |-> c.name, args |-> c.args] /\ c.args \in Seq(Letters)
    BY <1>2 DEF CallShape
<1>5. c = CallAt(m + 1)
    OBVIOUS
<1>. HIDE DEF c
<1>6. e.type = "call" /\ e.index = m /\ e.id = c.id /\ e.name = c.name /\ e.args = c.args
    BY <1>3, <1>5
<1>7. NewCall(e) = c
    BY <1>4, <1>6 DEF NewCall
<1>8. IsEvent(e)
    BY <1>4, <1>6 DEF IsEvent, Legible
<1>9. DOMAIN Numbered(m) = 0 .. (m - 1) /\ m \notin DOMAIN Numbered(m)
    <2>1. m <= CallCount
        BY KeysAre
    <2>2. DOMAIN Numbered(m) = 0 .. (m - 1)
        BY <2>1, NumberedShape
    <2>. QED  BY <2>2
<1>10. CaptureCall(Numbered(m), e) = Extended(Numbered(m), m, c)
    BY <1>6, <1>7, <1>9 DEF CaptureCall
<1>11. Extended(Numbered(m), m, c) = [j \in 0 .. m |-> IF j = m THEN c ELSE Numbered(m)[j]]
    <2>1. (0 .. (m - 1)) \cup {m} = 0 .. m
        OBVIOUS
    <2>. QED  BY <1>9, <2>1 DEF Extended
<1>12. \A j \in 0 .. m : (IF j = m THEN c ELSE Numbered(m)[j]) = CallAt(j + 1)
    BY <1>5 DEF Numbered
<1>13. Numbered(m + 1) = [j \in 0 .. m |-> CallAt(j + 1)]
    BY <1>1 DEF Numbered
<1>14. CaptureCall(Numbered(m), e) = Numbered(m + 1)
    BY <1>10, <1>11, <1>12, <1>13
<1>. QED  BY <1>6, <1>8, <1>9, <1>14

\* So the calls of a whole answer pass.
LEMMA CallsPass ==
    ASSUME turn \in Turns, NEW t \in Seq(Letters), NEW u
    PROVE  Passes(Ans(t, << >>, u), CallsWhole, Ans(t, Numbered(CallCount), u))
<1>. DEFINE h == Ans(t, << >>, u)
            n == CallCount
            P == {m \in Nat : m <= n => Passes(h, SubSeq(CallsWhole, 1, m), Ans(t, Numbered(m), u))}
            A == {CallsWhole[i] : i \in 1 .. n}
<1>0. n \in Nat
    BY KeysAre
<1>1. DOMAIN CallsWhole = 1 .. n /\ CallsWhole = [i \in 1 .. n |-> CallsWhole[i]]
    BY CallsWholeIs
<1>2. \A i \in 1 .. n : CallsWhole[i] \in A
    OBVIOUS
<1>. HIDE DEF A
<1>3. CallsWhole \in [1 .. n -> A]
    BY <1>1, <1>2
<1>4. CallsWhole \in Seq(A) /\ Len(CallsWhole) = n
    BY <1>0, <1>3
<1>5. 0 \in P
    <2>1. SubSeq(CallsWhole, 1, 0) = << >>
        OBVIOUS
    <2>2. Numbered(0) = << >>
        BY DEF Numbered
    <2>. QED  BY <2>1, <2>2, PassNone
<1>6. ASSUME NEW m \in Nat \cap P PROVE m + 1 \in P
    <2>1. SUFFICES ASSUME m + 1 <= n
                   PROVE  Passes(h, SubSeq(CallsWhole, 1, m + 1), Ans(t, Numbered(m + 1), u))
        OBVIOUS
    <2>. DEFINE e == CallsWhole[m + 1]
                k == Ans(t, Numbered(m), u)
                a == SubSeq(CallsWhole, 1, m)
                b == SubSeq(CallsWhole, 1, m + 1)
    <2>2. m \in Nat /\ m < n /\ m <= n
        BY <1>0, <2>1
    <2>3. Passes(h, a, k)
        BY <1>6, <2>2
    <2>4. IsEvent(e) /\ e.type = "call" /\ e.index \notin DOMAIN Numbered(m)
        BY <2>2, NumberedNext
    <2>9. CaptureCall(Numbered(m), e) = Numbered(m + 1)
        BY <2>2, NumberedNext
    <2>5. AnswerShape(k)
        BY <2>2, NumberedShape, AnsShape
    <2>6. k.text = t /\ k.calls = Numbered(m) /\ k.usage = u /\ k.finish = None
        BY DEF Ans
    <2>7. b = Append(a, e) /\ a \in Seq(A)
        BY <1>4, <2>2
    <2>. HIDE DEF e, k, a, b
    <2>8. Fits(k, e)
        BY <2>4, <2>6 DEF Fits
    <2>10. Capture(k, e) = [text |-> k.text, calls |-> CaptureCall(k.calls, e), usage |-> k.usage,
                            finish |-> k.finish]
        BY <2>4, <2>5, CaptureParts
    <2>11. Capture(k, e) = Ans(t, Numbered(m + 1), u)
        BY <2>6, <2>9, <2>10 DEF Ans
    <2>12. Passes(k, <<e>>, Ans(t, Numbered(m + 1), u))
        BY <2>4, <2>8, <2>11, PassOne
    <2>13. Joins(a, <<e>>, b)
        BY <2>7, ListIs, ListAppend DEF Joins
    <2>14. Passes(h, b, Ans(t, Numbered(m + 1), u))
        BY <2>3, <2>12, <2>13, PassMore
    <2>. QED  BY <2>14 DEF b
<1>7. SubSeq(CallsWhole, 1, n) = CallsWhole
    BY <1>4
<1>. HIDE DEF P
<1>8. n \in P
    BY <1>0, <1>5, <1>6, NaturalsSet
<1>9. Passes(h, SubSeq(CallsWhole, 1, n), Ans(t, Numbered(n), u))
    BY <1>0, <1>8 DEF P
<1>. DEFINE s == SubSeq(CallsWhole, 1, n)
            c == CallsWhole
            k == Ans(t, Numbered(n), u)
<1>. HIDE DEF s, c, k, h
<1>10. s = c /\ Passes(h, s, k)
    BY <1>7, <1>9 DEF s, c, k
<1>11. Passes(h, c, k)
    BY <1>10
<1>. QED  BY <1>11 DEF h, c, k

\* However they are numbered, they are the calls of the provider.
LEMMA NumberedAre ==
    ASSUME turn \in Turns
    PROVE  {Numbered(CallCount)[i] : i \in DOMAIN Numbered(CallCount)}
             = {Whole.calls[k] : k \in DOMAIN Whole.calls}
<1>. DEFINE n == CallCount
<1>1. n \in Nat /\ DOMAIN Numbered(n) = 0 .. (n - 1)
    BY KeysAre, NumberedShape
<1>2. ASSUME NEW i \in 0 .. (n - 1) PROVE \E k \in DOMAIN Whole.calls : Numbered(n)[i] = Whole.calls[k]
    <2>1. i + 1 \in 1 .. n
        BY <1>1
    <2>2. KeyAt(i + 1) \in DOMAIN Whole.calls /\ Numbered(n)[i] = Whole.calls[KeyAt(i + 1)]
        BY <2>1, KeysAre DEF Numbered, CallAt
    <2>. QED  BY <2>2
<1>3. ASSUME NEW k \in DOMAIN Whole.calls PROVE \E i \in 0 .. (n - 1) : Numbered(n)[i] = Whole.calls[k]
    <2>1. PICK i \in 1 .. n : KeyAt(i) = k
        BY KeysAre
    <2>. DEFINE j == i - 1
    <2>2. j \in 0 .. (n - 1) /\ j + 1 = i
        BY <1>1
    <2>. HIDE DEF j
    <2>3. Numbered(n)[j] = Whole.calls[k]
        BY <2>1, <2>2 DEF Numbered, CallAt
    <2>. QED  BY <2>2, <2>3
<1>. DEFINE f == Numbered(n)
            g == Whole.calls
            D == DOMAIN g
            E == DOMAIN f
<1>4. \A i \in E : \E k \in D : f[i] = g[k]
    BY <1>1, <1>2
<1>5. \A k \in D : \E i \in E : f[i] = g[k]
    BY <1>1, <1>3
<1>. HIDE DEF f, g, D, E
<1>6. {f[i] : i \in E} = {g[k] : k \in D}
    BY <1>4, <1>5
<1>. QED  BY <1>6 DEF f, g, D, E

(* --------------------- what a step of the system keeps ------------------- *)

\* All that the invariant names depends on the turn only, and no step changes it.
LEMMA PrimedTools ==
    ASSUME turn' = turn
    PROVE  /\ \A name : AdapterOf(name)' = AdapterOf(name)
           /\ \A item : Quiet(item)' = Quiet(item)
           /\ \A call : ToolItem(call)' = ToolItem(call)
           /\ \A item : CompletedItem(item)' = CompletedItem(item)
<1>1. \A name : AdapterOf(name)' = AdapterOf(name)
    BY PrimedAdapters DEF AdapterOf, FindFirst, SelectInSeq
<1>2. \A item : Quiet(item)' = Quiet(item)
    BY <1>1 DEF Quiet
<1>3. \A call : ToolItem(call)' = ToolItem(call)
    BY <1>1 DEF ToolItem
<1>4. \A item : CompletedItem(item)' = CompletedItem(item)
    BY <1>3 DEF CompletedItem
<1>. QED  BY <1>1, <1>2, <1>3, <1>4

LEMMA PrimedGood ==
    ASSUME turn' = turn
    PROVE  /\ \A w, a : Follows(w, a)' = Follows(w, a)
           /\ \A es, w : OnWay(es, w)' = OnWay(es, w)
           /\ \A h, st, w : Good(h, st, w)' = Good(h, st, w)
<1>1. \A out, K : FramesOpen(out, K)' = FramesOpen(out, K)
    BY PrimedTools DEF FramesOpen, FramesSum
<1>2. \A w, a : ResponsesOpen(w, a)' = ResponsesOpen(w, a)
    BY <1>1 DEF ResponsesOpen
<1>3. \A w, a : ResponsesShut(w, a)' = ResponsesShut(w, a)
    BY PrimedTools DEF ResponsesShut
<1>4. \A w, a : Follows(w, a)' = Follows(w, a)
    BY <1>2, <1>3 DEF Follows
<1>5. \A es, w : OnWay(es, w)' = OnWay(es, w)
    BY <1>4 DEF OnWay
<1>6. \A h, st, w : Good(h, st, w)' = Good(h, st, w)
    BY <1>5 DEF Good
<1>. QED  BY <1>4, <1>5, <1>6

LEMMA PrimedHeard ==
    ASSUME turn' = turn
    PROVE  /\ \A n : Heard(n)' = Heard(n)
           /\ \A st, l : ParseAll(st, l)' = ParseAll(st, l)
           /\ \A k, m : Wire(k, m)' = Wire(k, m)
           /\ Whole' = Whole
<1>1. \A n : Heard(n)' = Heard(n)
    BY DEF Heard, Decoded, Payload
<1>2. \A k, m : Wire(k, m)' = Wire(k, m)
    BY DEF Wire, Pieces
<1>3. Whole' = Whole
    BY DEF Whole
<1>. QED  BY <1>1, <1>2, <1>3, PrimedParse

\* What the parser yielded, the writer has got.
LEMMA Advances ==
    ASSUME NEW st, NEW w, IsList(parser.events), Reaches(parser, writer, st, w)
    PROVE  WriteAll(writer, Yielded(st)) = w
<1>1. PICK Y : IsList(Y) /\ st.events = parser.events \o Y /\ w = WriteAll(writer, Y)
    BY DEF Reaches
<1>. DEFINE s == parser.events
            u == st.events
            A == ToSet(s) \cup ToSet(Y)
<1>2. s \in Seq(A) /\ Y \in Seq(A) /\ u = s \o Y
    BY <1>1 DEF IsList
<1>. HIDE DEF s, u, A
<1>3. SubSeq(u, Len(s) + 1, Len(u)) = Y
    BY <1>2
<1>4. Yielded(st) = SubSeq(u, Len(s) + 1, Len(u))
    BY DEF Yielded, s, u
<1>5. Yielded(st) = Y
    BY <1>3, <1>4
<1>. QED  BY <1>1, <1>5

\* Stretches of the wire, and of its lines, put together.
LEMMA WireJoined ==
    ASSUME turn \in Turns, NEW k \in Nat, NEW m \in Nat, NEW e \in Nat, k <= m, m <= e,
           e <= 3 * Len(turn.answer)
    PROVE  Wire(k, m) \o Wire(m, e) = Wire(k, e)
<1>. DEFINE A == {Pieces[i] : i \in 1 .. 3 * Len(turn.answer)}
            s == Pieces
<1>1. s \in Seq(A) /\ Len(s) = 3 * Len(turn.answer) /\ Len(turn.answer) \in Nat
    BY WireIs
<1>. HIDE DEF A, s
<1>2. SubSeq(s, k + 1, m) \o SubSeq(s, m + 1, e) = SubSeq(s, k + 1, e)
    BY <1>1
<1>. QED  BY <1>2 DEF Wire, s

LEMMA LinesJoined ==
    ASSUME NEW a \in Nat, NEW b \in Nat, NEW st
    PROVE  ParseAll(ParseAll(st, Lines(0, a)), Lines(a, b)) = ParseAll(st, Lines(0, a + b))
<1>1. Lines(0, a) \in Seq(Nat) /\ Lines(a, b) \in Seq(Nat)
    BY LinesNext
<1>2. Lines(0, a) \o Lines(a, b) = Lines(0, a + b)
    BY DEF Lines
<1>3. ParseAll(st, Lines(0, a) \o Lines(a, b)) = ParseAll(ParseAll(st, Lines(0, a)), Lines(a, b))
    BY <1>1, ParseFold, Parsing!FoldConcat, NumbersWellOrdered
<1>. QED  BY <1>2, <1>3

\* Fields that the client does not see, several at once.
LEMMA GoodAside ==
    ASSUME NEW h, NEW st, NEW w, Good(h, st, w), NEW v, ParserRecord(v), v.events = st.events,
           v.closed = st.closed
    PROVE  Leads(st, w, h, v)
<1>1. ParserShape(v)
    BY DEF Good, ParserShape
<1>2. Good(h, v, w)
    BY <1>1 DEF Good
<1>3. Reaches(st, w, v, w)
    BY ReachesSame DEF Good, ParserShape
<1>. QED  BY <1>2, <1>3 DEF Leads

(* ------------------------------ the invariant ---------------------------- *)

\* StreamInv relates three things: what the payloads received come to (Held), what the
\* generator has yielded (Good), and what the writer has sent (OnWay, in Good).  While the body
\* is read the writer is open, and the next event fits; at the end it has closed, done or no
\* done.  None of the properties is inductive: a frame is legal because of the items before it.

\* What of n payloads has been passed on: a late provider keeps all but the text.
Held(n) == IF turn.backend = "bridge_late" THEN Ans(Heard(n).text, << >>, None) ELSE Heard(n)
Arrived == IF turn.backend = "agent" THEN pos \div 3 ELSE pos

\* A generator that is through, and the writer that follows it; without done the writer
\* has closed as if it had come.
Through(st, w) ==
    \/ st.closed /\ \E h : Good(h, st, w)
    \/ /\ ~st.closed /\ EventsOK(st.events) /\ CaptureAll(st.events).finish = None
       /\ OnWay(Append(st.events, Done(None)), w) /\ w.closed

LinesRead == (pos + (IF status = "ended" THEN 1 ELSE 0)) \div 3

AgentReads ==
    turn.backend = "agent" =>
        /\ pos <= 3 * Len(turn.answer) /\ buffer = Wire(3 * (pos \div 3), pos)
        /\ parser = ParseAll(NewParser, Lines(0, LinesRead))

BridgeReads ==
    /\ turn.backend \in {"bridge", "bridge_late"} => pos <= Len(turn.answer)
    /\ turn.backend \notin {"agent", "bridge", "bridge_late"} => pos = 0
    /\ turn.backend = "bridge_late" => ~parser.usage /\ ~parser.calls
    /\ (turn.backend = "bridge" /\ status = "reading") =>
         /\ ~parser.usage => Heard(pos).usage = None
         /\ ~parser.calls => Heard(pos).calls = << >>

Tells(es) ==
    /\ CaptureAll(es).text = Whole.text /\ CaptureAll(es).usage = Whole.usage
    /\ {CaptureAll(es).calls[i] : i \in DOMAIN CaptureAll(es).calls}
         = {Whole.calls[i] : i \in DOMAIN Whole.calls}

StreamInv ==
    /\ turn \in Turns /\ pos \in Nat /\ status \in {"reading", "ended", "broken"}
    /\ status # "ended" => Good(Held(Arrived), parser, writer) /\ ~parser.closed
    /\ status = "ended" => Through(parser, writer)
    /\ AgentReads /\ BridgeReads
    /\ (turn.backend # "agent" /\ parser.closed /\ (turn.backend = "json" \/ pos = Len(turn.answer)))
         => Tells(parser.events)

\* Nor do these depend on more.
LEMMA PrimedInv ==
    ASSUME turn' = turn
    PROVE  /\ \A n : Held(n)' = Held(n)
           /\ \A st, w : Through(st, w)' = Through(st, w)
           /\ \A es : Tells(es)' = Tells(es)
BY PrimedHeard, PrimedGood DEF Held, Through, Tells

\* The invariant holds at first.
LEMMA StreamInit == Init => StreamInv
<1>. SUFFICES ASSUME Init PROVE StreamInv
    OBVIOUS
<1>1. /\ turn \in Turns /\ pos = 0 /\ buffer = << >> /\ status = "reading"
      /\ parser = NewParser /\ writer = NewWriter
    BY DEF Init
<1>2. NewParser.events = << >> /\ NewParser.closed = FALSE /\ ParserShape(NewParser)
    BY EmptyList DEF NewParser, ParserShape, ParserRecord
<1>3. NoAnswer.finish = None /\ CaptureAll(<< >>) = NoAnswer
    BY FoldsOfNone DEF NoAnswer
<1>4. Good(NoAnswer, NewParser, NewWriter)
    BY <1>2, <1>3, WayStarts DEF Good
<1>5. Held(0) = NoAnswer
    <2>1. Heard(0) = NoAnswer /\ NoAnswer.text = << >> /\ NoAnswer = Ans(<< >>, << >>, None)
        BY HeardNone, NothingYet DEF NoAnswer
    <2>. QED  BY <2>1 DEF Held
<1>6. 0 \div 3 = 0 /\ (0 + 0) \div 3 = 0
    OBVIOUS
<1>7. Good(Held(Arrived), parser, writer) /\ ~parser.closed
    BY <1>1, <1>2, <1>4, <1>5, <1>6 DEF Arrived
<1>8. LinesRead = 0
    BY <1>1, <1>6 DEF LinesRead
<1>9. AgentReads
    <2>1. Wire(0, 0) = << >>
        BY <1>1, WireIs DEF Wire
    <2>2. ParseAll(NewParser, Lines(0, 0)) = NewParser
        BY NoLines, FoldsOfNone
    <2>3. 3 * (0 \div 3) = 0
        BY <1>6
    <2>. QED  BY <1>1, <1>8, <2>1, <2>2, <2>3, AnswerIs DEF AgentReads
<1>10. BridgeReads
    <2>1. ~NewParser.usage /\ ~NewParser.calls
        BY DEF NewParser
    <2>2. Heard(0).usage = None /\ Heard(0).calls = << >>
        BY HeardNone DEF NoAnswer
    <2>. QED  BY <1>1, <2>1, <2>2, AnswerIs DEF BridgeReads
<1>. QED  BY <1>1, <1>7, <1>9, <1>10 DEF StreamInv

\* A connection that breaks.
LEMMA StepBreak ==
    ASSUME StreamInv, Break
    PROVE  StreamInv'
<1>1. /\ status = "reading" /\ status' = "broken"
      /\ turn' = turn /\ pos' = pos /\ buffer' = buffer /\ parser' = parser /\ writer' = writer
    BY DEF Break
<1>2. Good(Held(Arrived), parser, writer) /\ ~parser.closed
    BY <1>1 DEF StreamInv
<1>3. (Good(Held(Arrived), parser, writer))'
    <2>1. Arrived' = Arrived
        BY <1>1 DEF Arrived
    <2>2. Held(Arrived)' = Held(Arrived)
        BY <1>1, <2>1, PrimedInv
    <2>3. \A h, st, w : Good(h, st, w)' = Good(h, st, w)
        BY <1>1, PrimedGood
    <2>. QED  BY <1>1, <1>2, <2>2, <2>3
<1>4. AgentReads'
    <2>1. LinesRead' = LinesRead
        BY <1>1 DEF LinesRead
    <2>. QED  BY <1>1, <2>1, PrimedHeard DEF AgentReads, StreamInv
<1>5. BridgeReads'
    BY <1>1 DEF BridgeReads, StreamInv
<1>. QED  BY <1>1, <1>2, <1>3, <1>4, <1>5 DEF StreamInv

\* The line that the buffer holds when the body ends, if it is whole.
LeftOf(b) ==
    IF {"head", "tail"} = {b[i].part : i \in DOMAIN b} THEN <<b[1].of>> ELSE << >>

\* What is left in the buffer at the end of the body counts as a line if only its newline is missing.
LEMMA LeftIs ==
    ASSUME turn \in Turns, NEW q \in Nat, NEW r \in 0 .. 2, 3 * q + r <= 3 * Len(turn.answer),
           NEW b, b = Wire(3 * q, 3 * q + r)
    PROVE  LeftOf(b) = Lines(q, IF r = 2 THEN 1 ELSE 0)
<1>. DEFINE A == {Pieces[i] : i \in 1 .. 3 * Len(turn.answer)}
            s == Pieces
<1>1. s \in Seq(A) /\ Len(s) = 3 * Len(turn.answer) /\ Len(turn.answer) \in Nat
    BY WireIs
<1>2. b = SubSeq(s, 3 * q + 1, 3 * q + r)
    BY DEF Wire
<1>3. ASSUME NEW j \in 0 .. 2, j < r PROVE s[3 * q + j + 1].part = Part(j) /\ s[3 * q + j + 1].of = q + 1
    <2>1. 3 * q + j < 3 * Len(turn.answer)
        BY <1>1, <1>3
    <2>2. Pieces[3 * q + j + 1] = [of |-> q + 1, part |-> Part(j)]
        BY <2>1, PieceIs
    <2>. QED  BY <2>2
<1>. HIDE DEF A, s
<1>4. DOMAIN b = 1 .. r /\ \A i \in 1 .. r : b[i] = s[3 * q + i]
    BY <1>1, <1>2
<1>5. ASSUME NEW i \in 1 .. r PROVE b[i].part = Part(i - 1) /\ b[i].of = q + 1
    <2>1. i - 1 \in 0 .. 2 /\ i - 1 < r /\ 3 * q + (i - 1) + 1 = 3 * q + i
        OBVIOUS
    <2>2. s[3 * q + i].part = Part(i - 1) /\ s[3 * q + i].of = q + 1
        BY <1>3, <2>1
    <2>. QED  BY <1>4, <2>2
<1>6. CASE r = 2
    <2>1. DOMAIN b = {1, 2} /\ b[1].part = "head" /\ b[2].part = "tail" /\ b[1].of = q + 1
        <3>1. 1 \in 1 .. r /\ 2 \in 1 .. r /\ 1 - 1 = 0 /\ 2 - 1 = 1 /\ 1 .. r = {1, 2}
            BY <1>6
        <3>2. b[1].part = Part(0) /\ b[1].of = q + 1
            BY <1>5, <3>1
        <3>3. b[2].part = Part(1)
            BY <1>5, <3>1
        <3>. QED  BY <1>4, <3>1, <3>2, <3>3, PartsAre
    <2>2. {b[i].part : i \in DOMAIN b} = {"head", "tail"}
        BY <2>1
    <2>3. Lines(q, 1) = <<q + 1>>
        BY DEF Lines
    <2>. QED  BY <1>6, <2>1, <2>2, <2>3 DEF LeftOf
<1>7. CASE r # 2
    <2>1. \A i \in DOMAIN b : b[i].part # "tail"
        <3>1. ASSUME NEW i \in 1 .. r PROVE b[i].part = "head"
            <4>1. i = 1 /\ i - 1 = 0
                BY <1>7
            <4>. QED  BY <1>5, <4>1, PartsAre
        <3>. QED  BY <1>4, <3>1
    <2>2. {"head", "tail"} # {b[i].part : i \in DOMAIN b}
        BY <2>1
    <2>3. Lines(q, 0) = << >>
        BY NoLines
    <2>. QED  BY <1>7, <2>2, <2>3 DEF LeftOf
<1>. QED  BY <1>6, <1>7

\* What the lines read up to the q2-th do to an agent's generator and its writer.
LEMMA AgentLeads ==
    ASSUME StreamInv, status = "reading", turn.backend = "agent", NEW b \in Nat,
           (pos \div 3) + b <= Len(turn.answer), NEW st, st = ParseAll(parser, Lines(pos \div 3, b))
    PROVE  /\ st = ParseAll(NewParser, Lines(0, (pos \div 3) + b))
           /\ \E w : w = WriteAll(writer, Yielded(st)) /\ GoodAt((pos \div 3) + b, st, w)
<1>. DEFINE a == pos \div 3
<1>1. turn \in Turns /\ pos \in Nat /\ a \in Nat
    BY DEF StreamInv
<1>2. Good(Heard(a), parser, writer) /\ IsList(parser.events)
    BY DEF StreamInv, Held, Arrived, Good, ParserShape
<1>3. parser = ParseAll(NewParser, Lines(0, a))
    <2>1. LinesRead = a
        BY <1>1 DEF LinesRead
    <2>. QED  BY <2>1 DEF StreamInv, AgentReads
<1>. HIDE DEF a
<1>4. GoodAt(a, parser, writer)
    BY <1>2 DEF GoodAt
<1>5. st = ParseAll(parser, Lines(a, b)) /\ a + b <= Len(turn.answer)
    BY DEF a
<1>6. LeadsTo(parser, writer, a + b, st)
    BY <1>1, <1>4, <1>5, LinesLead
<1>7. PICK w : Reaches(parser, writer, st, w) /\ GoodAt(a + b, st, w)
    BY <1>6 DEF LeadsTo
<1>8. WriteAll(writer, Yielded(st)) = w
    BY <1>2, <1>7, Advances
<1>9. st = ParseAll(NewParser, Lines(0, a + b))
    BY <1>1, <1>3, <1>5, LinesJoined
<1>. QED  BY <1>7, <1>8, <1>9 DEF a

\* A generator that is through ignores further lines.
LEMMA ClosedIgnores ==
    ASSUME NEW n \in Nat, ParseAll(NewParser, Lines(0, n)).closed
    PROVE  ParseAll(NewParser, Lines(0, n + 1)) = ParseAll(NewParser, Lines(0, n))
<1>1. ParseAll(NewParser, Lines(0, n + 1)) = ParseLine(ParseAll(NewParser, Lines(0, n)), 0 + n + 1)
    BY LinesNext
<1>. QED  BY <1>1 DEF ParseLine, Parse

\* A chunk received.
LEMMA StepReceive ==
    ASSUME StreamInv, NEW n \in 1 .. MaxChunk, Receive(n)
    PROVE  StreamInv'
<1>. DEFINE m == pos + n
            a == pos \div 3
            q == m \div 3
            text == buffer \o SubSeq(Pieces, pos + 1, m)
            st == ParseAll(parser, WholeLines(text))
            L == Len(turn.answer)
<1>1. /\ status = "reading" /\ turn.backend = "agent" /\ m <= Len(Pieces)
      /\ pos' = m /\ buffer' = Kept(text) /\ parser' = st /\ turn' = turn
      /\ writer' = WriteAll(writer, Yielded(st))
      /\ status' = IF st.closed THEN "ended" ELSE status
    BY DEF Receive, Advance
<1>2. turn \in Turns /\ pos \in Nat /\ n \in Nat /\ m \in Nat /\ L \in Nat /\ Len(Pieces) = 3 * L
    BY AnswerIs, WireIs DEF StreamInv
<1>3. PICK r \in 0 .. 2 : pos = 3 * a + r /\ a \in Nat
    BY <1>2, Thirds, ThirdsAre
<1>4. PICK t \in 0 .. 2 : m = 3 * q + t /\ q \in Nat
    BY <1>2, Thirds, ThirdsAre
<1>. HIDE DEF a, q, m, L
<1>5. 3 * a <= pos /\ pos <= m /\ m <= 3 * L /\ a <= q /\ q - a \in Nat /\ q <= L
      /\ a + (q - a) = q
    <2>1. m = pos + n
        BY DEF m
    <2>. QED  BY <1>1, <1>2, <1>3, <1>4, <2>1
<1>6. buffer = Wire(3 * a, pos)
    BY <1>1 DEF StreamInv, AgentReads, a
<1>7. text = Wire(3 * a, m)
    <2>1. SubSeq(Pieces, pos + 1, m) = Wire(pos, m)
        BY DEF Wire
    <2>2. 3 * a \in Nat
        BY <1>3
    <2>3. Wire(3 * a, pos) \o Wire(pos, m) = Wire(3 * a, m)
        BY <1>2, <1>5, <2>2, WireJoined DEF L
    <2>. QED  BY <1>6, <2>1, <2>3
<1>. HIDE DEF text
<1>8. Split(text) = Cut(a, m)
    <2>1. Split(Wire(3 * a, m)) = Cut(a, m)
        BY <1>2, <1>3, <1>5, SplitCuts DEF L
    <2>. QED  BY <1>7, <2>1
<1>9. WholeLines(text) = Lines(a, q - a) /\ Kept(text) = Wire(3 * q, m)
    BY <1>8 DEF WholeLines, Kept, Cut, q
<1>10. st = ParseAll(parser, Lines(a, q - a))
    BY <1>9
<1>. HIDE DEF st
<1>11. /\ st = ParseAll(NewParser, Lines(0, q))
       /\ \E w : w = WriteAll(writer, Yielded(st)) /\ GoodAt(q, st, w)
    <2>1. (pos \div 3) + (q - a) = q
        BY <1>5 DEF a
    <2>2. st = ParseAll(parser, Lines(pos \div 3, q - a))
        BY <1>10 DEF a
    <2>. QED  BY <1>1, <1>5, <2>1, <2>2, AgentLeads DEF L
<1>12. GoodAt(q, st, writer') /\ st = ParseAll(NewParser, Lines(0, q))
    BY <1>1, <1>11
<1>13. PICK h : Good(h, st, writer') /\ (~st.closed => h = Heard(q))
    BY <1>12 DEF GoodAt
<1>14. /\ \A g, p, w : Good(g, p, w)' = Good(g, p, w)
       /\ \A k : Held(k)' = Held(k) /\ Heard(k)' = Heard(k)
       /\ \A p, w : Through(p, w)' = Through(p, w)
       /\ \A p, l : ParseAll(p, l)' = ParseAll(p, l)
       /\ \A k, l : Wire(k, l)' = Wire(k, l)
    BY <1>1, PrimedGood, PrimedInv, PrimedHeard
<1>15. Arrived' = q /\ turn'.backend = "agent"
    BY <1>1 DEF Arrived, q
<1>16. status' # "ended" => (Good(Held(Arrived), parser, writer) /\ ~parser.closed)'
    <2>1. SUFFICES ASSUME status' # "ended" PROVE (Good(Held(Arrived), parser, writer) /\ ~parser.closed)'
        OBVIOUS
    <2>2. ~st.closed /\ Held(q) = Heard(q)
        BY <1>1, <2>1 DEF Held
    <2>3. Good(Held(q), st, writer')
        BY <1>13, <2>2
    <2>4. Held(Arrived)' = Held(q)
        BY <1>14, <1>15
    <2>. QED  BY <1>1, <1>14, <2>2, <2>3, <2>4
<1>17. status' = "ended" => Through(parser, writer)'
    <2>1. SUFFICES ASSUME status' = "ended" PROVE Through(parser, writer)'
        OBVIOUS
    <2>2. st.closed
        BY <1>1, <2>1
    <2>3. Through(st, writer')
        BY <1>13, <2>2 DEF Through
    <2>. QED  BY <1>1, <1>14, <2>3
<1>18. AgentReads'
    <2>1. parser' = ParseAll(NewParser, Lines(0, LinesRead'))
        <3>1. CASE st.closed
            <4>1. LinesRead' = (m + 1) \div 3
                BY <1>1, <3>1 DEF LinesRead
            <4>2. CASE t = 2
                <5>1. m + 1 = 3 * (q + 1) + 0 /\ q + 1 \in Nat /\ 0 \in 0 .. 2
                    BY <1>4, <4>2
                <5>2. (m + 1) \div 3 = q + 1
                    BY <5>1, ThirdsAre
                <5>3. ParseAll(NewParser, Lines(0, q + 1)) = ParseAll(NewParser, Lines(0, q))
                    BY <1>4, <1>12, <3>1, ClosedIgnores
                <5>. QED  BY <1>1, <1>12, <4>1, <5>2, <5>3
            <4>3. CASE t # 2
                <5>1. m + 1 = 3 * q + (t + 1) /\ t + 1 \in 0 .. 2
                    BY <1>4, <4>3
                <5>2. (m + 1) \div 3 = q
                    BY <1>4, <5>1, ThirdsAre
                <5>. QED  BY <1>1, <1>12, <4>1, <5>2
            <4>. QED  BY <4>2, <4>3
        <3>2. CASE ~st.closed
            <4>1. LinesRead' = (m + 0) \div 3
                BY <1>1, <3>2 DEF LinesRead
            <4>2. (m + 0) \div 3 = q
                BY <1>2 DEF q
            <4>. QED  BY <1>1, <1>12, <4>1, <4>2
        <3>. QED  BY <3>1, <3>2
    <2>2. buffer' = Wire(3 * (pos' \div 3), pos')
        BY <1>1, <1>9 DEF q
    <2>3. pos' <= 3 * Len(turn'.answer)
        BY <1>1, <1>5 DEF L
    <2>. QED  BY <1>14, <2>1, <2>2, <2>3 DEF AgentReads
<1>19. BridgeReads'
    BY <1>15 DEF BridgeReads
<1>20. turn' \in Turns /\ pos' \in Nat /\ status' \in {"reading", "ended", "broken"}
    BY <1>1, <1>2
<1>. QED  BY <1>15, <1>16, <1>17, <1>18, <1>19, <1>20 DEF StreamInv

\* The end of the body.
LEMMA StepEndOfBody ==
    ASSUME StreamInv, EndOfBody
    PROVE  StreamInv'
<1>. DEFINE a == pos \div 3
            left == LeftOf(buffer)
            st == ParseAll(parser, left)
            u == WriteAll(writer, Yielded(st))
            e == Done(None)
            L == Len(turn.answer)
<1>1. /\ status = "reading" /\ turn.backend = "agent" /\ status' = "ended" /\ parser' = st
      /\ writer' = Write(u, e) /\ turn' = turn /\ pos' = pos /\ buffer' = buffer
    BY DEF EndOfBody, LeftOf
<1>2. turn \in Turns /\ pos \in Nat /\ L \in Nat /\ pos <= 3 * L
    BY <1>1, AnswerIs DEF StreamInv, AgentReads
<1>3. PICK r \in 0 .. 2 : pos = 3 * a + r /\ a \in Nat
    BY <1>2, Thirds, ThirdsAre
<1>. DEFINE b == IF r = 2 THEN 1 ELSE 0
<1>4. buffer = Wire(3 * a, 3 * a + r)
    BY <1>1, <1>3 DEF StreamInv, AgentReads
<1>. HIDE DEF a, L
<1>16. 3 * a + r <= 3 * Len(turn.answer)
    BY <1>2, <1>3 DEF L
<1>5. left = Lines(a, b)
    BY <1>2, <1>3, <1>4, <1>16, LeftIs
<1>6. b \in Nat /\ a + b <= L /\ a + b = (pos + 1) \div 3
    <2>1. CASE r = 2
        <3>1. pos + 1 = 3 * (a + 1) + 0 /\ a + 1 \in Nat /\ 0 \in 0 .. 2
            BY <1>3, <2>1
        <3>2. (pos + 1) \div 3 = a + 1
            BY <3>1, ThirdsAre
        <3>. QED  BY <1>2, <1>3, <2>1, <3>2
    <2>2. CASE r # 2
        <3>1. pos + 1 = 3 * a + (r + 1) /\ r + 1 \in 0 .. 2
            BY <1>3, <2>2
        <3>2. (pos + 1) \div 3 = a
            BY <1>3, <3>1, ThirdsAre
        <3>. QED  BY <1>2, <1>3, <2>2, <3>2
    <2>. QED  BY <2>1, <2>2
<1>. HIDE DEF left, b
<1>7. st = ParseAll(parser, Lines(pos \div 3, b)) /\ (pos \div 3) + b <= Len(turn.answer)
    BY <1>5, <1>6 DEF a, L
<1>. HIDE DEF st
<1>8. st = ParseAll(NewParser, Lines(0, a + b)) /\ GoodAt(a + b, st, u)
    BY <1>1, <1>6, <1>7, AgentLeads DEF a
<1>. HIDE DEF u
<1>9. PICK h : Good(h, st, u)
    BY <1>8 DEF GoodAt
<1>10. IsEvent(e) /\ e.type = "done"
    BY DoneIsEvent
<1>11. Through(st, Write(u, e))
    <2>1. CASE st.closed
        <3>1. u.closed = st.closed
            BY <1>9 DEF Good
        <3>2. Write(u, e) = u
            BY <2>1, <3>1 DEF Write
        <3>. QED  BY <1>9, <2>1, <3>2 DEF Through
    <2>2. CASE ~st.closed
        <3>1. OnWay(st.events, u) /\ ~u.closed /\ CaptureAll(st.events) = h /\ h.finish = None
            BY <1>9, <2>2 DEF Good
        <3>. HIDE DEF e
        <3>3. OnWay(Append(st.events, e), Write(u, e)) /\ Write(u, e).closed = TRUE
            BY <1>10, <3>1, WayEnds
        <3>4. EventsOK(st.events) /\ CaptureAll(st.events).finish = None
            BY <3>1 DEF OnWay
        <3>. QED  BY <2>2, <3>3, <3>4 DEF Through, e
    <2>. QED  BY <2>1, <2>2
<1>. HIDE DEF e
<1>12. Through(parser, writer)'
    BY <1>1, <1>11, PrimedInv
<1>13. AgentReads'
    <2>1. LinesRead' = a + b
        BY <1>1, <1>6 DEF LinesRead
    <2>2. buffer' = Wire(3 * (pos \div 3), pos)
        BY <1>1 DEF StreamInv, AgentReads
    <2>3. pos' <= 3 * Len(turn'.answer)
        BY <1>1, <1>2 DEF L
    <2>4. /\ \A p, l : ParseAll(p, l)' = ParseAll(p, l)
          /\ \A k, l : Wire(k, l)' = Wire(k, l)
        BY <1>1, PrimedHeard
    <2>. QED  BY <1>1, <1>8, <2>1, <2>2, <2>3, <2>4 DEF AgentReads
<1>14. BridgeReads' /\ turn'.backend = "agent"
    BY <1>1 DEF BridgeReads
<1>15. turn' \in Turns /\ pos' \in Nat
    BY <1>1, <1>2
<1>. QED  BY <1>1, <1>12, <1>13, <1>14, <1>15 DEF StreamInv

\* An answer that is passed on whole and closed.
LEMMA LedClosed ==
    ASSUME NEW w, NEW st, Leads(parser, writer, w, st), IsList(parser.events), AnswerShape(w), st.closed
    PROVE  /\ Through(st, WriteAll(writer, Yielded(st)))
           /\ CaptureAll(st.events).text = w.text /\ CaptureAll(st.events).usage = w.usage
           /\ CaptureAll(st.events).calls = w.calls
<1>1. PICK v : Reaches(parser, writer, st, v) /\ Good(w, st, v)
    BY DEF Leads
<1>2. WriteAll(writer, Yielded(st)) = v
    BY <1>1, Advances
<1>3. Through(st, v)
    BY <1>1 DEF Through
<1>4. PICK r : CaptureAll(st.events) = Capture(w, Done(r))
    BY <1>1 DEF Good
<1>. DEFINE e == Done(r)
<1>5. IsEvent(e) /\ e.type = "done"
    BY DoneIsEvent
<1>. HIDE DEF e
<1>6. Capture(w, e).text = w.text /\ Capture(w, e).usage = w.usage /\ Capture(w, e).calls = w.calls
    BY <1>5, CaptureFields
<1>. QED  BY <1>2, <1>3, <1>4, <1>6 DEF e

\* A last step of a provider that is no agent.
LEMMA LastStep ==
    ASSUME StreamInv, turn' = turn, pos' = pos, status' = "ended", turn.backend # "agent",
           NEW h, NEW st, Leads(parser, writer, h, st), AnswerShape(h), st.closed,
           parser' = st, writer' = WriteAll(writer, Yielded(st)), IsList(parser.events),
           turn.backend = "bridge_late" => ~st.usage /\ ~st.calls,
           (turn.backend = "json" \/ pos = Len(turn.answer)) =>
               /\ h.text = Whole.text /\ h.usage = Whole.usage
               /\ {h.calls[i] : i \in DOMAIN h.calls} = {Whole.calls[i] : i \in DOMAIN Whole.calls}
    PROVE  StreamInv'
<1>1. /\ Through(st, writer') /\ CaptureAll(st.events).text = h.text
      /\ CaptureAll(st.events).usage = h.usage /\ CaptureAll(st.events).calls = h.calls
    BY LedClosed
<1>2. Through(parser, writer)'
    BY <1>1, PrimedInv
<1>3. (turn.backend = "json" \/ pos = Len(turn.answer)) => Tells(st.events)
    BY <1>1 DEF Tells
<1>4. (turn'.backend = "json" \/ pos' = Len(turn'.answer)) => Tells(parser.events)'
    BY <1>3, PrimedInv
<1>5. BridgeReads'
    BY DEF StreamInv, BridgeReads
<1>6. AgentReads'
    BY DEF AgentReads
<1>. QED  BY <1>2, <1>4, <1>5, <1>6 DEF StreamInv

\* A body that is JSON, at once.
LEMMA StepReceiveJson ==
    ASSUME StreamInv, ReceiveJson
    PROVE  StreamInv'
<1>. DEFINE b == Begin(parser)
            es == TextWhole \o CallsWhole \o UsageWhole
            y == Yield(b, es)
            st == Close(y, FinishOf)
            k == Ans(Whole.text, Numbered(CallCount), Whole.usage)
<1>1. /\ status = "reading" /\ turn.backend = "json" /\ status' = "ended" /\ turn' = turn /\ pos' = pos
      /\ parser' = st /\ writer' = WriteAll(writer, Yielded(st))
    BY DEF ReceiveJson, Advance
<1>2. turn \in Turns /\ pos = 0
    BY <1>1 DEF StreamInv, BridgeReads
<1>3. Good(Ans(<< >>, << >>, None), parser, writer) /\ ~parser.closed
    <2>1. Held(Arrived) = Ans(<< >>, << >>, None)
        BY <1>1, <1>2, HeardNone, NothingYet DEF Held, Arrived
    <2>. QED  BY <1>1, <2>1 DEF StreamInv
<1>. DEFINE h == Ans(<< >>, << >>, None)
<1>4. Leads(parser, writer, h, b) /\ ~b.closed
    BY <1>3, Begins
<1>5. Passes(h, es, k) /\ AnswerShape(k)
    <2>1. Whole.text \in Seq(Letters) /\ CallsShape(Numbered(CallCount)) /\ CallsShape(<< >>)
        BY <1>2, WholeShape, KeysAre, NumberedShape, NothingYet DEF AnswerShape
    <2>2. Passes(h, TextWhole, Ans(Whole.text, << >>, None))
        BY <1>2, <2>1, TextPasses
    <2>3. Passes(Ans(Whole.text, << >>, None), CallsWhole, Ans(Whole.text, Numbered(CallCount), None))
        BY <1>2, <2>1, CallsPass
    <2>4. Passes(Ans(Whole.text, Numbered(CallCount), None), UsageWhole, k)
        BY <2>1, UsagePasses
    <2>. DEFINE tc == TextWhole \o CallsWhole
    <2>5. Joins(TextWhole, CallsWhole, tc) /\ Joins(tc, UsageWhole, es)
        BY DEF Joins
    <2>. HIDE DEF tc, es, h, k
    <2>6. Passes(h, tc, Ans(Whole.text, Numbered(CallCount), None))
        BY <2>2, <2>3, <2>5, PassMore
    <2>7. Passes(h, es, k)
        BY <2>4, <2>5, <2>6, PassMore
    <2>8. AnswerShape(k)
        BY <2>1, AnsShape DEF k
    <2>. QED  BY <2>7, <2>8
<1>6. k.text = Whole.text /\ k.usage = Whole.usage /\ k.calls = Numbered(CallCount)
    BY DEF Ans
<1>. HIDE DEF b, es, h, k
<1>7. IsList(parser.events)
    BY <1>3 DEF Good, ParserShape
<1>8. \A w2 : Good(h, b, w2) => Leads(b, w2, k, y)
    BY <1>4, <1>5 DEF Passes
<1>9. Leads(parser, writer, k, y)
    BY <1>4, <1>7, <1>8, LeadsFurther
<1>10. ~y.closed
    <2>1. PICK w2 : Good(h, b, w2)
        BY <1>4 DEF Leads
    <2>2. ParserShape(b) /\ IsList(es)
        BY <1>5, <2>1 DEF Good, Passes
    <2>3. y.closed = b.closed
        BY <2>2, YieldIs DEF Unlike
    <2>. QED  BY <1>4, <2>3
<1>. HIDE DEF y
<1>11. \A w2 : Good(k, y, w2) => Leads(y, w2, k, st)
    BY <1>10, Closes
<1>12. Leads(parser, writer, k, st)
    BY <1>7, <1>9, <1>11, LeadsFurther
<1>13. st.closed
    BY <1>9, <1>10, Closes DEF Leads
<1>. HIDE DEF st
<1>14. {k.calls[i] : i \in DOMAIN k.calls} = {Whole.calls[i] : i \in DOMAIN Whole.calls}
    BY <1>2, <1>6, NumberedAre
<1>. QED  BY <1>1, <1>5, <1>6, <1>7, <1>12, <1>13, <1>14, LastStep

\* What is held is an answer.
LEMMA HeldShape ==
    ASSUME turn \in Turns, NEW n \in Nat, n <= Len(turn.answer)
    PROVE  AnswerShape(Held(n))
<1>1. AnswerShape(Heard(n))
    BY HeardShape
<1>2. AnswerShape(Ans(Heard(n).text, << >>, None))
    BY <1>1, NothingYet, AnsShape DEF AnswerShape
<1>. QED  BY <1>1, <1>2 DEF Held

\* A payload passed on at once.
LEMMA HeldPasses ==
    ASSUME turn \in Turns, NEW n \in Nat, n < Len(turn.answer),
           turn.backend # "agent", turn.answer[n + 1].type \notin {"finish", "[DONE]"},
           turn.backend = "bridge_late" => turn.answer[n + 1].type = "text"
    PROVE  Passes(Held(n), <<turn.answer[n + 1]>>, Held(n + 1))
<1>. DEFINE p == turn.answer[n + 1]
<1>1. n + 1 \in 1 .. Len(turn.answer) /\ n <= Len(turn.answer)
    BY AnswerIs
<1>8. p = Payload(n + 1)
    BY <1>1, AnswerIs
<1>2. IsEvent(p) /\ p.type \in {"text", "call", "usage"}
    BY <1>1, <1>8, PayloadIsEvent
<1>3. Fits(Heard(n), p) /\ Heard(n + 1) = Capture(Heard(n), p)
    BY <1>8, PayloadFits, HeardNext
<1>4. AnswerShape(Heard(n)) /\ AnswerShape(Held(n))
    BY <1>1, HeardShape, HeldShape
<1>5. turn.backend = "bridge_late" => p.type = "text"
    OBVIOUS
<1>. HIDE DEF p
<1>6. CASE turn.backend # "bridge_late"
    <2>1. Held(n) = Heard(n) /\ Held(n + 1) = Heard(n + 1)
        BY <1>6 DEF Held
    <2>2. Passes(Heard(n), <<p>>, Heard(n + 1))
        BY <1>2, <1>3, PassOne
    <2>. QED  BY <2>1, <2>2 DEF p
<1>7. CASE turn.backend = "bridge_late"
    <2>. DEFINE h == Held(n)
                t == Heard(n).text
                u == Heard(n + 1).text
    <2>1. h = Ans(t, << >>, None) /\ Held(n + 1) = Ans(u, << >>, None)
        BY <1>7 DEF Held
    <2>2. u = t \o p.text
        <3>. DEFINE a == Heard(n)
                    c == Capture(a, p)
        <3>1. IsEvent(p) /\ p.type = "text" /\ AnswerShape(a)
            BY <1>2, <1>4, <1>5, <1>7
        <3>. HIDE DEF a
        <3>2. c.text = a.text \o p.text
            BY <3>1, TextCaptured
        <3>. QED  BY <1>3, <3>2 DEF a
    <2>3. h.text = t /\ h.calls = << >> /\ h.usage = None /\ h.finish = None
        BY <2>1 DEF Ans
    <2>4. Capture(h, p) = [text |-> h.text \o p.text, calls |-> h.calls, usage |-> h.usage,
                           finish |-> h.finish]
        BY <1>2, <1>4, <1>5, <1>7, CaptureParts
    <2>5. Fits(h, p)
        BY <1>5, <1>7 DEF Fits
    <2>. HIDE DEF h, t, u
    <2>6. Capture(h, p) = Ans(u, << >>, None)
        BY <2>2, <2>3, <2>4 DEF Ans
    <2>7. Passes(h, <<p>>, Ans(u, << >>, None))
        BY <1>2, <2>5, <2>6, PassOne
    <2>. QED  BY <2>1, <2>7 DEF h, p
<1>. QED  BY <1>6, <1>7

Marked(v, y, a, b) == v = [y EXCEPT !.usage = a, !.calls = b]

\* The generator's notes of what it has passed on.
LEMMA ChunkFields ==
    ASSUME NEW y, ParserRecord(y), NEW a, NEW b, NEW v, Marked(v, y, a, b)
    PROVE  /\ ParserRecord(v) /\ v.usage = a /\ v.calls = b /\ v.events = y.events
           /\ v.closed = y.closed
BY DEF ParserRecord, Marked

\* A payload that reaches the client only with the done chunk, or not at all.
LEMMA ChunkKept ==
    ASSUME StreamInv, status = "reading", turn.backend \in {"bridge", "bridge_late"},
           pos < Len(turn.answer),
           \/ turn.answer[pos + 1].type \in {"finish", "[DONE]"}
           \/ turn.backend = "bridge_late" /\ turn.answer[pos + 1].type # "text"
    PROVE  /\ Held(pos + 1) = Held(pos)
           /\ turn.backend = "bridge" => Heard(pos + 1) = Heard(pos)
<1>. DEFINE p == turn.answer[pos + 1]
<1>1. turn \in Turns /\ pos \in Nat /\ pos + 1 \in 1 .. Len(turn.answer) /\ pos <= Len(turn.answer)
    BY AnswerIs DEF StreamInv
<1>5. p = Payload(pos + 1)
    BY <1>1, AnswerIs
<1>2. Heard(pos + 1) = Capture(Heard(pos), p) /\ AnswerShape(Heard(pos))
    BY <1>1, <1>5, HeardNext, HeardShape
<1>3. CASE p.type \in {"finish", "[DONE]"}
    <2>1. Heard(pos + 1) = Heard(pos)
        BY <1>2, <1>3, OtherPayload
    <2>. QED  BY <2>1 DEF Held
<1>4. CASE p.type \notin {"finish", "[DONE]"}
    <2>1. IsEvent(p) /\ turn.backend = "bridge_late" /\ p.type # "text"
        BY <1>1, <1>4, <1>5, PayloadIsEvent
    <2>2. Heard(pos + 1).text = Heard(pos).text
        BY <1>2, <2>1, CaptureFields
    <2>. QED  BY <2>1, <2>2 DEF Held
<1>. QED  BY <1>3, <1>4

\* A chunk of a bridge.
LEMMA StepReceiveChunk ==
    ASSUME StreamInv, ReceiveChunk
    PROVE  StreamInv'
<1>. DEFINE p == turn.answer[pos + 1]
<1>1. /\ status = "reading" /\ turn.backend \in {"bridge", "bridge_late"} /\ pos < Len(turn.answer)
      /\ pos' = pos + 1 /\ status' = status /\ turn' = turn
    BY DEF ReceiveChunk
<1>2. /\ turn \in Turns /\ pos \in Nat /\ Good(Held(pos), parser, writer) /\ ~parser.closed
      /\ pos + 1 \in Nat /\ pos + 1 <= Len(turn.answer) /\ Len(turn.answer) \in Nat
    BY <1>1, AnswerIs DEF StreamInv, Arrived
<1>3. /\ \A g, q, w : Good(g, q, w)' = Good(g, q, w)
      /\ \A k : Held(k)' = Held(k) /\ Heard(k)' = Heard(k)
    BY <1>1, PrimedGood, PrimedInv, PrimedHeard
<1>4. Arrived' = pos + 1
    BY <1>1 DEF Arrived
<1>5. SUFFICES /\ Good(Held(pos + 1), parser', writer') /\ ~parser'.closed
               /\ turn.backend = "bridge_late" => ~parser'.usage /\ ~parser'.calls
               /\ turn.backend = "bridge" =>
                    /\ ~parser'.usage => Heard(pos + 1).usage = None
                    /\ ~parser'.calls => Heard(pos + 1).calls = << >>
    <2>1. (Good(Held(Arrived), parser, writer) /\ ~parser.closed)'
        <3>1. Held(Arrived)' = Held(pos + 1)
            BY <1>3, <1>4
        <3>. QED  BY <1>3, <1>5, <3>1
    <2>2. AgentReads'
        BY <1>1 DEF AgentReads
    <2>3. BridgeReads'
        BY <1>1, <1>2, <1>3, <1>5 DEF BridgeReads
    <2>. QED  BY <1>1, <1>2, <1>5, <2>1, <2>2, <2>3 DEF StreamInv
<1>6. CASE p.type \in {"finish", "[DONE]"} \/ (turn.backend = "bridge_late" /\ p.type # "text")
    <2>1. parser' = parser /\ writer' = writer
        BY <1>6 DEF ReceiveChunk
    <2>2. /\ Held(pos + 1) = Held(pos)
          /\ turn.backend = "bridge" => Heard(pos + 1) = Heard(pos)
        BY <1>1, <1>6, ChunkKept
    <2>. QED  BY <1>1, <1>2, <2>1, <2>2 DEF StreamInv, BridgeReads
<1>7. CASE ~(p.type \in {"finish", "[DONE]"} \/ (turn.backend = "bridge_late" /\ p.type # "text"))
    <2>. DEFINE s == IF p.type = "usage" THEN parser ELSE Begin(parser)
                y == Yield(s, <<p>>)
                a == y.usage \/ p.type = "usage"
                b == y.calls \/ p.type = "call"
                v == [y EXCEPT !.usage = a, !.calls = b]
                h == Held(pos)
                k == Held(pos + 1)
    <2>1. parser' = v /\ writer' = WriteAll(writer, Yielded(v))
        BY <1>7 DEF ReceiveChunk, Advance
    <2>2. IsList(parser.events)
        BY <1>2 DEF Good, ParserShape
    <2>3. Leads(parser, writer, h, s) /\ ~s.closed /\ s.usage = parser.usage /\ s.calls = parser.calls
        BY <1>2, Begins, LeadsSame
    <2>4. Passes(h, <<p>>, k)
        BY <1>1, <1>2, <1>7, HeldPasses
    <2>. HIDE DEF s, h, k
    <2>5. PICK w2 : Good(h, s, w2)
        BY <2>3 DEF Leads
    <2>6. ParserShape(s) /\ IsList(<<p>>)
        BY <2>4, <2>5 DEF Good, Passes
    <2>7. Unlike("events", y, s) /\ ParserRecord(y)
        BY <2>6, YieldIs DEF Unlike
    <2>8. y.closed = s.closed /\ y.usage = parser.usage /\ y.calls = parser.calls
        BY <2>3, <2>7 DEF Unlike
    <2>9. \A w3 : Good(h, s, w3) => Leads(s, w3, k, y)
        BY <2>3, <2>4 DEF Passes
    <2>. HIDE DEF y
    <2>10. Leads(parser, writer, k, y)
        BY <2>2, <2>3, <2>9, LeadsFurther
    <2>11. Marked(v, y, a, b)
        BY DEF Marked
    <2>12. (a <=> parser.usage \/ p.type = "usage") /\ (b <=> parser.calls \/ p.type = "call")
        BY <2>8
    <2>. HIDE DEF a, b, v
    <2>13. ParserRecord(v) /\ v.usage = a /\ v.calls = b /\ v.events = y.events /\ v.closed = y.closed
        BY <2>7, <2>11, ChunkFields
    <2>14. \A w3 : Good(k, y, w3) => Leads(y, w3, k, v)
        BY <2>13, GoodAside
    <2>15. Leads(parser, writer, k, v)
        BY <2>2, <2>10, <2>14, LeadsFurther
    <2>16. PICK w4 : Reaches(parser, writer, v, w4) /\ Good(k, v, w4)
        BY <2>15 DEF Leads
    <2>17. WriteAll(writer, Yielded(v)) = w4
        BY <2>2, <2>16, Advances
    <2>18. Good(Held(pos + 1), parser', writer') /\ ~parser'.closed
        BY <2>1, <2>3, <2>8, <2>13, <2>16, <2>17 DEF k
    <2>19. turn.backend = "bridge_late" => ~parser'.usage /\ ~parser'.calls
        BY <1>7, <2>1, <2>12, <2>13 DEF StreamInv, BridgeReads
    <2>20. turn.backend = "bridge" =>
             /\ ~parser'.usage => Heard(pos + 1).usage = None
             /\ ~parser'.calls => Heard(pos + 1).calls = << >>
        <3>1. pos + 1 \in 1 .. Len(turn.answer) /\ pos <= Len(turn.answer)
            BY <1>1, <1>2
        <3>5. p = Payload(pos + 1)
            BY <1>1, <1>2, <3>1, AnswerIs
        <3>2. IsEvent(p)
            BY <1>2, <1>7, <3>1, <3>5, PayloadIsEvent
        <3>3. Heard(pos + 1) = Capture(Heard(pos), p) /\ AnswerShape(Heard(pos))
            BY <1>1, <1>2, <3>1, <3>5, HeardNext, HeardShape
        <3>4. /\ p.type # "usage" => Heard(pos + 1).usage = Heard(pos).usage
              /\ p.type # "call" => Heard(pos + 1).calls = Heard(pos).calls
            BY <3>2, <3>3, CaptureFields
        <3>. QED  BY <1>1, <2>1, <2>12, <2>13, <3>4 DEF StreamInv, BridgeReads
    <2>. QED  BY <2>18, <2>19, <2>20
<1>. QED  BY <1>6, <1>7

\* What the done chunk adds to an answer of which everything else was passed on.
LEMMA LateParts ==
    ASSUME StreamInv, status = "reading", turn.backend \in {"bridge", "bridge_late"},
           pos = Len(turn.answer)
    PROVE  \E k : /\ Passes(Held(pos), LateUsage(parser) \o LateCalls(parser), k) /\ AnswerShape(k)
                  /\ k.text = Whole.text /\ k.usage = Whole.usage
                  /\ {k.calls[i] : i \in DOMAIN k.calls} = {Whole.calls[i] : i \in DOMAIN Whole.calls}
<1>. DEFINE h == Held(pos)
<1>1. turn \in Turns /\ pos \in Nat /\ pos <= Len(turn.answer)
    BY AnswerIs DEF StreamInv
<1>2. AnswerShape(Whole) /\ Whole = Heard(pos)
    BY <1>1, WholeShape
<1>3. CASE turn.backend = "bridge"
    <2>1. h = Whole
        BY <1>2, <1>3 DEF Held
    <2>2. LateUsage(parser) = << >>
        <3>1. ~parser.usage => Whole.usage = None
            BY <1>2, <1>3 DEF StreamInv, BridgeReads
        <3>. QED  BY <3>1 DEF LateUsage, UsageWhole
    <2>3. LateCalls(parser) = << >>
        <3>1. ~parser.calls => Whole.calls = << >>
            BY <1>2, <1>3 DEF StreamInv, BridgeReads
        <3>2. Whole.calls = << >> => CallsWhole = << >>
            <4>1. SUFFICES ASSUME Whole.calls = << >> PROVE CallsWhole = << >>
                OBVIOUS
            <4>2. CallCount = 0
                BY <4>1, FS_EmptySet DEF CallCount
            <4>3. 1 .. CallCount = {}
                BY <4>2
            <4>. QED  BY <4>3, CallsWholeIs
        <3>. QED  BY <3>1, <3>2 DEF LateCalls
    <2>4. LateUsage(parser) \o LateCalls(parser) = << >>
        BY <2>2, <2>3
    <2>5. Passes(Whole, << >>, Whole)
        BY PassNone
    <2>. DEFINE es == LateUsage(parser) \o LateCalls(parser)
                k == Whole
    <2>. HIDE DEF es, h, k
    <2>6. Passes(h, es, k)
        BY <2>1, <2>4, <2>5 DEF es, k
    <2>7. AnswerShape(k) /\ k.text = Whole.text /\ k.usage = Whole.usage
        BY <1>2 DEF k
    <2>8. {k.calls[i] : i \in DOMAIN k.calls} = {Whole.calls[i] : i \in DOMAIN Whole.calls}
        BY DEF k
    <2>. QED  BY <2>6, <2>7, <2>8 DEF h, es
<1>4. CASE turn.backend = "bridge_late"
    <2>. DEFINE es == UsageWhole \o CallsWhole
                k == Ans(Whole.text, Numbered(CallCount), Whole.usage)
                l == Ans(Whole.text, << >>, Whole.usage)
    <2>1. h = Ans(Whole.text, << >>, None)
        BY <1>2, <1>4 DEF Held
    <2>2. Whole.text \in Seq(Letters) /\ CallsShape(Numbered(CallCount)) /\ CallsShape(<< >>)
        BY <1>1, WholeShape, KeysAre, NumberedShape, NothingYet DEF AnswerShape
    <2>3. Passes(h, UsageWhole, l)
        BY <2>1, <2>2, UsagePasses
    <2>4. Passes(l, CallsWhole, k)
        BY <1>1, <2>2, CallsPass
    <2>5. LateUsage(parser) = UsageWhole /\ LateCalls(parser) = CallsWhole
        BY <1>4 DEF LateUsage, LateCalls, StreamInv, BridgeReads
    <2>6. Joins(UsageWhole, CallsWhole, es)
        BY DEF Joins
    <2>7. k.text = Whole.text /\ k.usage = Whole.usage /\ k.calls = Numbered(CallCount)
        BY DEF Ans
    <2>8. AnswerShape(k)
        BY <2>2, AnsShape
    <2>9. es = LateUsage(parser) \o LateCalls(parser)
        BY <2>5
    <2>. HIDE DEF es, h, k, l
    <2>10. Passes(h, es, k)
        BY <2>3, <2>4, <2>6, PassMore
    <2>11. {k.calls[i] : i \in DOMAIN k.calls} = {Whole.calls[i] : i \in DOMAIN Whole.calls}
        BY <1>1, <2>7, NumberedAre
    <2>. QED  BY <2>7, <2>8, <2>9, <2>10, <2>11 DEF h
<1>. QED  BY <1>3, <1>4

\* Whether the done chunk closes the answer or the source ends before it.
LEMMA DoneLeads ==
    ASSUME NEW h, Good(h, parser, writer), ~parser.closed, NEW es, NEW k, Passes(h, es, k), NEW r
    PROVE  /\ Leads(parser, writer, k, Close(Yield(Begin(parser), es), r))
           /\ Close(Yield(Begin(parser), es), r).closed
           /\ Close(Yield(Begin(parser), es), r).usage = parser.usage
           /\ Close(Yield(Begin(parser), es), r).calls = parser.calls
<1>. DEFINE b == Begin(parser)
            y == Yield(b, es)
            st == Close(y, r)
<1>1. Leads(parser, writer, h, b) /\ ~b.closed /\ b.usage = parser.usage /\ b.calls = parser.calls
    BY Begins
<1>2. IsList(parser.events)
    BY DEF Good, ParserShape
<1>. HIDE DEF b
<1>3. \A w2 : Good(h, b, w2) => Leads(b, w2, k, y)
    BY <1>1 DEF Passes
<1>4. PICK w2 : Good(h, b, w2)
    BY <1>1 DEF Leads
<1>5. ParserShape(b) /\ IsList(es)
    BY <1>4 DEF Good, Passes
<1>6. y.closed = b.closed /\ y.usage = b.usage /\ y.calls = b.calls
    BY <1>5, YieldIs DEF Unlike
<1>. HIDE DEF y
<1>7. Leads(parser, writer, k, y)
    BY <1>1, <1>2, <1>3, LeadsFurther
<1>8. ~y.closed
    BY <1>1, <1>6
<1>9. \A w3 : Good(k, y, w3) => Leads(y, w3, k, st)
    BY <1>8, Closes
<1>10. PICK w3 : Good(k, y, w3)
    BY <1>7 DEF Leads
<1>11. st.closed /\ st.usage = y.usage /\ st.calls = y.calls
    BY <1>8, <1>10, Closes
<1>. HIDE DEF st
<1>12. Leads(parser, writer, k, st)
    BY <1>2, <1>7, <1>9, LeadsFurther
<1>. QED  BY <1>1, <1>6, <1>11, <1>12 DEF st, y, b

\* The last chunk of a bridge, with what was held back.
LEMMA StepReceiveDone ==
    ASSUME StreamInv, ReceiveDone
    PROVE  StreamInv'
<1>1. /\ status = "reading" /\ turn.backend \in {"bridge", "bridge_late"} /\ status' = "ended"
      /\ turn' = turn /\ pos' = pos
    BY DEF ReceiveDone
<1>2. /\ turn \in Turns /\ pos \in Nat /\ Good(Held(pos), parser, writer) /\ ~parser.closed
      /\ turn.backend = "bridge_late" => ~parser.usage /\ ~parser.calls
    BY <1>1 DEF StreamInv, Arrived, BridgeReads
<1>3. IsList(parser.events) /\ AnswerShape(Held(pos))
    BY <1>2, GoodShape DEF Good, ParserShape
<1>4. CASE pos = Len(turn.answer)
    <2>. DEFINE es == LateUsage(parser) \o LateCalls(parser)
                st == Close(Yield(Begin(parser), es), FinishOf)
    <2>1. parser' = st /\ writer' = WriteAll(writer, Yielded(st))
        BY <1>4, <1>2, AnswerIs DEF ReceiveDone, Advance
    <2>2. PICK k : /\ Passes(Held(pos), es, k) /\ AnswerShape(k)
                   /\ k.text = Whole.text /\ k.usage = Whole.usage
                   /\ {k.calls[i] : i \in DOMAIN k.calls} = {Whole.calls[i] : i \in DOMAIN Whole.calls}
        BY <1>1, <1>4, LateParts
    <2>. HIDE DEF es
    <2>3. Leads(parser, writer, k, st) /\ st.closed /\ st.usage = parser.usage /\ st.calls = parser.calls
        BY <1>2, <2>2, DoneLeads
    <2>. HIDE DEF st
    <2>. QED  BY <1>1, <1>2, <1>3, <2>1, <2>2, <2>3, LastStep
<1>5. CASE pos # Len(turn.answer)
    <2>. DEFINE st == Close(Begin(parser), None)
                es == << >>
    <2>1. parser' = st /\ writer' = WriteAll(writer, Yielded(st))
        BY <1>5 DEF ReceiveDone, Advance
    <2>2. Passes(Held(pos), es, Held(pos))
        BY PassNone
    <2>3. Yield(Begin(parser), es) = Begin(parser)
        <3>1. Leads(parser, writer, Held(pos), Begin(parser))
            BY <1>2, Begins
        <3>2. ParserShape(Begin(parser))
            BY <3>1 DEF Leads, Good
        <3>. QED  BY <3>2, YieldNone
    <2>. HIDE DEF es
    <2>4. /\ Leads(parser, writer, Held(pos), Close(Yield(Begin(parser), es), None))
          /\ Close(Yield(Begin(parser), es), None).closed
          /\ Close(Yield(Begin(parser), es), None).usage = parser.usage
          /\ Close(Yield(Begin(parser), es), None).calls = parser.calls
        BY <1>2, <2>2, DoneLeads
    <2>5. Leads(parser, writer, Held(pos), st) /\ st.closed /\ st.usage = parser.usage
            /\ st.calls = parser.calls
        BY <2>3, <2>4
    <2>. HIDE DEF st
    <2>. QED  BY <1>1, <1>2, <1>3, <1>5, <2>1, <2>5, LastStep
<1>. QED  BY <1>4, <1>5

\* A step in which nothing changes.
LEMMA StepStutters ==
    ASSUME StreamInv, UNCHANGED vars
    PROVE  StreamInv'
<1>1. /\ turn' = turn /\ pos' = pos /\ buffer' = buffer /\ parser' = parser /\ writer' = writer
      /\ status' = status
    BY DEF vars
<1>2. /\ \A h, st, w : Good(h, st, w)' = Good(h, st, w)
      /\ \A n : Held(n)' = Held(n) /\ Heard(n)' = Heard(n)
      /\ \A st, w : Through(st, w)' = Through(st, w)
      /\ \A es : Tells(es)' = Tells(es)
      /\ \A st, l : ParseAll(st, l)' = ParseAll(st, l)
      /\ \A k, m : Wire(k, m)' = Wire(k, m)
    BY <1>1, PrimedGood, PrimedHeard, PrimedInv
<1>3. Arrived' = Arrived /\ LinesRead' = LinesRead
    BY <1>1 DEF Arrived, LinesRead
<1>4. Held(Arrived)' = Held(Arrived)
    BY <1>2, <1>3
<1>5. AgentReads' /\ BridgeReads'
    BY <1>1, <1>2, <1>3 DEF AgentReads, BridgeReads, StreamInv
<1>. QED  BY <1>1, <1>2, <1>4, <1>5 DEF StreamInv

\* Every step keeps the invariant.
LEMMA StreamNext == StreamInv /\ [Next]_vars => StreamInv'
<1>. SUFFICES ASSUME StreamInv, [Next]_vars PROVE StreamInv'
    OBVIOUS
<1>1. CASE \E n \in 1 .. MaxChunk : Receive(n)
    BY <1>1, StepReceive
<1>2. CASE EndOfBody
    BY <1>2, StepEndOfBody
<1>3. CASE ReceiveJson
    BY <1>3, StepReceiveJson
<1>4. CASE ReceiveChunk
    BY <1>4, StepReceiveChunk
<1>5. CASE ReceiveDone
    BY <1>5, StepReceiveDone
<1>6. CASE Break
    BY <1>6, StepBreak
<1>7. CASE Ended \/ UNCHANGED vars
    BY <1>7, StepStutters DEF Ended
<1>. QED  BY <1>1, <1>2, <1>3, <1>4, <1>5, <1>6, <1>7 DEF Next

\* StreamInv holds of every state that a provider's answer reaches on its way to the client:
\* the four properties below follow from it.
THEOREM StreamInvariant == Spec => []StreamInv
BY StreamInit, StreamNext, PTL DEF Spec

\* The lines read, as the property writes them.
LEMMA AgreeLines == \A n : [i \in 1 .. n |-> i] = Lines(0, n)
BY DEF Lines

Retold(v, a, c, r, u) == v = [a EXCEPT !.calls = c, !.finish = r, !.usage = u]

\* Three fields written.
LEMMA RetoldIs ==
    ASSUME NEW a, NEW v, NEW c, NEW r, NEW u, Retold(v, a, c, r, u), NEW t, NEW k, NEW o, NEW g,
           a = [text |-> t, calls |-> k, usage |-> o, finish |-> g]
    PROVE  v = [text |-> t, calls |-> c, usage |-> u, finish |-> r]
BY DEF Retold

\* A generator that is through: the writer has closed and follows the captured answer.
LEMMA ThroughMeans ==
    ASSUME NEW st, NEW w, Through(st, w)
    PROVE  /\ EventsOK(st.events) /\ w.closed = TRUE
           /\ Follows(w, Filled(CaptureAll(st.events)))
<1>. DEFINE a == CaptureAll(st.events)
<1>1. CASE st.closed
    <2>1. PICK h : Good(h, st, w)
        BY <1>1 DEF Through
    <2>2. OnWay(st.events, w) /\ w.closed = st.closed /\ st.closed \in BOOLEAN
        BY <2>1 DEF Good, ParserShape
    <2>3. PICK r : a = Capture(h, Done(r))
        BY <1>1, <2>1 DEF Good
    <2>4. AnswerShape(a)
        BY <2>2, EventsShaped DEF OnWay
    <2>5. a.finish = Done(r).reason
        <3>. DEFINE e == Done(r)
        <3>1. e.type = "done"
            BY DoneIsEvent
        <3>. HIDE DEF e
        <3>2. a = [h EXCEPT !.finish = e.reason]
            BY <2>3, <3>1 DEF Capture, Collect, e
        <3>3. "finish" \in DOMAIN a
            BY <2>4 DEF AnswerShape
        <3>4. DOMAIN a = DOMAIN h
            BY <3>2
        <3>. QED  BY <3>2, <3>3, <3>4 DEF e
    <2>6. Filled(a) = a
        <3>. HIDE DEF a
        <3>1. a.finish = None => a.finish = "stop"
            BY <2>5 DEF Done
        <3>. DEFINE f == IF a.finish = None THEN "stop" ELSE a.finish
        <3>2. f = a.finish /\ Filled(a) = [a EXCEPT !.finish = f]
            BY <3>1 DEF Filled
        <3>. HIDE DEF f
        <3>. QED  BY <2>4, <3>2 DEF AnswerShape
    <2>. HIDE DEF a
    <2>7. EventsOK(st.events) /\ Follows(w, a)
        BY <2>2 DEF OnWay, a
    <2>. QED  BY <1>1, <2>2, <2>6, <2>7 DEF a
<1>2. CASE ~st.closed
    <2>. DEFINE e == Done(None)
    <2>1. /\ EventsOK(st.events) /\ a.finish = None /\ OnWay(Append(st.events, e), w) /\ w.closed
        BY <1>2 DEF Through
    <2>2. IsEvent(e) /\ e.type = "done" /\ e.reason = "stop"
        BY DoneIsEvent DEF Done
    <2>. HIDE DEF e
    <2>3. AnswerShape(a)
        BY <2>1, EventsShaped
    <2>4. Fits(a, e)
        BY <2>2 DEF Fits
    <2>5. CaptureAll(Append(st.events, e)) = Capture(a, e)
        BY <2>1, <2>2, <2>4, EventAdded
    <2>6. Capture(a, e) = [text |-> a.text, calls |-> a.calls, usage |-> a.usage, finish |-> "stop"]
        <3>. DEFINE s == "stop"
        <3>1. e.type = "done" /\ e.reason = s /\ IsEvent(e)
            BY <2>2
        <3>. HIDE DEF a, s
        <3>2. Capture(a, e) = [text |-> a.text, calls |-> a.calls, usage |-> a.usage,
                               finish |-> e.reason]
            <4>1. e.type = "done" => Capture(a, e) = [text |-> a.text, calls |-> a.calls,
                                                      usage |-> a.usage, finish |-> e.reason]
                BY <2>3, <3>1, CaptureParts
            <4>. QED  BY <3>1, <4>1
        <3>3. Capture(a, e) = [text |-> a.text, calls |-> a.calls, usage |-> a.usage, finish |-> s]
            BY <3>1, <3>2
        <3>. QED  BY <3>3 DEF s
    <2>. HIDE DEF a
    <2>7. Filled(a) = [a EXCEPT !.finish = "stop"]
        BY <2>1 DEF Filled
    <2>8. Filled(a) = [text |-> a.text, calls |-> a.calls, usage |-> a.usage, finish |-> "stop"]
        BY <2>3, <2>7 DEF AnswerShape
    <2>9. Follows(w, Filled(a))
        BY <2>1, <2>5, <2>6, <2>8 DEF OnWay, a
    <2>10. w.closed = TRUE
        BY <2>1, <2>9 DEF Follows
    <2>. QED  BY <2>1, <2>9, <2>10 DEF a
<1>. QED  BY <1>1, <1>2

\* The reason filled in, and nothing else.
LEMMA FilledIs ==
    ASSUME NEW a, AnswerShape(a)
    PROVE  /\ Filled(a).text = a.text /\ Filled(a).calls = a.calls /\ Filled(a).usage = a.usage
           /\ AnswerShape(Filled(a))
<1>. DEFINE f == IF a.finish = None THEN "stop" ELSE a.finish
            b == [text |-> a.text, calls |-> a.calls, usage |-> a.usage, finish |-> f]
<1>1. Filled(a) = [a EXCEPT !.finish = f]
    BY DEF Filled
<1>. HIDE DEF f
<1>2. Filled(a) = b
    BY <1>1 DEF AnswerShape
<1>3. b.text = a.text /\ b.calls = a.calls /\ b.usage = a.usage /\ b.finish = f
    OBVIOUS
<1>4. b = [text |-> b.text, calls |-> b.calls, usage |-> b.usage, finish |-> b.finish]
    OBVIOUS
<1>. HIDE DEF b
<1>5. AnswerShape(b)
    BY <1>3, <1>4 DEF AnswerShape
<1>. QED  BY <1>2, <1>3, <1>5

\* What a finished Responses stream lists.
LEMMA OutputTells ==
    ASSUME NEW w, NEW a, ResponsesShut(w, a), AnswerShape(a)
    PROVE  {WithArgs(x) : x \in ToSet(Last(w.out).output)} =
               {WithArgs(ToolItem(WithArgs(a.calls[i]))) : i \in DOMAIN a.calls}
               \cup (IF a.text = << >> THEN {} ELSE {[type |-> "message", args |-> a.text]})
<1>. DEFINE K == w.items
            D == DOMAIN K
            C == DOMAIN a.calls
            m == [type |-> "message", args |-> a.text]
            O == ToSet(Last(w.out).output)
<1>1. O = {CompletedItem(K[k]) : k \in D}
    BY OutputIs
<1>2. ItemsShape(K) /\ Carries(K, a)
    BY DEF ResponsesShut
<1>3. ASSUME NEW k \in D, K[k].kind = "tool"
      PROVE  \E i \in C : i = K[k].index
                /\ WithArgs(CompletedItem(K[k])) = WithArgs(ToolItem(WithArgs(a.calls[i])))
    <2>. DEFINE i == K[k].index
                c == a.calls[i]
    <2>1. i \in C /\ c = CallOf(K[k])
        BY <1>2, <1>3 DEF Carries
    <2>2. CallShape(c)
        BY <2>1 DEF AnswerShape, CallsShape
    <2>3. CompletedItem(K[k]) = ToolItem(c)
        BY <1>3, <2>1 DEF CompletedItem, CallOf
    <2>. HIDE DEF c
    <2>4. WithArgs(ToolItem(WithArgs(c))) = WithArgs(ToolItem(c))
        BY <2>2, FilledEither
    <2>. QED  BY <2>1, <2>3, <2>4 DEF c
<1>4. ASSUME NEW k \in D, K[k].kind # "tool"
      PROVE  WithArgs(CompletedItem(K[k])) = m /\ a.text # << >>
    <2>1. K[k].kind = "text"
        BY <1>2, <1>4 DEF ItemsShape, ItemShape
    <2>2. K[k].args = a.text /\ a.text # << >>
        BY <1>2, <2>1 DEF Carries
    <2>3. CompletedItem(K[k]) = m
        BY <2>1, <2>2 DEF CompletedItem
    <2>4. WithArgs(m) = m
        <3>. DEFINE t == a.text
        <3>1. t # << >> /\ m = [type |-> "message", args |-> t]
            BY <2>2
        <3>. HIDE DEF t, m
        <3>. QED  BY <3>1 DEF WithArgs
    <2>. QED  BY <2>2, <2>3, <2>4
<1>5. ASSUME NEW i \in C
      PROVE  \E k \in D : WithArgs(CompletedItem(K[k])) = WithArgs(ToolItem(WithArgs(a.calls[i])))
    <2>1. PICK k \in D : K[k].kind = "tool" /\ K[k].index = i
        BY <1>2 DEF Carries
    <2>. QED  BY <1>3, <2>1
<1>6. ASSUME a.text # << >> PROVE \E k \in D : WithArgs(CompletedItem(K[k])) = m
    <2>1. PICK k \in D : K[k].kind = "text"
        BY <1>2, <1>6 DEF Carries
    <2>. QED  BY <1>4, <2>1
<1>. DEFINE P == {WithArgs(x) : x \in O}
            Q == {WithArgs(ToolItem(WithArgs(a.calls[i]))) : i \in C}
            M == IF a.text = << >> THEN {} ELSE {m}
<1>7. P = {WithArgs(CompletedItem(K[k])) : k \in D}
    BY <1>1
<1>. HIDE DEF K, D, C, m, O
<1>8. ASSUME NEW x \in P PROVE x \in Q \cup M
    <2>. HIDE DEF P
    <2>1. PICK k \in D : x = WithArgs(CompletedItem(K[k]))
        BY <1>7
    <2>2. CASE K[k].kind = "tool"
        BY <1>3, <2>1, <2>2
    <2>3. CASE K[k].kind # "tool"
        BY <1>4, <2>1, <2>3
    <2>. QED  BY <2>2, <2>3
<1>9. ASSUME NEW x \in Q PROVE x \in P
    <2>. HIDE DEF P
    <2>1. PICK i \in C : x = WithArgs(ToolItem(WithArgs(a.calls[i])))
        OBVIOUS
    <2>. QED  BY <1>5, <1>7, <2>1
<1>10. ASSUME NEW x \in M PROVE x \in P
    <2>. HIDE DEF P
    <2>1. a.text # << >> /\ x = m
        OBVIOUS
    <2>. QED  BY <1>6, <1>7, <2>1
<1>. HIDE DEF P, Q, M
<1>11. P = Q \cup M
    BY <1>8, <1>9, <1>10
<1>. QED  BY <1>11 DEF P, Q, M, O, C, m

\* The writer always follows some answer.
LEMMA InvFollows ==
    ASSUME StreamInv
    PROVE  \E a : Follows(writer, a)
<1>1. CASE status # "ended"
    BY <1>1 DEF StreamInv, Good, OnWay
<1>2. CASE status = "ended"
    <2>1. Through(parser, writer)
        BY <1>2 DEF StreamInv
    <2>. QED  BY <2>1, ThroughMeans
<1>. QED  BY <1>1, <1>2

\* The events are those of the lines received, however the wire was cut into lines and chunks,
\* with the characters replaced that a chunk ended in (parseSSE); a bridge or a JSON body says
\* what the provider answered (toGatewayNormalizedStream, completionJsonToEvents).
THEOREM EventsAreTheAnswerAlways == Spec => []EventsAreTheAnswer
<1>1. StreamInv => EventsAreTheAnswer
    <2>. SUFFICES ASSUME StreamInv PROVE EventsAreTheAnswer
        OBVIOUS
    <2>1. turn.backend = "agent" =>
            LET lines == (pos + (IF status = "ended" THEN 1 ELSE 0)) \div 3
            IN  parser.events = ParseAll(NewParser, [i \in 1 .. lines |-> i]).events
        BY AgreeLines DEF StreamInv, AgentReads, LinesRead
    <2>2. (turn.backend # "agent" /\ parser.closed /\ (turn.backend = "json" \/ pos = Len(turn.answer)))
            => Tells(parser.events)
        BY DEF StreamInv
    <2>. QED  BY <2>1, <2>2 DEF EventsAreTheAnswer, Tells, Captured
<1>. QED  BY <1>1, StreamInvariant, PTL

\* An item of a Responses stream is added before it grows and at a place of its own; the
\* completed response comes last, lists each item as it was done, once, and with the arguments
\* that its deltas add up to (toResponsesSse).
THEOREM ResponsesFramesLegalAlways == Spec => []ResponsesFramesLegal
<1>1. StreamInv => ResponsesFramesLegal
    <2>. SUFFICES ASSUME StreamInv PROVE ResponsesFramesLegal
        OBVIOUS
    <2>1. PICK a : Follows(writer, a)
        BY InvFollows
    <2>2. turn.route = "openai_responses" => FramesLegal(writer.out)
        <3>1. SUFFICES ASSUME turn.route = "openai_responses" PROVE FramesLegal(writer.out)
            OBVIOUS
        <3>2. CASE writer.closed
            BY <2>1, <3>1, <3>2 DEF Follows, ResponsesShut
        <3>3. CASE ~writer.closed
            BY <2>1, <3>1, <3>3, OpenFramesLegal DEF Follows, ResponsesOpen
        <3>. QED  BY <3>2, <3>3
    <2>. QED  BY <2>2, LegalFrames
<1>. QED  BY <1>1, StreamInvariant, PTL

(* ------------------------- collector and capture ------------------------- *)

SameCalls(c, d) ==
    DOMAIN c = DOMAIN d /\ \A k \in DOMAIN c : c[k].name = d[k].name /\ c[k].args = d[k].args
SameAnswer(a, b) ==
    a.text = b.text /\ a.usage = b.usage /\ a.finish = b.finish /\ SameCalls(a.calls, b.calls)

\* A delta of a call leaves the same names and arguments in both.
LEMMA CallsStaySame ==
    ASSUME NEW c, NEW d, SameCalls(c, d), NEW e
    PROVE  SameCalls(CollectCall(c, e), CaptureCall(d, e))
<1>. DEFINE i == e.index
            x == IF i \in DOMAIN c THEN Merged(c[i], e) ELSE NewCall(e)
            y == IF i \notin DOMAIN d THEN NewCall(e)
                 ELSE [Merged(d[i], e) EXCEPT !.id = IF e.id = None THEN @ ELSE e.id]
<1>1. x.name = y.name /\ x.args = y.args
    <2>1. CASE i \in DOMAIN c
        <3>. DEFINE m == Merged(d[i], e)
                    g == IF e.id = None THEN m.id ELSE e.id
        <3>1. /\ m.name = (IF e.name = None THEN d[i].name ELSE e.name) /\ m.args = d[i].args \o e.args
              /\ m = [id |-> m.id, name |-> m.name, args |-> m.args]
            BY DEF Merged
        <3>2. /\ Merged(c[i], e).name = (IF e.name = None THEN c[i].name ELSE e.name)
              /\ Merged(c[i], e).args = c[i].args \o e.args
            BY DEF Merged
        <3>3. x = Merged(c[i], e) /\ y = [m EXCEPT !.id = g] /\ c[i].name = d[i].name /\ c[i].args = d[i].args
            BY <2>1 DEF SameCalls
        <3>. HIDE DEF x, y, m, g
        <3>4. y.name = m.name /\ y.args = m.args
            BY <3>1, <3>3
        <3>. QED  BY <3>1, <3>2, <3>3, <3>4
    <2>2. CASE i \notin DOMAIN c
        BY <2>2 DEF SameCalls
    <2>. QED  BY <2>1, <2>2
<1>2. CollectCall(c, e) = Extended(c, i, x) /\ CaptureCall(d, e) = Extended(d, i, y)
    BY DEF CollectCall, CaptureCall
<1>. HIDE DEF i, x, y
<1>3. SameCalls(Extended(c, i, x), Extended(d, i, y))
    BY <1>1 DEF SameCalls, Extended
<1>. QED  BY <1>2, <1>3

\* Nor does any other event tell them apart.
LEMMA StaysSame ==
    ASSUME NEW a, AnswerShape(a), NEW b, AnswerShape(b), SameAnswer(a, b), NEW e
    PROVE  SameAnswer(Collect(a, e), Capture(b, e))
<1>1. CASE e.type = "call"
    <2>. DEFINE c == CollectCall(a.calls, e)
                d == CaptureCall(b.calls, e)
    <2>1. SameCalls(c, d)
        BY CallsStaySame DEF SameAnswer
    <2>2. Collect(a, e) = [a EXCEPT !.calls = c] /\ Capture(b, e) = [b EXCEPT !.calls = d]
        BY <1>1 DEF Collect, Capture
    <2>. HIDE DEF c, d
    <2>3. Collect(a, e) = [text |-> a.text, calls |-> c, usage |-> a.usage, finish |-> a.finish]
        BY <2>2 DEF AnswerShape
    <2>4. Capture(b, e) = [text |-> b.text, calls |-> d, usage |-> b.usage, finish |-> b.finish]
        BY <2>2 DEF AnswerShape
    <2>. QED  BY <2>1, <2>3, <2>4 DEF SameAnswer
<1>2. CASE e.type = "text"
    <2>. DEFINE x == a.text \o e.text
                y == b.text \o e.text
    <2>1. x = y
        BY DEF SameAnswer
    <2>2. Collect(a, e) = [a EXCEPT !.text = x] /\ Capture(b, e) = [b EXCEPT !.text = y]
        BY <1>2 DEF Collect, Capture
    <2>. HIDE DEF x, y
    <2>3. Collect(a, e) = [text |-> x, calls |-> a.calls, usage |-> a.usage, finish |-> a.finish]
        BY <2>2 DEF AnswerShape
    <2>4. Capture(b, e) = [text |-> y, calls |-> b.calls, usage |-> b.usage, finish |-> b.finish]
        BY <2>2 DEF AnswerShape
    <2>. QED  BY <2>1, <2>3, <2>4 DEF SameAnswer
<1>3. CASE e.type = "usage"
    <2>3. Collect(a, e) = [text |-> a.text, calls |-> a.calls, usage |-> e.usage, finish |-> a.finish]
        BY <1>3 DEF AnswerShape, Collect
    <2>4. Capture(b, e) = [text |-> b.text, calls |-> b.calls, usage |-> e.usage, finish |-> b.finish]
        BY <1>3 DEF AnswerShape, Capture, Collect
    <2>. QED  BY <2>3, <2>4 DEF SameAnswer
<1>4. CASE e.type = "done"
    <2>3. Collect(a, e) = [text |-> a.text, calls |-> a.calls, usage |-> a.usage, finish |-> e.reason]
        BY <1>4 DEF AnswerShape, Collect
    <2>4. Capture(b, e) = [text |-> b.text, calls |-> b.calls, usage |-> b.usage, finish |-> e.reason]
        BY <1>4 DEF AnswerShape, Capture, Collect
    <2>. QED  BY <2>3, <2>4 DEF SameAnswer
<1>5. CASE e.type \notin {"call", "text", "usage", "done"}
    BY <1>5 DEF Collect, Capture
<1>. QED  BY <1>1, <1>2, <1>3, <1>4, <1>5

\* So the collector and the capture agree on all but the ids of calls.
LEMMA BothSame ==
    ASSUME NEW S, \A e \in S : Legible(e), NEW es \in Seq(S)
    PROVE  SameAnswer(CollectAll(es), CaptureAll(es))
<1>. DEFINE P == {x \in Seq(S) : SameAnswer(CollectAll(x), CaptureAll(x))}
<1>1. << >> \in P
    BY CollectNone, CaptureNone DEF SameAnswer, SameCalls
<1>2. \A x \in Seq(S) \cap P : \A e \in S : Append(x, e) \in P
    <2>. SUFFICES ASSUME NEW x \in Seq(S), x \in P, NEW e \in S  PROVE Append(x, e) \in P
        OBVIOUS
    <2>1. AnswerShape(CollectAll(x)) /\ AnswerShape(CaptureAll(x))
        BY AnswersShaped
    <2>2. SameAnswer(Collect(CollectAll(x), e), Capture(CaptureAll(x), e))
        BY <2>1, StaysSame
    <2>. QED  BY <2>2, CollectSteps, CaptureSteps
<1>3. Seq(S) \subseteq P
    <2>. HIDE DEF P
    <2>. QED  BY <1>1, <1>2, Collecting!AllSequences, NumbersWellOrdered
<1>. QED  BY <1>3

\* A delta that repeats the call's id, or leaves it out, is one to both.
LEMMA SteadyStep ==
    ASSUME NEW a, NEW e,
           (e.type = "call" /\ e.index \in DOMAIN a.calls) => e.id \in {None, a.calls[e.index].id}
    PROVE  Capture(a, e) = Collect(a, e)
<1>1. CASE e.type # "call"
    BY <1>1 DEF Capture
<1>2. CASE e.type = "call"
    <2>1. CaptureCall(a.calls, e) = CollectCall(a.calls, e)
        <3>1. CASE e.index \notin DOMAIN a.calls
            BY <3>1 DEF CaptureCall, CollectCall
        <3>2. CASE e.index \in DOMAIN a.calls
            <4>. DEFINE m == Merged(a.calls[e.index], e)
                        g == IF e.id = None THEN m.id ELSE e.id
            <4>1. m.id = a.calls[e.index].id /\ m = [id |-> m.id, name |-> m.name, args |-> m.args]
                BY DEF Merged
            <4>2. g = m.id
                BY <1>2, <3>2, <4>1
            <4>3. /\ CaptureCall(a.calls, e) = Extended(a.calls, e.index, [m EXCEPT !.id = g])
                  /\ CollectCall(a.calls, e) = Extended(a.calls, e.index, m)
                BY <3>2 DEF CaptureCall, CollectCall
            <4>. HIDE DEF m, g
            <4>4. [m EXCEPT !.id = g] = m
                BY <4>1, <4>2
            <4>. QED  BY <4>3, <4>4
        <3>. QED  BY <3>1, <3>2
    <2>2. Collect(a, e) = [a EXCEPT !.calls = CollectCall(@, e)]
        BY <1>2 DEF Collect
    <2>. QED  BY <1>2, <2>1, <2>2 DEF Capture
<1>. QED  BY <1>1, <1>2

\* The calls after n events keep the ids of their first deltas.
IdsKnown(es, n, calls) ==
    \A k : IF k \in DOMAIN calls
           THEN \E i \in 1 .. n : Opens(es, i) /\ es[i].index = k /\ calls[k].id = es[i].id
           ELSE \A i \in 1 .. n : ~IsCall(es[i], k)
SteadyAt(es, n) ==
    LET s == SubSeq(es, 1, n)
    IN  CaptureAll(s) = CollectAll(s) /\ IdsKnown(es, n, CollectAll(s).calls)

LEMMA SteadyNext ==
    ASSUME NEW es, EventsOK(es), SteadyIds(es), NEW n \in Nat, n < Len(es), SteadyAt(es, n)
    PROVE  SteadyAt(es, n + 1)
<1>. DEFINE s == SubSeq(es, 1, n)
            u == SubSeq(es, 1, n + 1)
            e == es[n + 1]
            a == CollectAll(s)
            b == CollectAll(u)
            S == ToSet(es)
<1>1. es \in Seq(S) /\ DOMAIN es = 1 .. Len(es) /\ n + 1 \in 1 .. Len(es) /\ Len(es) \in Nat
    BY DEF EventsOK, IsList
<1>10. \A x \in S : Legible(x)
    BY DEF EventsOK, IsEvent
<1>. HIDE DEF S
<1>2. s \in Seq(S) /\ u = Append(s, e) /\ e \in S
    BY <1>1
<1>3. b = Collect(a, e) /\ CaptureAll(u) = Capture(CaptureAll(s), e) /\ AnswerShape(a)
    <2>. HIDE DEF s, u, e
    <2>1. CollectAll(u) = Collect(CollectAll(s), e) /\ CaptureAll(u) = Capture(CaptureAll(s), e)
        BY <1>2, CollectSteps, CaptureSteps
    <2>2. AnswerShape(CollectAll(s))
        BY <1>2, <1>10, AnswersShaped
    <2>. QED  BY <2>1, <2>2
<1>4. CaptureAll(s) = a /\ IdsKnown(es, n, a.calls)
    BY DEF SteadyAt
<1>. HIDE DEF s, u, a, b
<1>5. ASSUME e.type = "call", e.index \in DOMAIN a.calls PROVE e.id \in {None, a.calls[e.index].id}
    <2>1. PICK i \in 1 .. n : Opens(es, i) /\ es[i].index = e.index /\ a.calls[e.index].id = es[i].id
        BY <1>4, <1>5 DEF IdsKnown
    <2>2. i \in DOMAIN es /\ n + 1 \in DOMAIN es /\ i < n + 1
        BY <1>1
    <2>3. Continues(es, i, n + 1)
        BY <1>5, <2>1, <2>2 DEF Continues, IsCall
    <2>. QED  BY <2>1, <2>2, <2>3 DEF SteadyIds
<1>6. Capture(a, e) = Collect(a, e)
    BY <1>5, SteadyStep
<1>7. CaptureAll(u) = b
    BY <1>3, <1>4, <1>6
<1>8. IdsKnown(es, n + 1, b.calls)
    <2>1. CASE e.type # "call"
        <3>1. b.calls = a.calls
            BY <1>3, <2>1 DEF Collect, AnswerShape
        <3>2. \A k : ~IsCall(es[n + 1], k)
            BY <2>1 DEF IsCall
        <3>3. \A i \in 1 .. (n + 1) : i \in 1 .. n \/ i = n + 1
            OBVIOUS
        <3>4. \A i \in 1 .. n : i \in 1 .. (n + 1)
            OBVIOUS
        <3>. HIDE DEF e
        <3>. QED  BY <1>4, <3>1, <3>2, <3>3, <3>4 DEF IdsKnown
    <2>2. CASE e.type = "call"
        <3>. DEFINE c == IF e.index \in DOMAIN a.calls THEN Merged(a.calls[e.index], e) ELSE NewCall(e)
        <3>1. b.calls = Extended(a.calls, e.index, c)
            <4>. DEFINE x == CollectCall(a.calls, e)
            <4>1. b = [a EXCEPT !.calls = x]
                BY <1>3, <2>2 DEF Collect
            <4>2. x = Extended(a.calls, e.index, c)
                BY DEF CollectCall
            <4>. HIDE DEF x, c
            <4>3. b.calls = x
                BY <1>3, <4>1 DEF AnswerShape
            <4>. QED  BY <4>2, <4>3
        <3>2. /\ e.index \in DOMAIN a.calls => c.id = a.calls[e.index].id
              /\ e.index \notin DOMAIN a.calls => c.id = e.id
            BY DEF Merged, NewCall
        <3>. HIDE DEF c
        <3>3. /\ DOMAIN b.calls = DOMAIN a.calls \cup {e.index} /\ b.calls[e.index] = c
              /\ \A k \in DOMAIN a.calls : k # e.index => b.calls[k] = a.calls[k]
            BY <3>1 DEF Extended
        <3>4. \A k \in DOMAIN a.calls : b.calls[k].id = a.calls[k].id
            BY <3>2, <3>3
        <3>5. ASSUME NEW k \in DOMAIN a.calls
              PROVE  \E i \in 1 .. (n + 1) : Opens(es, i) /\ es[i].index = k /\ b.calls[k].id = es[i].id
            <4>1. PICK i \in 1 .. n : Opens(es, i) /\ es[i].index = k /\ a.calls[k].id = es[i].id
                BY <1>4 DEF IdsKnown
            <4>2. i \in 1 .. (n + 1)
                OBVIOUS
            <4>. QED  BY <3>4, <4>1, <4>2
        <3>6. ASSUME e.index \notin DOMAIN a.calls
              PROVE  /\ n + 1 \in 1 .. (n + 1) /\ Opens(es, n + 1) /\ es[n + 1].index = e.index
                     /\ b.calls[e.index].id = es[n + 1].id
            <4>1. \A i \in 1 .. n : ~IsCall(es[i], e.index)
                BY <1>4, <3>6 DEF IdsKnown
            <4>2. (n + 1) - 1 = n /\ n + 1 \in 1 .. (n + 1)
                OBVIOUS
            <4>3. Opens(es, n + 1)
                BY <2>2, <4>1, <4>2 DEF Opens
            <4>. QED  BY <3>2, <3>3, <3>6, <4>2, <4>3
        <3>7. ASSUME NEW k, k \notin DOMAIN b.calls, NEW i \in 1 .. (n + 1) PROVE ~IsCall(es[i], k)
            <4>1. CASE i = n + 1
                BY <3>3, <3>7, <4>1 DEF IsCall
            <4>2. CASE i # n + 1
                BY <1>4, <3>3, <3>7, <4>2 DEF IdsKnown
            <4>. QED  BY <4>1, <4>2
        <3>8. ASSUME NEW k \in DOMAIN b.calls
              PROVE  \E i \in 1 .. (n + 1) : Opens(es, i) /\ es[i].index = k /\ b.calls[k].id = es[i].id
            BY <3>3, <3>5, <3>6
        <3>. QED  BY <3>7, <3>8 DEF IdsKnown
    <2>. QED  BY <2>1, <2>2
<1>. QED  BY <1>7, <1>8 DEF SteadyAt, u, b

\* Where no id changes on the way, collector and capture are one.
LEMMA SteadySame ==
    ASSUME NEW es, EventsOK(es), SteadyIds(es)
    PROVE  CaptureAll(es) = CollectAll(es)
<1>1. es \in Seq(ToSet(es)) /\ Len(es) \in Nat
    BY DEF EventsOK, IsList
<1>. DEFINE P == {m \in Nat : m <= Len(es) => SteadyAt(es, m)}
<1>2. 0 \in P
    <2>. DEFINE s == SubSeq(es, 1, 0)
    <2>1. s = << >>
        OBVIOUS
    <2>2. IdsKnown(es, 0, NoAnswer.calls)
        BY DEF NoAnswer, IdsKnown
    <2>. HIDE DEF s
    <2>4. CaptureAll(s) = NoAnswer /\ CollectAll(s) = NoAnswer
        BY <2>1, FoldsOfNone
    <2>3. SteadyAt(es, 0)
        BY <2>2, <2>4 DEF SteadyAt, s
    <2>. QED  BY <2>3
<1>3. \A m \in Nat \cap P : m + 1 \in P
    BY <1>1, SteadyNext
<1>. HIDE DEF P
<1>4. Len(es) \in P
    BY <1>1, <1>2, <1>3, NaturalsSet
<1>. DEFINE s == SubSeq(es, 1, Len(es))
<1>5. s = es
    BY <1>1
<1>6. SteadyAt(es, Len(es))
    BY <1>1, <1>4 DEF P
<1>7. CaptureAll(s) = CollectAll(s)
    BY <1>6 DEF SteadyAt
<1>. HIDE DEF s
<1>. QED  BY <1>5, <1>7

\* What the client of a buffered answer gets of two answers that differ in ids only.
LEMMA EnvelopesSame ==
    ASSUME NEW a, AnswerShape(a), NEW b, AnswerShape(b), SameAnswer(b, a)
    PROVE  [Envelope(a) EXCEPT !.calls = IdsAside(@)] = [Envelope(b) EXCEPT !.calls = IdsAside(@)]
<1>1. IdsAside(a.calls) = IdsAside(b.calls)
    BY DEF IdsAside, SameAnswer, SameCalls
<1>2. ASSUME NEW x, AnswerShape(x)
      PROVE  [Envelope(x) EXCEPT !.calls = IdsAside(@)] =
                [text |-> x.text, calls |-> IdsAside(x.calls), usage |-> Counted(x.usage),
                 finish |-> IF x.finish = None THEN "stop" ELSE x.finish]
    <2>. DEFINE f == IF x.finish = None THEN "stop" ELSE x.finish
                u == Counted(x.usage)
                c == IdsAside(x.calls)
    <2>1. Filled(x) = [x EXCEPT !.finish = f]
        BY DEF Filled
    <2>2. Filled(x) = [text |-> x.text, calls |-> x.calls, usage |-> x.usage, finish |-> f]
        <3>. HIDE DEF f
        <3>. QED  BY <1>2, <2>1 DEF AnswerShape
    <2>3. Filled(x).usage = x.usage
        BY <2>2
    <2>4. Envelope(x) = [Filled(x) EXCEPT !.usage = u]
        BY <2>3 DEF Envelope
    <2>5. Envelope(x) = [text |-> x.text, calls |-> x.calls, usage |-> u, finish |-> f]
        <3>. HIDE DEF u, f
        <3>. QED  BY <2>2, <2>4
    <2>6. Envelope(x).calls = x.calls
        BY <2>5
    <2>7. [Envelope(x) EXCEPT !.calls = IdsAside(@)] = [Envelope(x) EXCEPT !.calls = c]
        BY <2>6
    <2>. HIDE DEF u, f, c
    <2>8. [Envelope(x) EXCEPT !.calls = c] = [text |-> x.text, calls |-> c, usage |-> u, finish |-> f]
        BY <2>5
    <2>. QED  BY <2>7, <2>8 DEF u, f, c
<1>. QED  BY <1>1, <1>2 DEF SameAnswer

\* What the audit row keeps of a stream is what a client gets in one piece, up to ids that change
\* on the way, and what a client of the stream puts together from its frames (the three
\* writers, the collector, the capture, the serializers).
THEOREM StreamEqualsBufferedAlways == Spec => []StreamEqualsBuffered
<1>1. StreamInv => StreamEqualsBuffered
    <2>. SUFFICES ASSUME StreamInv, status = "ended" PROVE StreamEqualsBuffered
        BY DEF StreamEqualsBuffered
    <2>. DEFINE b == Captured
                a == Filled(Captured)
    <2>1. EventsOK(parser.events) /\ writer.closed = TRUE /\ Follows(writer, a)
        BY ThroughMeans DEF StreamInv, Captured
    <2>2. AnswerShape(b) /\ AnswerShape(Buffered) /\ SameAnswer(Buffered, b)
        <3>1. parser.events \in Seq(ToSet(parser.events)) /\ \A e \in ToSet(parser.events) : Legible(e)
            BY <2>1 DEF EventsOK, IsList, IsEvent
        <3>. QED  BY <2>1, <3>1, EventsShaped, BothSame DEF Buffered, Captured
    <2>3. a.text = b.text /\ a.calls = b.calls /\ a.usage = b.usage /\ AnswerShape(a)
        BY <2>2, FilledIs
    <2>4. [Envelope(Captured) EXCEPT !.calls = IdsAside(@)] = [Envelope(Buffered) EXCEPT !.calls = IdsAside(@)]
        BY <2>2, EnvelopesSame
    <2>8. SteadyIds(parser.events) => Envelope(Captured) = Envelope(Buffered)
        <3>1. SteadyIds(parser.events) => Captured = Buffered
            BY <2>1, SteadySame DEF Captured, Buffered
        <3>. QED  BY <3>1
    <2>5. turn.route = "openai_chat" => ReadAll(writer.out) = Filled(Captured)
        BY <2>1 DEF Follows
    <2>6. turn.route = "anthropic_messages" =>
            ReadAll(writer.out) = [Filled(Captured) EXCEPT !.calls = << >>, !.finish = AnthropicReason(@),
                                                           !.usage = OutputOnly(@)]
        <3>1. SUFFICES ASSUME turn.route = "anthropic_messages"
                       PROVE  ReadAll(writer.out) = [a EXCEPT !.calls = << >>, !.finish = AnthropicReason(@),
                                                              !.usage = OutputOnly(@)]
            OBVIOUS
        <3>. DEFINE r == AnthropicReason(a.finish)
                    u == OutputOnly(a.usage)
                    s == [text |-> a.text, calls |-> << >>, usage |-> u, finish |-> r]
        <3>2. ReadAll(writer.out) = s
            BY <2>1, <3>1 DEF Follows, Told, Said
        <3>3. [a EXCEPT !.calls = << >>, !.finish = AnthropicReason(@), !.usage = OutputOnly(@)]
                = [a EXCEPT !.calls = << >>, !.finish = r, !.usage = u]
            OBVIOUS
        <3>. DEFINE v == [a EXCEPT !.calls = << >>, !.finish = r, !.usage = u]
                    e == << >>
        <3>. HIDE DEF a, r, u
        <3>4. v = s
            <4>1. a = [text |-> a.text, calls |-> a.calls, usage |-> a.usage, finish |-> a.finish]
                BY <2>3 DEF AnswerShape
            <4>2. Retold(v, a, e, r, u)
                BY DEF Retold
            <4>. HIDE DEF v, e
            <4>3. v = [text |-> a.text, calls |-> e, usage |-> u, finish |-> r]
                BY <4>1, <4>2, RetoldIs
            <4>. QED  BY <4>3 DEF e
        <3>. QED  BY <3>2, <3>3, <3>4
    <2>7. turn.route = "openai_responses" =>
            /\ {WithArgs(x) : x \in ToSet(Last(writer.out).output)} =
                   {WithArgs(ToolItem(WithArgs(Captured.calls[i]))) : i \in DOMAIN Captured.calls}
                   \cup (IF Captured.text = << >> THEN {}
                         ELSE {[type |-> "message", args |-> Captured.text]})
            /\ Last(writer.out).usage = Counted(Captured.usage)
        <3>1. SUFFICES ASSUME turn.route = "openai_responses"
                       PROVE  /\ {WithArgs(x) : x \in ToSet(Last(writer.out).output)} =
                                    {WithArgs(ToolItem(WithArgs(b.calls[i]))) : i \in DOMAIN b.calls}
                                    \cup (IF b.text = << >> THEN {} ELSE {[type |-> "message", args |-> b.text]})
                              /\ Last(writer.out).usage = Counted(b.usage)
            OBVIOUS
        <3>2. ResponsesShut(writer, a)
            BY <2>1, <3>1 DEF Follows
        <3>. HIDE DEF a, b
        <3>3. {WithArgs(x) : x \in ToSet(Last(writer.out).output)} =
                {WithArgs(ToolItem(WithArgs(a.calls[i]))) : i \in DOMAIN a.calls}
                \cup (IF a.text = << >> THEN {} ELSE {[type |-> "message", args |-> a.text]})
            BY <2>3, <3>2, OutputTells
        <3>4. Last(writer.out).usage = Counted(a.usage)
            BY <3>2 DEF ResponsesShut
        <3>. QED  BY <2>3, <3>3, <3>4
    <2>. QED  BY <2>4, <2>5, <2>6, <2>7, <2>8 DEF StreamEqualsBuffered
<1>. QED  BY <1>1, StreamInvariant, PTL

\* A tool call that a client sends back in its next request is the call the provider made
\* (normalizeResponsesTools, responsesToolCallItem, convertResponsesInputItem).
THEOREM ToolCallsRoundTripAlways == Spec => []ToolCallsRoundTrip
<1>1. StreamInv => ToolCallsRoundTrip
    <2>. SUFFICES ASSUME StreamInv, status = "ended", NEW i \in DOMAIN Buffered.calls,
                         LegalCall(Buffered.calls[i])
                  PROVE  WithArgs(NormalizedCall(Buffered.calls[i])) = WithArgs(Buffered.calls[i])
        BY DEF ToolCallsRoundTrip, LegalCall
    <2>1. EventsOK(parser.events) /\ turn \in Turns
        BY ThroughMeans DEF StreamInv
    <2>2. AnswerShape(Buffered)
        BY <2>1, EventsShaped DEF Buffered
    <2>3. CallShape(Buffered.calls[i])
        BY <2>2 DEF AnswerShape, CallsShape
    <2>. QED  BY <2>1, <2>3, CallComesBack
<1>. QED  BY <1>1, StreamInvariant, PTL

\* The run checks the stream together with the prices; each of its behaviours is one of the
\* stream's, so the theorems above are about what it checks.
THEOREM PricedIsStream == PricedSpec => Spec
<1>1. PricedInit => Init
    BY DEF PricedInit
<1>2. [PricedNext]_allVars => [Next]_vars
    BY DEF PricedNext, allVars, Stream, Pricing, FetchSucceeds, FetchFails, Age, Provision,
           ChargeAnswer, StartSync
<1>. QED  BY <1>1, <1>2, PTL DEF PricedSpec, Spec

===============================================================================
