-------------------------- MODULE ExecutionProofs --------------------------
(***************************************************************************)
(* What the execution of requests takes and gives back, for every value of *)
(* the constants.                                                          *)
(*                                                                         *)
(* Slots: what the controller's methods do to a record and to the two sets *)
(* of callers it stands for, those that wait in its queue and those that   *)
(* hold its slots.  Both parts below rest on these lemmas.                 *)
(*                                                                         *)
(* Controller: for every finite set of callers and every set of positive   *)
(* limits its counter is exact, no slot idles while somebody waits, nobody *)
(* is overtaken, and the controller implements SlotLimiter.                *)
(*                                                                         *)
(* Requests: for every finite set of requests, every tier and every set of *)
(* snapshots the controllers count exactly the requests that hold and      *)
(* wait, no slot is given beyond the limit and none idles while a request  *)
(* waits for it, nothing is held by a request that waits or is over, and a *)
(* tier is exhausted only when it is.                                      *)
(***************************************************************************)
EXTENDS ConcurrencyController, ModelExecution, FiniteSetTheorems, FunctionTheorems,
        SequenceTheorems, TLAPS

(* ------------------------------- the slots ------------------------------ *)

\* Records whose queue has callers of C.
SlotType(C) == [max : Nat, active : Nat, queue : Seq(C)]

Injective(q) == \A i, j \in 1 .. Len(q) : q[i] = q[j] => i = j

\* The callers in a queue.
InQueue(q) == {q[i] : i \in 1 .. Len(q)}

\* The record st counts the holders H and queues the waiters W, each once.
Agrees(C, st, W, H) ==
  /\ st \in SlotType(C)
  /\ W \subseteq C /\ H \subseteq C /\ W \cap H = {}
  /\ W = InQueue(st.queue) /\ Injective(st.queue)
  /\ st.active = Cardinality(H)

\* Nobody waits while a slot is free.
NoIdle(st) == st.queue # <<>> => st.active >= st.max

-----------------------------------------------------------------------------
\* What a drain does to a record: it serves a prefix of the queue.
LEMMA DrainFacts ==
  ASSUME NEW C, NEW st \in SlotType(C)
  PROVE  /\ GrantCount(st) \in 0 .. Len(st.queue)
         /\ Drained(st) \in SlotType(C)
         /\ Drained(st).max = st.max
         /\ Drained(st).active = st.active + GrantCount(st)
         /\ Len(Drained(st).queue) = Len(st.queue) - GrantCount(st)
         /\ \A k \in 1 .. Len(st.queue) - GrantCount(st) :
              Drained(st).queue[k] = st.queue[k + GrantCount(st)]
<1>. DEFINE n == GrantCount(st)
            q == st.queue
<1>1. q \in Seq(C) /\ Len(q) \in Nat /\ st.max \in Nat /\ st.active \in Nat
  BY DEF SlotType
<1>2. n \in 0 .. Len(q)
  BY <1>1 DEF GrantCount, FreeSlots
<1>3. /\ SubSeq(q, n + 1, Len(q)) \in Seq(C)
      /\ Len(SubSeq(q, n + 1, Len(q))) = Len(q) - n
      /\ \A k \in 1 .. Len(q) - n : SubSeq(q, n + 1, Len(q))[k] = q[k + n]
  <2>. HIDE DEF n, q
  <2>1. \A k \in n + 1 .. Len(q) : q[k] \in C
    BY <1>1, <1>2
  <2>. QED  BY <1>1, <1>2, <2>1
<1>4. Drained(st) = [max |-> st.max, active |-> st.active + n,
                     queue |-> SubSeq(q, n + 1, Len(q))]
  BY DEF Drained
<1>. QED  BY <1>1, <1>2, <1>3, <1>4 DEF SlotType

\* After a drain nobody waits for a free slot, and a drain that served
\* somebody stays within the limit.
LEMMA DrainLeavesNoIdleSlot ==
  ASSUME NEW C, NEW st \in SlotType(C)
  PROVE  /\ NoIdle(Drained(st))
         /\ GrantCount(st) > 0 => Drained(st).active <= st.max
<1>1. st.max \in Nat /\ st.active \in Nat /\ Len(st.queue) \in Nat
  BY DEF SlotType
<1>2. Drained(st).queue # <<>> => Len(Drained(st).queue) > 0
  BY DrainFacts, EmptySeq DEF SlotType
<1>. QED  BY <1>1, <1>2, DrainFacts DEF GrantCount, FreeSlots, NoIdle

\* What a drain grants is nothing, or within the limit.
LEMMA GrantsWithinLimit ==
  ASSUME NEW C, NEW st \in SlotType(C)
  PROVE  Granted(st) = {} \/ Drained(st).active <= st.max
<1>1. GrantCount(st) \in Nat
  <2>1. GrantCount(st) \in 0 .. Len(st.queue)
    BY DrainFacts
  <2>. QED  BY <2>1
<1>2. GrantCount(st) = 0 => Granted(st) = {}
  BY DEF Granted
<1>3. GrantCount(st) > 0 => Drained(st).active <= st.max
  BY DrainLeavesNoIdleSlot
<1>. QED  BY <1>1, <1>2, <1>3

\* The waiters a drain resolves are as many as the slots it takes.
LEMMA GrantedCardinality ==
  ASSUME NEW C, NEW st \in SlotType(C), Injective(st.queue)
  PROVE  /\ Granted(st) \subseteq C
         /\ IsFiniteSet(Granted(st))
         /\ Cardinality(Granted(st)) = GrantCount(st)
<1>. DEFINE n == GrantCount(st)
            f == [i \in 1 .. n |-> st.queue[i]]
<1>1. n \in Nat /\ n <= Len(st.queue) /\ st.queue \in Seq(C)
  <2>1. n \in 0 .. Len(st.queue)
    BY DrainFacts
  <2>. QED  BY <2>1 DEF SlotType
<1>2. IsFiniteSet(1 .. n) /\ Cardinality(1 .. n) = n
  BY <1>1, FS_Interval
<1>3. f \in Bijection(1 .. n, Granted(st))
  <2>1. f \in [1 .. n -> Granted(st)]
    BY DEF Granted
  <2>2. \A i, j \in 1 .. n : f[i] = f[j] => i = j
    BY <1>1 DEF Injective
  <2>3. \A t \in Granted(st) : \E i \in 1 .. n : f[i] = t
    BY DEF Granted
  <2>. QED  BY <2>1, <2>2, <2>3, Fun_IsBij
<1>4. ExistsBijection(1 .. n, Granted(st))
  BY <1>3 DEF ExistsBijection
<1>5. Granted(st) \subseteq C
  BY <1>1, ElementOfSeq DEF Granted
<1>. QED  BY <1>2, <1>4, <1>5, FS_Bijection

-----------------------------------------------------------------------------
\* The updates of a single field.
LEMMA ResizedFacts ==
  ASSUME NEW C, NEW st \in SlotType(C), NEW m \in Nat
  PROVE  /\ Resized(st, m) \in SlotType(C)
         /\ Resized(st, m).max = m
         /\ Resized(st, m).active = st.active
         /\ Resized(st, m).queue = st.queue
BY DEF SlotType, Resized

\* What admission does to a record: one more is active, the queue stays.
LEMMA AdmittedFacts ==
  ASSUME NEW C, NEW st \in SlotType(C)
  PROVE  /\ Admitted(st) \in SlotType(C)
         /\ Admitted(st).max = st.max
         /\ Admitted(st).active = st.active + 1
         /\ Admitted(st).queue = st.queue
BY DEF SlotType, Admitted

\* What a return does to a record: one less is active, never less than none.
LEMMA ReturnedFacts ==
  ASSUME NEW C, NEW st \in SlotType(C), st.active > 0
  PROVE  /\ Returned(st) \in SlotType(C)
         /\ Returned(st).max = st.max
         /\ Returned(st).active = st.active - 1
         /\ Returned(st).queue = st.queue
<1>1. st.active - 1 \in Nat
  BY DEF SlotType
<1>. QED  BY <1>1 DEF SlotType, Returned

\* What waiting does to a record: the caller is last in the queue.
LEMMA EnqueuedFacts ==
  ASSUME NEW C, NEW st \in SlotType(C), NEW c \in C
  PROVE  /\ Enqueued(st, c) \in SlotType(C)
         /\ Enqueued(st, c).max = st.max
         /\ Enqueued(st, c).active = st.active
         /\ Enqueued(st, c).queue = Append(st.queue, c)
<1>1. Append(st.queue, c) \in Seq(C)
  BY AppendProperties DEF SlotType
<1>. QED  BY <1>1 DEF SlotType, Enqueued

\* What a queue timer does to a record: entry i is gone, the others keep their order.
LEMMA SplicedFacts ==
  ASSUME NEW C, NEW st \in SlotType(C), NEW i \in 1 .. Len(st.queue)
  PROVE  /\ Spliced(st, i) \in SlotType(C)
         /\ Spliced(st, i).max = st.max
         /\ Spliced(st, i).active = st.active
         /\ Len(Spliced(st, i).queue) = Len(st.queue) - 1
         /\ \A k \in 1 .. Len(st.queue) - 1 :
              Spliced(st, i).queue[k] = IF k < i THEN st.queue[k] ELSE st.queue[k + 1]
<1>. DEFINE q  == st.queue
            q2 == [k \in 1 .. Len(q) - 1 |-> IF k < i THEN q[k] ELSE q[k + 1]]
<1>1. q \in Seq(C) /\ Len(q) \in Nat /\ Len(q) - 1 \in Nat
  BY DEF SlotType
<1>2. \A k \in 1 .. Len(q) - 1 : q2[k] \in C
  BY <1>1, ElementOfSeq
<1>3. q2 \in [1 .. Len(q) - 1 -> C]
  BY <1>2
<1>4. q2 \in Seq(C)
  <2>. HIDE DEF q, q2
  <2>. QED  BY <1>1, <1>3, SeqDef
<1>5. Len(q2) \in Nat /\ 1 .. Len(q2) = 1 .. Len(q) - 1
  BY <1>3, <1>4, LenProperties
<1>6. Len(q2) = Len(q) - 1
  <2>. HIDE DEF q, q2
  <2>. QED  BY <1>1, <1>5
<1>7. /\ Spliced(st, i) \in SlotType(C) /\ Spliced(st, i).queue = q2
      /\ Spliced(st, i).max = st.max /\ Spliced(st, i).active = st.active
  BY <1>4 DEF Spliced, SlotType
<1>. QED  BY <1>6, <1>7

-----------------------------------------------------------------------------
\* A drain moves its waiters from the queue to the holders, and nobody else.
LEMMA DrainAgrees ==
  ASSUME NEW C, IsFiniteSet(C), NEW st, NEW W, NEW H, Agrees(C, st, W, H)
  PROVE  /\ Agrees(C, Drained(st), W \ Granted(st), H \cup Granted(st))
         /\ Granted(st) \subseteq W
         /\ NoIdle(Drained(st))
<1>. DEFINE n == GrantCount(st)
            q == st.queue
            q2 == Drained(st).queue
            G == Granted(st)
<1>1. /\ st \in SlotType(C) /\ q \in Seq(C) /\ Len(q) \in Nat /\ n \in 0 .. Len(q)
      /\ q2 \in Seq(C) /\ Len(q2) = Len(q) - n
      /\ \A k \in 1 .. Len(q) - n : q2[k] = q[k + n]
  <2>1. st \in SlotType(C)
    BY DEF Agrees
  <2>. QED  BY <2>1, DrainFacts DEF SlotType
<1>2. G = {q[i] : i \in 1 .. n} /\ W = {q[i] : i \in 1 .. Len(q)}
  BY DEF Granted, Agrees, InQueue
<1>3. \A i, j \in 1 .. Len(q) : q[i] = q[j] => i = j
  BY DEF Agrees, Injective
<1>4. G \subseteq W
  BY <1>1, <1>2
<1>5. Injective(q2)
  <2>. HIDE DEF n, q, q2
  <2>1. SUFFICES ASSUME NEW i \in 1 .. Len(q) - n, NEW j \in 1 .. Len(q) - n,
                        q2[i] = q2[j]
                 PROVE  i = j
    BY <1>1 DEF Injective
  <2>2. q[i + n] = q[j + n] /\ i + n \in 1 .. Len(q) /\ j + n \in 1 .. Len(q)
    BY <1>1, <2>1
  <2>3. i + n = j + n
    BY <1>3, <2>2
  <2>. QED  BY <1>1, <2>3
<1>6. W \ G = InQueue(q2)
  <2>. HIDE DEF n, q, q2, G
  <2>1. ASSUME NEW x \in W \ G
        PROVE  x \in InQueue(q2)
    <3>1. PICK i \in 1 .. Len(q) : q[i] = x
      BY <1>2, <2>1
    <3>2. i - n \in 1 .. Len(q) - n /\ (i - n) + n = i
      BY <1>1, <1>2, <2>1, <3>1
    <3>3. q2[i - n] = x
      BY <1>1, <3>1, <3>2
    <3>. QED  BY <1>1, <3>2, <3>3 DEF InQueue
  <2>2. ASSUME NEW x \in InQueue(q2)
        PROVE  x \in W \ G
    <3>1. PICK k \in 1 .. Len(q) - n : q2[k] = x
      BY <1>1, <2>2 DEF InQueue
    <3>2. k + n \in 1 .. Len(q) /\ q[k + n] = x
      BY <1>1, <3>1
    <3>3. ASSUME NEW i \in 1 .. n, q[i] = x
          PROVE  FALSE
      <4>1. i \in 1 .. Len(q) /\ i # k + n
        BY <1>1
      <4>. QED  BY <1>3, <3>2, <3>3, <4>1
    <3>. QED  BY <1>2, <3>2, <3>3
  <2>. QED  BY <2>1, <2>2
<1>7. IsFiniteSet(G) /\ Cardinality(G) = n /\ G \subseteq C
  BY <1>1, GrantedCardinality DEF Agrees
<1>8. Cardinality(H \cup G) = Cardinality(H) + n
  <2>1. IsFiniteSet(H) /\ Cardinality(H) \in Nat /\ n \in Nat
    BY <1>1, FS_Subset, FS_CardinalityType DEF Agrees
  <2>2. H \cap G = {} /\ Cardinality(H \cap G) = 0
    BY <1>4, FS_EmptySet DEF Agrees
  <2>3. Cardinality(H \cup G)
          = Cardinality(H) + Cardinality(G) - Cardinality(H \cap G)
    BY <1>7, <2>1, FS_Union
  <2>. QED  BY <1>7, <2>1, <2>2, <2>3
<1>9. Drained(st) \in SlotType(C) /\ Drained(st).active = Cardinality(H \cup G)
  <2>1. st.active = Cardinality(H)
    BY DEF Agrees
  <2>. QED  BY <1>1, <1>8, <2>1, DrainFacts
<1>10. Agrees(C, Drained(st), W \ G, H \cup G)
  <2>1. W \subseteq C /\ H \subseteq C /\ W \cap H = {}
    BY DEF Agrees
  <2>. HIDE DEF G
  <2>. QED  BY <1>5, <1>6, <1>7, <1>9, <2>1 DEF Agrees
<1>. QED  BY <1>1, <1>4, <1>10, DrainLeavesNoIdleSlot

\* A new limit changes neither holders nor waiters.
LEMMA ResizeAgrees ==
  ASSUME NEW C, NEW st, NEW W, NEW H, Agrees(C, st, W, H), NEW m \in Nat
  PROVE  Agrees(C, Resized(st, m), W, H)
BY ResizedFacts DEF Agrees

\* An admitted caller holds a slot; where a drain left one free, nobody waits.
LEMMA AdmitAgrees ==
  ASSUME NEW C, IsFiniteSet(C), NEW st, NEW W, NEW H, Agrees(C, st, W, H),
         NEW c \in C \ (W \cup H), NoIdle(st), HasFreeSlot(st)
  PROVE  /\ Agrees(C, Admitted(st), W, H \cup {c})
         /\ NoIdle(Admitted(st))
<1>1. st \in SlotType(C)
  BY DEF Agrees
<1>2. Cardinality(H \cup {c}) = Cardinality(H) + 1
  <2>1. IsFiniteSet(H)
    BY FS_Subset DEF Agrees
  <2>. QED  BY <2>1, FS_AddElement
<1>3. st.queue = <<>>
  BY <1>1 DEF NoIdle, HasFreeSlot, SlotType
<1>. QED  BY <1>1, <1>2, <1>3, AdmittedFacts DEF Agrees, NoIdle

\* A caller that finds no free slot is last in the queue.
LEMMA EnqueueAgrees ==
  ASSUME NEW C, NEW st, NEW W, NEW H, Agrees(C, st, W, H),
         NEW c \in C \ (W \cup H), ~HasFreeSlot(st)
  PROVE  /\ Agrees(C, Enqueued(st, c), W \cup {c}, H)
         /\ NoIdle(Enqueued(st, c))
<1>. DEFINE q  == st.queue
            q2 == Append(q, c)
<1>1. st \in SlotType(C) /\ q \in Seq(C)
  BY DEF Agrees, SlotType
<1>2. /\ Len(q) \in Nat /\ Len(q2) = Len(q) + 1 /\ q2[Len(q) + 1] = c
      /\ \A i \in 1 .. Len(q) : q2[i] = q[i]
  BY <1>1, AppendProperties
<1>3. /\ \A i \in 1 .. Len(q) : q[i] # c
      /\ \A i, j \in 1 .. Len(q) : q[i] = q[j] => i = j
  BY DEF Agrees, InQueue, Injective
<1>4. \A i \in 1 .. Len(q2) : i \in 1 .. Len(q) \/ i = Len(q) + 1
  BY <1>2
<1>5. Injective(q2)
  <2>. HIDE DEF q2, q
  <2>. QED  BY <1>2, <1>3, <1>4 DEF Injective
<1>6. InQueue(q2) = InQueue(q) \cup {c}
  <2>1. 1 .. Len(q) \subseteq 1 .. Len(q2) /\ Len(q) + 1 \in 1 .. Len(q2)
    BY <1>2
  <2>. HIDE DEF q2, q
  <2>. QED  BY <1>2, <1>4, <2>1 DEF InQueue
<1>7. /\ Enqueued(st, c) \in SlotType(C) /\ Enqueued(st, c).max = st.max
      /\ Enqueued(st, c).active = st.active /\ Enqueued(st, c).queue = q2
  BY <1>1, EnqueuedFacts
<1>8. NoIdle(Enqueued(st, c))
  BY <1>1, <1>7 DEF NoIdle, HasFreeSlot, SlotType
<1>9. Agrees(C, Enqueued(st, c), W \cup {c}, H)
  <2>1. /\ W \subseteq C /\ H \subseteq C /\ W \cap H = {}
        /\ W = InQueue(q) /\ st.active = Cardinality(H)
    BY DEF Agrees
  <2>. HIDE DEF q2, q
  <2>. QED  BY <1>5, <1>6, <1>7, <2>1 DEF Agrees
<1>. QED  BY <1>8, <1>9

\* A holder that returns its slot holds it no more.
LEMMA ReturnAgrees ==
  ASSUME NEW C, IsFiniteSet(C), NEW st, NEW W, NEW H, Agrees(C, st, W, H), NEW c \in H
  PROVE  /\ Agrees(C, Returned(st), W, H \ {c})
         /\ Returned(st).max = st.max /\ Returned(st).queue = st.queue
<1>1. st \in SlotType(C) /\ st.active = Cardinality(H) /\ IsFiniteSet(H)
  BY FS_Subset DEF Agrees
<1>2. Cardinality(H \ {c}) = Cardinality(H) - 1
  BY <1>1, FS_RemoveElement
<1>3. Cardinality(H \ {c}) \in Nat /\ Cardinality(H) \in Nat
  BY <1>1, FS_Subset, FS_CardinalityType
<1>4. st.active > 0
  BY <1>1, <1>2, <1>3
<1>. QED  BY <1>1, <1>2, <1>4, ReturnedFacts DEF Agrees

\* A queue timer takes exactly its own entry out.
LEMMA SpliceAgrees ==
  ASSUME NEW C, NEW st, NEW W, NEW H, Agrees(C, st, W, H),
         NEW i \in 1 .. Len(st.queue)
  PROVE  /\ Agrees(C, Spliced(st, i), W \ {st.queue[i]}, H)
         /\ Spliced(st, i).max = st.max /\ Spliced(st, i).active = st.active
         /\ NoIdle(st) => NoIdle(Spliced(st, i))
<1>. DEFINE q  == st.queue
            q2 == Spliced(st, i).queue
            c  == q[i]
<1>1. st \in SlotType(C) /\ q \in Seq(C) /\ Len(q) \in Nat
  BY DEF Agrees, SlotType
<1>2. /\ Spliced(st, i) \in SlotType(C)
      /\ Spliced(st, i).max = st.max /\ Spliced(st, i).active = st.active
      /\ Len(q2) = Len(q) - 1
      /\ \A k \in 1 .. Len(q) - 1 : q2[k] = IF k < i THEN q[k] ELSE q[k + 1]
  BY <1>1, SplicedFacts
<1>3. \A k, l \in 1 .. Len(q) : q[k] = q[l] => k = l
  BY DEF Agrees, Injective
<1>4. Injective(q2)
  <2>1. SUFFICES ASSUME NEW k \in 1 .. Len(q) - 1, NEW l \in 1 .. Len(q) - 1,
                        q2[k] = q2[l]
                 PROVE  k = l
    BY <1>2 DEF Injective
  <2>. DEFINE old(x) == IF x < i THEN x ELSE x + 1
  <2>2. /\ old(k) \in 1 .. Len(q) /\ old(l) \in 1 .. Len(q)
        /\ q2[k] = q[old(k)] /\ q2[l] = q[old(l)]
    BY <1>1, <1>2
  <2>3. old(k) = old(l)
    <3>. HIDE DEF old, q2, q
    <3>. QED  BY <1>3, <2>1, <2>2
  <2>. QED  BY <2>3
<1>5. InQueue(q) \ {c} = InQueue(q2)
  <2>. HIDE DEF q, q2
  <2>1. ASSUME NEW x \in InQueue(q) \ {c}
        PROVE  x \in InQueue(q2)
    <3>1. PICK k \in 1 .. Len(q) : q[k] = x /\ k # i
      BY <2>1 DEF InQueue, c
    <3>2. CASE k < i
      <4>1. k \in 1 .. Len(q) - 1 /\ q2[k] = x
        BY <1>1, <1>2, <3>1, <3>2 DEF q
      <4>. QED  BY <1>2, <4>1 DEF InQueue
    <3>3. CASE k > i
      <4>1. k - 1 \in 1 .. Len(q) - 1 /\ ~(k - 1 < i) /\ (k - 1) + 1 = k
        BY <1>1, <3>3 DEF q
      <4>2. q2[k - 1] = x
        BY <1>2, <3>1, <4>1
      <4>. QED  BY <1>2, <4>1, <4>2 DEF InQueue
    <3>4. k < i \/ k > i
      BY <1>1, <3>1 DEF q
    <3>. QED  BY <3>2, <3>3, <3>4
  <2>2. ASSUME NEW x \in InQueue(q2)
        PROVE  x \in InQueue(q) \ {c}
    <3>1. PICK l \in 1 .. Len(q) - 1 : q2[l] = x
      BY <1>2, <2>2 DEF InQueue
    <3>2. PICK k \in 1 .. Len(q) : k # i /\ q[k] = x
      <4>1. CASE l < i
        BY <1>1, <1>2, <3>1, <4>1
      <4>2. CASE ~(l < i)
        <5>1. l + 1 \in 1 .. Len(q) /\ l + 1 # i /\ q[l + 1] = x
          BY <1>1, <1>2, <3>1, <4>2 DEF q
        <5>. QED  BY <5>1
      <4>. QED  BY <4>1, <4>2
    <3>3. x # c
      BY <1>3, <3>2 DEF c, q
    <3>. QED  BY <3>2, <3>3 DEF InQueue
  <2>. QED  BY <2>1, <2>2
<1>6. NoIdle(st) => NoIdle(Spliced(st, i))
  <2>1. q # <<>>
    BY <1>1, EmptySeq
  <2>. QED  BY <1>2, <2>1 DEF NoIdle
<1>7. Agrees(C, Spliced(st, i), W \ {c}, H)
  <2>1. /\ W \subseteq C /\ H \subseteq C /\ W \cap H = {}
        /\ W = InQueue(q) /\ st.active = Cardinality(H)
    BY DEF Agrees
  <2>. HIDE DEF q2, q, c
  <2>2. InQueue(Spliced(st, i).queue) = W \ {c} /\ Injective(Spliced(st, i).queue)
    BY <1>4, <1>5, <2>1 DEF q2
  <2>. QED  BY <1>2, <2>1, <2>2 DEF Agrees
<1>. QED  BY <1>2, <1>6, <1>7

(* ----------------------------- the controller --------------------------- *)

QueuedCallers == {c \in Callers : caller[c] = "queued"}

\* The invariant says that the record agrees with the callers' states.
LEMMA InvAsAgreement ==
  ControllerInv <=> TypeOK /\ Agrees(Callers, slot, QueuedCallers, Holders) /\ NoIdle(slot)
<1>1. TypeOK => slot \in SlotType(Callers) /\ slot.queue \in Seq(Callers)
  BY DEF TypeOK, SlotType
<1>2. QueuedCallers \subseteq Callers /\ Holders \subseteq Callers /\ QueuedCallers \cap Holders = {}
  BY DEF QueuedCallers, Holders
<1>3. ASSUME TypeOK
      PROVE  (\A c \in Callers : caller[c] = "queued" <=>
                \E i \in 1 .. Len(slot.queue) : slot.queue[i] = c)
             <=> QueuedCallers = InQueue(slot.queue)
  <2>1. \A i \in 1 .. Len(slot.queue) : slot.queue[i] \in Callers
    BY <1>1, <1>3, ElementOfSeq
  <2>. QED  BY <2>1 DEF QueuedCallers, InQueue
<1>. QED
  BY <1>1, <1>2, <1>3
  DEF ControllerInv, QueueMatches, SlotAccounting, NoIdleSlot, Agrees, Injective, NoIdle

\* The same of the state a step leads to.
LEMMA AgreementNext ==
  ASSUME caller' \in [Callers -> CallerStates],
         Agrees(Callers, slot', QueuedCallers', Holders'), NoIdle(slot')
  PROVE  ControllerInv'
<1>1. TypeOK'
  BY DEF TypeOK, Agrees, SlotType
<1>2. (ControllerInv <=> TypeOK /\ Agrees(Callers, slot, QueuedCallers, Holders) /\ NoIdle(slot))'
  BY InvAsAgreement, PTL
<1>. QED  BY <1>1, <1>2

\* A controller without a record satisfies the invariant.
LEMMA ControllerInvInit == ControllerInit => ControllerInv
<1>. SUFFICES ASSUME ControllerInit PROVE ControllerInv
  OBVIOUS
<1>1. slot \in SlotType(Callers) /\ slot.active = 0 /\ slot.queue = <<>>
  BY EmptySeq DEF ControllerInit, NoSlot, SlotType
<1>2. TypeOK
  BY <1>1 DEF ControllerInit, TypeOK, SlotType, CallerStates
<1>3. QueuedCallers = {} /\ Holders = {} /\ Len(slot.queue) = 0 /\ Cardinality({}) = 0
  BY <1>1, EmptySeq, FS_EmptySet DEF ControllerInit, QueuedCallers, Holders
<1>4. Agrees(Callers, slot, QueuedCallers, Holders)
  BY <1>1, <1>3 DEF Agrees, InQueue, Injective
<1>. QED  BY <1>1, <1>2, <1>4, InvAsAgreement DEF NoIdle

-----------------------------------------------------------------------------
\* Entering: the resize drains first, then the caller is admitted or queued.
LEMMA EnterStep ==
  ASSUME ControllerInv, NEW c \in Callers, NEW m \in Limits, Enter(c, m)
  PROVE  ControllerInv'
<1>. DEFINE st == Resized(slot, m)
            dr == Drained(st)
            S  == Granted(st)
<1>1. /\ caller \in [Callers -> CallerStates] /\ IsFiniteSet(Callers) /\ m \in Nat
      /\ Agrees(Callers, st, QueuedCallers, Holders)
  BY CallersAssumption, LimitsAssumption, InvAsAgreement, ResizeAgrees DEF TypeOK
<1>2. /\ Agrees(Callers, dr, QueuedCallers \ S, Holders \cup S)
      /\ S \subseteq QueuedCallers /\ NoIdle(dr)
  BY <1>1, DrainAgrees
<1>3. c \in Callers \ ((QueuedCallers \ S) \cup (Holders \cup S)) /\ S \subseteq Callers
  BY <1>2 DEF Enter, QueuedCallers, Holders
<1>4. CASE HasFreeSlot(dr) /\ slot' = Admitted(dr) /\ Serve(S, c, "holding")
  <2>1. /\ QueuedCallers' = QueuedCallers \ S /\ Holders' = (Holders \cup S) \cup {c}
        /\ caller' \in [Callers -> CallerStates]
    BY <1>1, <1>2, <1>3, <1>4 DEF Serve, QueuedCallers, Holders, CallerStates
  <2>2. Agrees(Callers, slot', QueuedCallers', Holders') /\ NoIdle(slot')
    BY <1>1, <1>2, <1>3, <1>4, <2>1, AdmitAgrees
  <2>. QED  BY <2>1, <2>2, AgreementNext
<1>5. CASE ~HasFreeSlot(dr) /\ slot' = Enqueued(dr, c) /\ Serve(S, c, "queued")
  <2>1. /\ QueuedCallers' = (QueuedCallers \ S) \cup {c} /\ Holders' = Holders \cup S
        /\ caller' \in [Callers -> CallerStates]
    BY <1>1, <1>2, <1>3, <1>5 DEF Serve, QueuedCallers, Holders, CallerStates
  <2>2. Agrees(Callers, slot', QueuedCallers', Holders') /\ NoIdle(slot')
    BY <1>2, <1>3, <1>5, <2>1, EnqueueAgrees
  <2>. QED  BY <2>1, <2>2, AgreementNext
<1>. QED  BY <1>4, <1>5 DEF Enter

\* Returning a slot serves the waiters it makes room for.
LEMMA ReleaseStep ==
  ASSUME ControllerInv, NEW c \in Callers, Release(c)
  PROVE  ControllerInv'
<1>. DEFINE st == Returned(slot)
            S  == Granted(st)
<1>1. /\ caller \in [Callers -> CallerStates] /\ IsFiniteSet(Callers)
      /\ Agrees(Callers, slot, QueuedCallers, Holders) /\ c \in Holders
  BY CallersAssumption, InvAsAgreement DEF TypeOK, Release, Holders
<1>2. Agrees(Callers, st, QueuedCallers, Holders \ {c})
  BY <1>1, ReturnAgrees
<1>3. /\ Agrees(Callers, Drained(st), QueuedCallers \ S, (Holders \ {c}) \cup S)
      /\ S \subseteq QueuedCallers /\ NoIdle(Drained(st))
  BY <1>1, <1>2, DrainAgrees
<1>4. /\ QueuedCallers' = QueuedCallers \ S /\ Holders' = (Holders \ {c}) \cup S
      /\ caller' \in [Callers -> CallerStates]
  BY <1>1, <1>3 DEF Release, Serve, QueuedCallers, Holders, CallerStates
<1>5. Agrees(Callers, slot', QueuedCallers', Holders') /\ NoIdle(slot')
  BY <1>3, <1>4 DEF Release
<1>. QED  BY <1>4, <1>5, AgreementNext

\* A queue timer takes exactly its own entry out.
LEMMA TimeoutStep ==
  ASSUME ControllerInv, NEW c \in Callers, WaiterTimeout(c)
  PROVE  ControllerInv'
<1>1. PICK i \in 1 .. Len(slot.queue) :
        slot.queue[i] = c /\ slot' = Spliced(slot, i)
  BY DEF WaiterTimeout
<1>2. /\ caller \in [Callers -> CallerStates] /\ NoIdle(slot)
      /\ Agrees(Callers, slot, QueuedCallers, Holders)
  BY InvAsAgreement DEF TypeOK
<1>3. /\ QueuedCallers' = QueuedCallers \ {c} /\ Holders' = Holders
      /\ caller' \in [Callers -> CallerStates]
  BY <1>2 DEF WaiterTimeout, QueuedCallers, Holders, CallerStates
<1>4. Agrees(Callers, slot', QueuedCallers', Holders') /\ NoIdle(slot')
  BY <1>1, <1>2, <1>3, SpliceAgrees
<1>. QED  BY <1>3, <1>4, AgreementNext

\* Every step keeps the invariant.
LEMMA ControllerInvNext == ControllerInv /\ [ControllerNext]_controllerVars => ControllerInv'
<1>. SUFFICES ASSUME ControllerInv, [ControllerNext]_controllerVars PROVE ControllerInv'
  OBVIOUS
<1>1. CASE UNCHANGED controllerVars
  BY <1>1 DEF controllerVars, ControllerInv, TypeOK, QueueMatches, SlotAccounting, NoIdleSlot, Holders
<1>2. ASSUME NEW c \in Callers, NEW m \in Limits, Enter(c, m)
      PROVE  ControllerInv'
  BY <1>2, EnterStep
<1>3. ASSUME NEW c \in Callers, Release(c)
      PROVE  ControllerInv'
  BY <1>3, ReleaseStep
<1>4. ASSUME NEW c \in Callers, ReleaseAgain(c)
      PROVE  ControllerInv'
  BY <1>1, <1>4 DEF ReleaseAgain
<1>5. ASSUME NEW c \in Callers, WaiterTimeout(c)
      PROVE  ControllerInv'
  BY <1>5, TimeoutStep
<1>. QED  BY <1>1, <1>2, <1>3, <1>4, <1>5 DEF ControllerNext

\* The inductive invariant holds of every behaviour.
THEOREM ControllerInvariant == ControllerSpec => []ControllerInv
BY ControllerInvInit, ControllerInvNext, PTL DEF ControllerSpec

\* The controller's record and the callers' states are well typed; the
\* counter in particular never becomes negative.
THEOREM ControllerTypeOK == ControllerSpec => []TypeOK
<1>1. ControllerInv => TypeOK
  BY DEF ControllerInv
<1>. QED  BY <1>1, ControllerInvariant, PTL

\* No slot is leaked or returned twice: the counter is the number of holders.
THEOREM SlotsAccounted == ControllerSpec => []SlotAccounting
<1>1. ControllerInv => SlotAccounting
  BY DEF ControllerInv
<1>. QED  BY <1>1, ControllerInvariant, PTL

\* No waiter is left behind a free slot.
THEOREM WorkConserving == ControllerSpec => []NoIdleSlot
<1>1. ControllerInv => NoIdleSlot
  BY DEF ControllerInv
<1>. QED  BY <1>1, ControllerInvariant, PTL

-----------------------------------------------------------------------------
\* Whoever a drain resolves was ahead of everybody it leaves queued.
LEMMA DrainInOrder ==
  ASSUME NEW C, NEW st \in SlotType(C),
         NEW x \in Granted(st), NEW j \in 1 .. Len(st.queue),
         st.queue[j] \notin Granted(st)
  PROVE  \E i \in 1 .. j : st.queue[i] = x
<1>1. GrantCount(st) \in 0 .. Len(st.queue)
  BY DrainFacts
<1>2. Len(st.queue) \in Nat
  BY DEF SlotType
<1>3. PICK i \in 1 .. GrantCount(st) : st.queue[i] = x
  BY DEF Granted
<1>4. j > GrantCount(st)
  BY <1>1, <1>2 DEF Granted
<1>5. i \in 1 .. j
  BY <1>1, <1>2, <1>3, <1>4
<1>. QED  BY <1>3, <1>5

\* What a step serves is a prefix of the queue it found.
LEMMA ServedInOrderStep == ControllerInv /\ ControllerNext => ServedInOrder
<1>. SUFFICES ASSUME ControllerInv, ControllerNext,
                     NEW x \in Callers, caller[x] # "holding", caller'[x] = "holding",
                     NEW j \in 1 .. Len(slot.queue), caller'[slot.queue[j]] = "queued"
              PROVE  \E i \in 1 .. j : slot.queue[i] = x
  BY DEF ServedInOrder
<1>1. /\ slot \in SlotType(Callers) /\ caller \in [Callers -> CallerStates]
      /\ Agrees(Callers, slot, QueuedCallers, Holders) /\ IsFiniteSet(Callers)
      /\ slot.queue[j] \in QueuedCallers /\ slot.queue[j] \in Callers
  BY CallersAssumption, InvAsAgreement DEF TypeOK, Agrees, InQueue
<1>2. ASSUME NEW c \in Callers, NEW m \in Limits, Enter(c, m)
      PROVE  \E i \in 1 .. j : slot.queue[i] = x
  <2>. DEFINE st == Resized(slot, m)
  <2>1. /\ st \in SlotType(Callers) /\ st.queue = slot.queue /\ m \in Nat
        /\ Agrees(Callers, st, QueuedCallers, Holders)
    BY <1>1, LimitsAssumption, ResizedFacts, ResizeAgrees
  <2>2. slot.queue[j] \notin Granted(st)
    BY <1>1, <1>2 DEF Enter, Serve
  <2>3. CASE x \in Granted(st)
    BY <2>1, <2>2, <2>3, DrainInOrder
  <2>4. CASE x \notin Granted(st)
    <3>1. HasFreeSlot(Drained(st))
      BY <1>1, <1>2, <2>4 DEF Enter, Serve
    <3>2. /\ NoIdle(Drained(st))
          /\ Agrees(Callers, Drained(st), QueuedCallers \ Granted(st), Holders \cup Granted(st))
      BY <1>1, <2>1, DrainAgrees
    <3>3. Drained(st).queue = <<>>
      <4>. HIDE DEF st
      <4>. QED  BY <3>1, <3>2 DEF HasFreeSlot, NoIdle, SlotType, Agrees
    <3>4. InQueue(Drained(st).queue) = {}
      BY <3>3, EmptySeq DEF InQueue
    <3>. QED  BY <1>1, <2>2, <3>2, <3>4 DEF Agrees
  <2>. QED  BY <2>3, <2>4
<1>3. ASSUME NEW c \in Callers, Release(c)
      PROVE  \E i \in 1 .. j : slot.queue[i] = x
  <2>. DEFINE st == Returned(slot)
  <2>1. st \in SlotType(Callers) /\ st.queue = slot.queue
    <3>1. c \in Holders
      BY <1>3 DEF Release, Holders
    <3>2. Agrees(Callers, st, QueuedCallers, Holders \ {c}) /\ st.queue = slot.queue
      BY <1>1, <3>1, ReturnAgrees
    <3>. QED  BY <3>2 DEF Agrees
  <2>2. x \in Granted(st) /\ slot.queue[j] \notin Granted(st)
    BY <1>1, <1>3 DEF Release, Serve
  <2>. QED  BY <2>1, <2>2, DrainInOrder
<1>4. ASSUME NEW c \in Callers, ReleaseAgain(c)
      PROVE  FALSE
  BY <1>4 DEF ReleaseAgain, controllerVars
<1>5. ASSUME NEW c \in Callers, WaiterTimeout(c)
      PROVE  FALSE
  BY <1>1, <1>5 DEF WaiterTimeout
<1>. QED  BY <1>2, <1>3, <1>4, <1>5 DEF ControllerNext

\* FIFO: a request that gets a slot never overtakes a waiter.
THEOREM FirstComeFirstServed == ControllerSpec => NoOvertaking
<1>1. ControllerInv /\ [ControllerNext]_controllerVars => [ServedInOrder]_controllerVars
  BY ServedInOrderStep
<1>. QED  BY <1>1, ControllerInvariant, PTL DEF ControllerSpec, NoOvertaking

-----------------------------------------------------------------------------
(***************************************************************************)
(* Refinement.  A step that lets S in (and out, on a release) is one step  *)
(* of the limiter; the limit holds because a drain that served somebody    *)
(* stays within it and the counter is the number of holders.               *)
(***************************************************************************)
\* A change of the holders that keeps to the limit is a step of the limiter.
LEMMA LimiterStep ==
  ASSUME NEW m \in Limits \cup {slot.max}, slot'.max = m,
         NEW L \in SUBSET Holders, NEW A \in SUBSET (Callers \ Holders),
         Holders' = (Holders \ L) \cup A,
         A = {} \/ Cardinality(Holders') <= m
  PROVE  Limiter!Next
<1>1. Limiter!Cardinality(Holders') = Cardinality(Holders')
  BY DEF Limiter!Cardinality, Cardinality
<1>2. Limiter!Step(m, L, A)
  BY <1>1 DEF Limiter!Step
<1>. QED  BY <1>2 DEF Limiter!Next

\* Entering is a request of the limiter, served at once or not.
LEMMA EnterRefines ==
  ASSUME ControllerInv, ControllerInv', NEW c \in Callers, NEW m \in Limits, Enter(c, m)
  PROVE  Limiter!Next
<1>. DEFINE st == Resized(slot, m)
            dr == Drained(st)
            S  == Granted(st)
<1>1. /\ st \in SlotType(Callers) /\ st.max = m /\ m \in Nat
      /\ caller \in [Callers -> CallerStates] /\ IsFiniteSet(Callers)
      /\ Agrees(Callers, st, QueuedCallers, Holders)
  <2>1. slot \in SlotType(Callers) /\ Agrees(Callers, slot, QueuedCallers, Holders)
    BY InvAsAgreement DEF Agrees
  <2>. QED
    BY <2>1, CallersAssumption, LimitsAssumption, ResizedFacts, ResizeAgrees DEF ControllerInv, TypeOK
<1>2. S \subseteq QueuedCallers
  BY <1>1, DrainAgrees
<1>3. dr \in SlotType(Callers) /\ dr.max = m /\ (S = {} \/ dr.active <= m)
  BY <1>1, DrainFacts, GrantsWithinLimit
<1>4. slot'.active = Cardinality(Holders')
  BY DEF ControllerInv, SlotAccounting
<1>5. CASE HasFreeSlot(dr) /\ slot' = Admitted(dr) /\ Serve(S, c, "holding")
  <2>1. /\ Holders' = (Holders \ {}) \cup (S \cup {c})
        /\ S \cup {c} \subseteq Callers \ Holders
    BY <1>1, <1>2, <1>5 DEF Enter, QueuedCallers, Holders, Serve
  <2>2. slot'.max = m /\ slot'.active <= m
    BY <1>1, <1>3, <1>5, AdmittedFacts DEF HasFreeSlot, SlotType
  <2>. QED  BY <1>4, <2>1, <2>2, LimiterStep
<1>6. CASE slot' = Enqueued(dr, c) /\ Serve(S, c, "queued")
  <2>1. Holders' = (Holders \ {}) \cup S /\ S \subseteq Callers \ Holders
    BY <1>1, <1>2, <1>6 DEF Enter, QueuedCallers, Holders, Serve
  <2>2. slot'.max = m /\ slot'.active = dr.active
    BY <1>3, <1>6, EnqueuedFacts
  <2>. QED  BY <1>3, <1>4, <2>1, <2>2, LimiterStep
<1>. QED  BY <1>5, <1>6 DEF Enter

\* A release with its drain is a release of the limiter with its grants.
LEMMA ReleaseRefines ==
  ASSUME ControllerInv, ControllerInv', NEW c \in Callers, Release(c)
  PROVE  Limiter!Next
<1>. DEFINE st == Returned(slot)
            S  == Granted(st)
<1>1. /\ caller \in [Callers -> CallerStates] /\ IsFiniteSet(Callers) /\ c \in Holders
      /\ Agrees(Callers, slot, QueuedCallers, Holders)
  BY CallersAssumption, InvAsAgreement DEF TypeOK, Release, Holders
<1>2. /\ st.max = slot.max /\ st \in SlotType(Callers)
      /\ Agrees(Callers, st, QueuedCallers, Holders \ {c})
  BY <1>1, ReturnAgrees DEF Agrees
<1>3. S \subseteq QueuedCallers
  BY <1>1, <1>2, DrainAgrees
<1>4. /\ slot' = Drained(st) /\ slot'.max = slot.max
      /\ S = {} \/ slot'.active <= slot.max
  BY <1>2, DrainFacts, GrantsWithinLimit DEF Release
<1>5. Holders' = (Holders \ {c}) \cup S /\ S \subseteq Callers \ Holders
      /\ {c} \subseteq Holders
  BY <1>1, <1>3 DEF QueuedCallers, Holders, Release, Serve
<1>6. slot'.active = Cardinality(Holders')
  BY DEF ControllerInv, SlotAccounting
<1>. QED  BY <1>4, <1>5, <1>6, LimiterStep

\* Every step is a step of the limiter or leaves it alone.
LEMMA NextRefines == ControllerInv /\ ControllerInv' /\ [ControllerNext]_controllerVars => [Limiter!Next]_Limiter!vars
<1>. SUFFICES ASSUME ControllerInv, ControllerInv', [ControllerNext]_controllerVars
              PROVE  [Limiter!Next]_Limiter!vars
  OBVIOUS
<1>1. CASE UNCHANGED controllerVars
  BY <1>1 DEF controllerVars, Limiter!vars, Holders
<1>2. ASSUME NEW c \in Callers, WaiterTimeout(c)
      PROVE  [Limiter!Next]_Limiter!vars
  <2>1. Holders' = Holders
    BY <1>2 DEF WaiterTimeout, Holders, ControllerInv, TypeOK
  <2>2. slot'.max = slot.max
    BY <1>2 DEF WaiterTimeout, Spliced, ControllerInv, TypeOK
  <2>. QED  BY <2>1, <2>2 DEF Limiter!vars
<1>3. ASSUME NEW c \in Callers, ReleaseAgain(c)
      PROVE  [Limiter!Next]_Limiter!vars
  BY <1>1, <1>3 DEF ReleaseAgain
<1>. QED  BY <1>1, <1>2, <1>3, EnterRefines, ReleaseRefines DEF ControllerNext

\* The controller implements the abstract limiter: nobody is admitted while
\* the number of holders would exceed the limit in force.
THEOREM ControllerImplementsLimiter == ControllerSpec => ImplementsLimiter
<1>1. ControllerInit => Limiter!Init
  BY DEF ControllerInit, NoSlot, Holders, Limiter!Init
<1>. QED
  BY <1>1, NextRefines, ControllerInvariant, PTL
  DEF ControllerSpec, ImplementsLimiter, Limiter!Spec

(* ------------------------------ the requests ---------------------------- *)

Stages   == {"idle", "selecting", "done"} \cup {"queued"} \cup InAttempt \cup Streaming
Outcomes == {"none", "answered", "failed", "exhausted", "slot lost"}
AnyModel == Models \cup {Children[1]}

Failure  == [model : AnyModel, error : Errors]

RequestType ==
  [pc : Stages, tier : BOOLEAN, kind : Kinds, snap : Snapshots, model : AnyModel,
   attempt : Nat, trace : Seq(Failure), outcome : Outcomes]

\* What a request at q holds: the slot of its model, credentials and a generation.
HoldsSlot(q) == q.pc \in InAttempt \/ q.outcome = "slot lost"

Fits(q, held, leased, pinned) ==
  /\ q \in RequestType
  /\ (HoldsSlot(q) \/ q.pc = "queued") => q.model \in Models
  /\ held = IF HoldsSlot(q) THEN {q.model} ELSE {}
  /\ q.pc # "done" => q.outcome = "none"
  /\ leased \in Nat /\ pinned \in Nat
  /\ q.pc # "executing" => leased = 0
  /\ (q.kind = "embedding" \/ q.pc \notin {"executing", "streamReady", "consuming"})
       => pinned = 0

\* How far a cascade has come: its trace has the first children, one after the other.
Before(q, i) == {q.trace[j].model : j \in 1 .. i - 1}

Trail(q) ==
  /\ \A i \in 1 .. Len(q.trace) :
       /\ q.trace[i].error \in Cascading
       /\ IsFirst(q.trace[i].model, Eligible(q) \ Before(q, i))
  /\ q.tier /\ q.pc \in InAttempt \cup {"queued"} => IsFirst(q.model, Candidates(q))
  /\ q.kind # "embedding" /\ q.pc \in Waiting \cup InAttempt => Len(q.trace) < MaxChildren
  /\ q.outcome = "exhausted" =>
       Candidates(q) = {} \/ (q.kind # "embedding" /\ Len(q.trace) = MaxChildren)

Waiters(m) == {r \in Requests : request[r].pc = "queued" /\ request[r].model = m}

Counted(m) == Agrees(Requests, slots[m], Waiters(m), SlotHolders(m)) /\ NoIdle(slots[m])

(***************************************************************************)
(* The inductive invariant.  Counted alone is not: that a drain's waiters  *)
(* hold nothing, and that who returns a slot has it, is what Fits says.    *)
(***************************************************************************)
IInv ==
  /\ request \in [Requests -> RequestType]
  /\ slots \in [Models -> SlotType(Requests)]
  /\ holds \in [Requests -> SUBSET Models]
  /\ leases \in [Requests -> Nat] /\ pins \in [Requests -> Nat]
  /\ \A r \in Requests : Fits(request[r], holds[r], leases[r], pins[r]) /\ Trail(request[r])
  /\ \A m \in Models : Counted(m)

-----------------------------------------------------------------------------
\* The fields of a request.
LEMMA Fields ==
  ASSUME NEW q \in RequestType
  PROVE  /\ q.pc \in Stages /\ q.tier \in BOOLEAN /\ q.kind \in Kinds /\ q.snap \in Snapshots
         /\ q.model \in AnyModel /\ q.attempt \in Nat /\ q.outcome \in Outcomes
         /\ q.trace \in Seq(Failure) /\ Len(q.trace) \in Nat
<1>1. q.trace \in Seq(Failure)
  BY DEF RequestType
<1>. QED  BY <1>1 DEF RequestType

\* An error is fatal, or it lets a cascade go on.
LEMMA ErrorKinds == Errors = {"fatal", "transient", "refused"}
<1>. DEFINE E(f) == CASE f = "unknown model" -> "fatal"
                      [] f \in {"credentials", "content policy"} -> "refused"
                      [] f \in {"rate limit", "other"} -> "transient"
<1>1. /\ E("unknown model") = "fatal" /\ E("credentials") = "refused"
      /\ E("content policy") = "refused"
      /\ E("rate limit") = "transient" /\ E("other") = "transient"
  OBVIOUS
<1>2. \A f \in Failures : ErrorOf[f] = E(f)
  BY DEF ErrorOf
<1>. HIDE DEF E
<1>. QED  BY <1>1, <1>2 DEF Errors, Failures

\* A finished request has no trace but that of an exhausted tier.
LEMMA FinishedFields ==
  ASSUME NEW q \in RequestType, NEW outcome \in Outcomes
  PROVE  LET p == Finished(q, outcome)
         IN  /\ p \in RequestType /\ p.pc = "done" /\ ~p.tier /\ p.snap = q.snap
             /\ p.outcome = outcome
             /\ outcome = "exhausted" => p.trace = q.trace /\ p.kind = q.kind
             /\ outcome # "exhausted" => p.trace = <<>>
<1>. DEFINE p == Finished(q, outcome)
            b == NoRequest(q.snap)
            k == IF outcome = "exhausted" THEN q.kind ELSE b.kind
            t == IF outcome = "exhausted" THEN q.trace ELSE <<>>
<1>1. /\ b \in RequestType /\ b.snap = q.snap /\ b.tier = FALSE /\ b.kind = "buffered"
  <2>1. <<>> \in Seq(Failure) /\ q.snap \in Snapshots /\ Children[1] \in AnyModel
    BY Fields DEF AnyModel
  <2>. QED  BY <2>1 DEF NoRequest, RequestType, Stages, Kinds, Outcomes
<1>2. t \in Seq(Failure) /\ k \in Kinds
  BY <1>1, Fields DEF Kinds
<1>3. p = [b EXCEPT !.pc = "done", !.outcome = outcome, !.trace = t, !.kind = k]
  BY DEF Finished
<1>. HIDE DEF k, t, p, b
<1>4. /\ p \in RequestType /\ p.pc = "done" /\ p.outcome = outcome /\ p.trace = t
      /\ p.kind = k /\ p.tier = FALSE /\ p.snap = q.snap
  BY <1>1, <1>2, <1>3 DEF RequestType, Stages
<1>. QED  BY <1>4 DEF p, k, t

\* A finished request holds nothing.
LEMMA FinishedFits ==
  ASSUME NEW q \in RequestType, NEW outcome \in {"answered", "failed", "exhausted"}
  PROVE  Fits(Finished(q, outcome), {}, 0, 0)
<1>. DEFINE p == Finished(q, outcome)
<1>1. p \in RequestType /\ p.pc = "done" /\ p.outcome \notin {"none", "slot lost"}
  <2>1. outcome \in Outcomes
    BY DEF Outcomes
  <2>2. p \in RequestType /\ p.pc = "done" /\ p.outcome = outcome
    BY <2>1, FinishedFields
  <2>. QED  BY <2>2
<1>. HIDE DEF p
<1>2. Fits(p, {}, 0, 0)
  BY <1>1 DEF Fits, HoldsSlot, InAttempt
<1>. QED  BY <1>2 DEF p

\* A request without a trace that is in no attempt has nothing to account for.
LEMMA EmptyTrail ==
  ASSUME NEW q, q.trace = <<>>, q.outcome # "exhausted",
         q.pc \notin InAttempt \cup {"queued"}
  PROVE  Trail(q)
<1>1. Len(q.trace) = 0
  OBVIOUS
<1>2. MaxChildren > 0
  BY ExecutionAssumption
<1>. QED  BY <1>1, <1>2 DEF Trail

\* The child that failed is the next of the trace.
LEMMA AppendedTrail ==
  ASSUME NEW q \in RequestType, Trail(q), q.tier, q.pc \in InAttempt \cup {"queued"},
         NEW error \in Cascading, NEW p, p.kind = q.kind, p.snap = q.snap,
         p.trace = Append(q.trace, [model |-> q.model, error |-> error])
  PROVE  /\ \A i \in 1 .. Len(p.trace) :
              /\ p.trace[i].error \in Cascading
              /\ IsFirst(p.trace[i].model, Eligible(p) \ Before(p, i))
         /\ Len(p.trace) = Len(q.trace) + 1
<1>. DEFINE n == Len(q.trace)
            e == [model |-> q.model, error |-> error]
<1>1. /\ q.trace \in Seq(Failure) /\ n \in Nat
      /\ e \in Failure
  <2>1. error \in Errors
    BY ErrorKinds DEF Cascading
  <2>. QED  BY <2>1, Fields DEF Failure
<1>2. /\ Len(p.trace) = n + 1 /\ p.trace[n + 1] = e
      /\ \A i \in 1 .. n : p.trace[i] = q.trace[i]
  <2>. HIDE DEF e, n
  <2>1. p.trace = Append(q.trace, e)
    BY DEF e
  <2>. QED  BY <1>1, <2>1, AppendProperties DEF n
<1>3. Eligible(p) = Eligible(q)
  BY DEF Eligible
<1>4. \A i \in 1 .. n + 1 : Before(p, i) = Before(q, i)
  BY <1>1, <1>2 DEF Before
<1>5. Before(q, n + 1) = Failed(q)
  BY <1>1 DEF Before, Failed
<1>6. ASSUME NEW i \in 1 .. n
      PROVE  /\ p.trace[i].error \in Cascading
             /\ IsFirst(p.trace[i].model, Eligible(p) \ Before(p, i))
  <2>1. i \in 1 .. n + 1
    BY <1>1
  <2>. QED  BY <1>2, <1>3, <1>4, <2>1 DEF Trail
<1>7. /\ p.trace[n + 1].error \in Cascading
      /\ IsFirst(p.trace[n + 1].model, Eligible(p) \ Before(p, n + 1))
  <2>1. IsFirst(q.model, Candidates(q))
    BY DEF Trail
  <2>2. n + 1 \in 1 .. n + 1
    BY <1>1
  <2>3. p.trace[n + 1].model = q.model /\ p.trace[n + 1].error = error
    BY <1>2
  <2>4. Eligible(p) \ Before(p, n + 1) = Candidates(q)
    BY <1>3, <1>4, <1>5, <2>2 DEF Candidates
  <2>. QED  BY <2>1, <2>3, <2>4
<1>8. \A i \in 1 .. n + 1 : i \in 1 .. n \/ i = n + 1
  BY <1>1
<1>. QED  BY <1>2, <1>6, <1>7, <1>8

\* What a failed model leaves of a request: nothing held, and a trail that is true.
LEMMA AfterFailureFits ==
  ASSUME NEW q \in RequestType, Trail(q), q.pc \in InAttempt \cup {"queued"},
         q.outcome = "none", NEW error \in Errors
  PROVE  LET p == AfterFailure(q, error)
         IN  p.pc \in {"selecting", "done"} /\ Fits(p, {}, 0, 0) /\ Trail(p)
<1>. DEFINE p == AfterFailure(q, error)
            e == [model |-> q.model, error |-> error]
            failed == [q EXCEPT !.trace = Append(@, e)]
<1>1. /\ failed \in RequestType /\ failed.trace = Append(q.trace, e)
      /\ failed.kind = q.kind /\ failed.snap = q.snap /\ failed.tier = q.tier
      /\ failed.outcome = "none" /\ failed.model = q.model
  <2>1. e \in Failure
    BY Fields DEF Failure
  <2>2. q.trace \in Seq(Failure)
    BY DEF RequestType
  <2>3. Append(q.trace, e) \in Seq(Failure)
    BY <2>1, <2>2, AppendProperties
  <2>. HIDE DEF e
  <2>. QED  BY <2>3 DEF RequestType
<1>2. CASE q.tier /\ error \in Cascading /\ (q.kind = "embedding" \/ Len(failed.trace) < MaxChildren)
  <2>1. p = [failed EXCEPT !.pc = "selecting"]
    BY <1>2 DEF AfterFailure
  <2>. HIDE DEF failed, e, p
  <2>2. /\ p \in RequestType /\ p.pc = "selecting" /\ p.trace = failed.trace
        /\ p.kind = q.kind /\ p.snap = q.snap /\ p.outcome = "none"
    BY <1>1, <2>1 DEF RequestType, Stages
  <2>3. p.trace = Append(q.trace, [model |-> q.model, error |-> error])
    BY <1>1, <2>2 DEF e
  <2>4. \A i \in 1 .. Len(p.trace) :
          /\ p.trace[i].error \in Cascading
          /\ IsFirst(p.trace[i].model, Eligible(p) \ Before(p, i))
    BY <1>2, <2>2, <2>3, AppendedTrail
  <2>5. Trail(p)
    BY <1>2, <2>2, <2>4 DEF Trail, InAttempt
  <2>6. Fits(p, {}, 0, 0)
    BY <2>2 DEF Fits, HoldsSlot, InAttempt
  <2>. QED  BY <2>2, <2>5, <2>6 DEF p
<1>3. CASE q.tier /\ error \in Cascading /\ ~(q.kind = "embedding" \/ Len(failed.trace) < MaxChildren)
  <2>1. p = Finished(failed, "exhausted")
    BY <1>3 DEF AfterFailure
  <2>. HIDE DEF failed, e, p
  <2>2. /\ Fits(p, {}, 0, 0) /\ p.pc = "done" /\ ~p.tier /\ p.snap = q.snap
        /\ p.trace = failed.trace /\ p.kind = q.kind /\ p.outcome = "exhausted"
    BY <1>1, <2>1, FinishedFields, FinishedFits DEF Outcomes
  <2>3. p.trace = Append(q.trace, [model |-> q.model, error |-> error])
    BY <1>1, <2>2 DEF e
  <2>4. /\ \A i \in 1 .. Len(p.trace) :
             /\ p.trace[i].error \in Cascading
             /\ IsFirst(p.trace[i].model, Eligible(p) \ Before(p, i))
        /\ Len(p.trace) = Len(q.trace) + 1
    BY <1>3, <2>2, <2>3, AppendedTrail
  <2>5. Len(p.trace) = MaxChildren
    <3>1. Len(q.trace) < MaxChildren /\ Len(q.trace) \in Nat /\ MaxChildren \in Nat
      BY <1>3, Fields, ExecutionAssumption DEF Trail, Waiting
    <3>. QED  BY <1>3, <2>2, <2>4, <3>1
  <2>6. Trail(p)
    BY <1>3, <2>2, <2>4, <2>5 DEF Trail, InAttempt, Waiting
  <2>. QED  BY <2>2, <2>6 DEF p
<1>4. CASE ~(q.tier /\ error \in Cascading)
  <2>1. p = Finished(failed, "failed")
    BY <1>4 DEF AfterFailure
  <2>. HIDE DEF failed, e, p
  <2>2. Fits(p, {}, 0, 0) /\ p.pc = "done" /\ p.trace = <<>> /\ p.outcome = "failed"
    BY <1>1, <2>1, FinishedFields, FinishedFits DEF Outcomes
  <2>3. Trail(p)
    BY <2>2, EmptyTrail DEF InAttempt
  <2>. QED  BY <2>2, <2>3 DEF p
<1>. QED  BY <1>2, <1>3, <1>4
-----------------------------------------------------------------------------
\* What the invariant says of one request and of one model.
LEMMA OfRequest ==
  ASSUME IInv, NEW r \in Requests
  PROVE  /\ request[r] \in RequestType
         /\ holds[r] \in SUBSET Models /\ leases[r] \in Nat /\ pins[r] \in Nat
         /\ Fits(request[r], holds[r], leases[r], pins[r])
         /\ Trail(request[r])
BY DEF IInv

\* A request that waits has no slot; one that is in an attempt has its model's.
LEMMA Held ==
  ASSUME IInv, NEW r \in Requests
  PROVE  /\ request[r].pc \in {"idle", "selecting", "queued"} \cup Streaming =>
              request[r].outcome = "none" /\ holds[r] = {}
         /\ request[r].pc \in InAttempt =>
              /\ request[r].outcome = "none" /\ request[r].model \in Models
              /\ holds[r] = {request[r].model}
         /\ request[r].pc = "queued" => request[r].model \in Models
BY OfRequest DEF Fits, HoldsSlot, InAttempt, Streaming

\* A waiter that a drain of its model resolves holds the slot and goes on.
LEMMA ServedFits ==
  ASSUME IInv, NEW m \in Models, NEW x \in Waiters(m)
  PROVE  LET p == [request[x] EXCEPT !.pc = "starting"]
         IN  /\ Fits(p, holds[x] \cup {m}, leases[x], pins[x]) /\ Trail(p)
             /\ p.pc = "starting" /\ p.model = m
<1>. DEFINE q == request[x]
            p == [q EXCEPT !.pc = "starting"]
<1>1. /\ x \in Requests /\ q.pc = "queued" /\ q.model = m
      /\ q \in RequestType /\ Fits(q, holds[x], leases[x], pins[x]) /\ Trail(q)
      /\ q.outcome = "none" /\ holds[x] = {}
  <2>1. x \in Requests /\ q.pc = "queued" /\ q.model = m
    BY DEF Waiters
  <2>. QED  BY <2>1, OfRequest, Held
<1>. HIDE DEF q
<1>2. /\ p \in RequestType /\ p.pc = "starting" /\ p.model = q.model /\ p.tier = q.tier
      /\ p.kind = q.kind /\ p.snap = q.snap /\ p.trace = q.trace /\ p.outcome = q.outcome
  BY <1>1 DEF RequestType, Stages, InAttempt
<1>. HIDE DEF p
<1>3. Fits(p, {m}, leases[x], pins[x])
  BY <1>1, <1>2 DEF Fits, HoldsSlot, InAttempt
<1>4. Trail(p)
  <2>1. Candidates(p) = Candidates(q) /\ Eligible(p) = Eligible(q)
    BY <1>2 DEF Candidates, Eligible, Failed
  <2>2. \A i \in 1 .. Len(q.trace) : Before(p, i) = Before(q, i)
    BY <1>2 DEF Before
  <2>. QED  BY <1>1, <1>2, <2>1, <2>2 DEF Trail, InAttempt, Waiting
<1>. QED  BY <1>1, <1>2, <1>3, <1>4 DEF p, q

-----------------------------------------------------------------------------
\* A step of one request that no controller sees.
LEMMA LocalStep ==
  ASSUME IInv, NEW r \in Requests, NEW q,
         request' = [request EXCEPT ![r] = q],
         UNCHANGED <<slots, holds>>,
         leases' \in [Requests -> Nat], pins' \in [Requests -> Nat],
         \A x \in Requests \ {r} : leases'[x] = leases[x] /\ pins'[x] = pins[x],
         request[r].pc # "queued", q.pc # "queued",
         Fits(q, holds[r], leases'[r], pins'[r]), Trail(q)
  PROVE  IInv'
<1>1. q \in RequestType
  BY DEF Fits
<1>2. /\ request' \in [Requests -> RequestType]
      /\ request'[r] = q /\ \A x \in Requests \ {r} : request'[x] = request[x]
  BY <1>1 DEF IInv
<1>3. \A x \in Requests : /\ Fits(request'[x], holds'[x], leases'[x], pins'[x])
                          /\ Trail(request'[x])
  <2>1. SUFFICES ASSUME NEW x \in Requests
                 PROVE  Fits(request'[x], holds[x], leases'[x], pins'[x]) /\ Trail(request'[x])
    OBVIOUS
  <2>2. CASE x = r
    BY <1>2, <2>2
  <2>3. CASE x # r
    BY <1>2, <2>3, OfRequest
  <2>. QED  BY <2>2, <2>3
<1>4. ASSUME NEW m \in Models
      PROVE  Counted(m)'
  <2>1. Waiters(m)' = Waiters(m)
    BY <1>2 DEF Waiters
  <2>2. SlotHolders(m)' = SlotHolders(m)
    BY DEF SlotHolders
  <2>3. Counted(m)
    BY DEF IInv
  <2>. QED  BY <2>1, <2>2, <2>3 DEF Counted
<1>. QED  BY <1>2, <1>3, <1>4 DEF IInv

\* A step of one request through the controller of model m: the waiters in
\* served get their slots, r goes to q.
LEMMA SlotStep ==
  ASSUME IInv, NEW r \in Requests, NEW m \in Models, NEW q, NEW st, NEW served,
         served \subseteq Waiters(m) \ {r},
         request[r].pc = "queued" => request[r].model = m,
         q.pc = "queued" => q.model = m,
         slots' = [slots EXCEPT ![m] = st],
         Resolve(r, q, served),
         holds' \in [Requests -> SUBSET Models],
         \A x \in Requests \ {r} :
           holds'[x] = IF x \in served THEN holds[x] \cup {m} ELSE holds[x],
         \A n \in Models \ {m} : n \in holds'[r] <=> n \in holds[r],
         leases' \in [Requests -> Nat], pins' \in [Requests -> Nat],
         \A x \in Requests \ {r} : leases'[x] = leases[x] /\ pins'[x] = pins[x],
         Fits(q, holds'[r], leases'[r], pins'[r]), Trail(q),
         NoIdle(st),
         Agrees(Requests, st,
                (Waiters(m) \ (served \cup {r})) \cup (IF q.pc = "queued" THEN {r} ELSE {}),
                (SlotHolders(m) \ {r}) \cup served \cup (IF m \in holds'[r] THEN {r} ELSE {}))
  PROVE  IInv'
<1>. DEFINE p(x) == [request[x] EXCEPT !.pc = "starting"]
<1>1. q \in RequestType
  BY DEF Fits
<1>2. served \subseteq Requests
  BY DEF Waiters
<1>3. /\ request' = [x \in Requests |-> IF x = r THEN q ELSE IF x \in served THEN p(x) ELSE request[x]]
      /\ request'[r] = q
      /\ \A x \in Requests \ {r} : request'[x] = IF x \in served THEN p(x) ELSE request[x]
  BY DEF Resolve
<1>4. \A x \in served :
        /\ Fits(p(x), holds[x] \cup {m}, leases[x], pins[x]) /\ Trail(p(x))
        /\ p(x).pc = "starting" /\ p(x).model = m
  BY ServedFits
<1>. HIDE DEF p
<1>5. \A x \in Requests : /\ Fits(request'[x], holds'[x], leases'[x], pins'[x])
                          /\ Trail(request'[x])
  <2>1. SUFFICES ASSUME NEW x \in Requests
                 PROVE  Fits(request'[x], holds'[x], leases'[x], pins'[x]) /\ Trail(request'[x])
    OBVIOUS
  <2>2. CASE x = r
    BY <1>3, <2>2
  <2>3. CASE x # r /\ x \in served
    BY <1>3, <1>4, <2>3
  <2>4. CASE x # r /\ x \notin served
    BY <1>3, <2>4, OfRequest
  <2>. QED  BY <2>2, <2>3, <2>4
<1>6. request' \in [Requests -> RequestType]
  <2>1. \A x \in Requests : request'[x] \in RequestType
    BY <1>5 DEF Fits
  <2>. QED  BY <1>3, <2>1
<1>7. Counted(m)'
  <2>1. slots'[m] = st
    BY DEF IInv
  <2>2. Waiters(m)' = (Waiters(m) \ (served \cup {r})) \cup (IF q.pc = "queued" THEN {r} ELSE {})
    BY <1>3, <1>4 DEF Waiters
  <2>3. SlotHolders(m)' = (SlotHolders(m) \ {r}) \cup served \cup (IF m \in holds'[r] THEN {r} ELSE {})
    BY <1>2 DEF SlotHolders
  <2>. QED  BY <2>1, <2>2, <2>3 DEF Counted
<1>8. ASSUME NEW n \in Models \ {m}
      PROVE  Counted(n)'
  <2>1. slots'[n] = slots[n]
    BY DEF IInv
  <2>2. Waiters(n)' = Waiters(n)
    <3>1. \A x \in Requests \ {r} :
            (request'[x].pc = "queued" /\ request'[x].model = n)
              <=> (request[x].pc = "queued" /\ request[x].model = n)
      <4>1. \A x \in served : request[x].model = m /\ x # r
        BY DEF Waiters
      <4>2. \A x \in served : request'[x].pc = "starting"
        BY <1>2, <1>3, <1>4, <4>1
      <4>3. \A x \in Requests \ {r} : x \notin served => request'[x] = request[x]
        BY <1>3
      <4>. QED  BY <4>1, <4>2, <4>3
    <3>. QED  BY <1>3, <3>1 DEF Waiters
  <2>3. SlotHolders(n)' = SlotHolders(n)
    BY DEF SlotHolders
  <2>4. Counted(n)
    BY DEF IInv
  <2>. QED  BY <2>1, <2>2, <2>3, <2>4 DEF Counted
<1>9. slots' \in [Models -> SlotType(Requests)]
  BY DEF IInv, Agrees
<1>. QED  BY <1>5, <1>6, <1>7, <1>8, <1>9 DEF IInv
-----------------------------------------------------------------------------
\* Trails look at the kind, the snapshot and the trace of a request only.
LEMMA SameTrail ==
  ASSUME NEW q, NEW p, p.kind = q.kind, p.snap = q.snap, p.trace = q.trace
  PROVE  /\ Eligible(p) = Eligible(q) /\ Candidates(p) = Candidates(q)
         /\ \A i : Before(p, i) = Before(q, i)
BY DEF Eligible, Candidates, Failed, Before

\* A request that stays with its model, or leaves it with a stream, keeps its trail.
LEMMA KeptTrail ==
  ASSUME NEW q, NEW p, Trail(q),
         p.kind = q.kind, p.snap = q.snap, p.trace = q.trace,
         p.outcome # "exhausted",
         p.pc \in InAttempt =>
           /\ q.pc \in InAttempt \cup {"queued"}
           /\ p.tier = q.tier /\ p.model = q.model,
         p.pc \notin Waiting
  PROVE  Trail(p)
<1>1. /\ Eligible(p) = Eligible(q) /\ Candidates(p) = Candidates(q)
      /\ \A i : Before(p, i) = Before(q, i)
  BY SameTrail
<1>2. p.pc \in InAttempt \cup {"queued"} \/ p.pc \in Waiting \cup InAttempt => p.pc \in InAttempt
  BY DEF Waiting
<1>3. q.pc \in InAttempt \cup {"queued"} => q.pc \in Waiting \cup InAttempt
  BY DEF Waiting
<1>. QED  BY <1>1, <1>2, <1>3 DEF Trail

\* A request at another stage is a request, and otherwise the same.
LEMMA MovedStage ==
  ASSUME NEW q \in RequestType, NEW pc \in Stages
  PROVE  LET p == [q EXCEPT !.pc = pc]
         IN  /\ p \in RequestType /\ p.pc = pc /\ p.tier = q.tier /\ p.kind = q.kind
             /\ p.snap = q.snap /\ p.model = q.model /\ p.trace = q.trace
             /\ p.outcome = q.outcome
BY DEF RequestType

-----------------------------------------------------------------------------
\* A request that may arrive holds nothing, and brings nothing.
LEMMA ArriveStep ==
  ASSUME IInv, NEW r \in Requests, Arrive(r)
  PROVE  IInv'
<1>1. PICK s \in Snapshots, tier \in BOOLEAN, kind \in Kinds, m \in Models :
        /\ tier => m = Children[1]
        /\ request' = [request EXCEPT ![r] = [NoRequest(s) EXCEPT
                        !.pc = "selecting", !.tier = tier, !.kind = kind, !.model = m]]
  BY Zenon DEF Arrive
<1>. DEFINE b == NoRequest(s)
            q == [b EXCEPT !.pc = "selecting", !.tier = tier, !.kind = kind, !.model = m]
<1>2. b \in RequestType /\ b.trace = <<>> /\ b.outcome = "none"
  <2>1. <<>> \in Seq(Failure) /\ Children[1] \in AnyModel
    BY DEF AnyModel
  <2>. QED  BY <2>1 DEF NoRequest, RequestType, Stages, Kinds, Outcomes
<1>. HIDE DEF b
<1>3. /\ q \in RequestType /\ q.pc = "selecting" /\ q.trace = <<>> /\ q.outcome = "none"
  BY <1>2 DEF RequestType, Stages, AnyModel
<1>4. request' = [request EXCEPT ![r] = q]
  BY <1>1 DEF b
<1>. HIDE DEF q
<1>5. /\ request[r].pc \in {"idle", "done"} /\ request[r].outcome # "slot lost"
      /\ UNCHANGED <<slots, holds, leases, pins>>
  BY DEF Arrive
<1>6. holds[r] = {} /\ leases[r] = 0 /\ pins[r] = 0
  BY <1>5, OfRequest DEF Fits, HoldsSlot, InAttempt
<1>7. Fits(q, holds[r], leases'[r], pins'[r]) /\ Trail(q)
  <2>1. Trail(q)
    BY <1>3, EmptyTrail DEF InAttempt
  <2>2. Fits(q, {}, 0, 0)
    BY <1>3 DEF Fits, HoldsSlot, InAttempt
  <2>. QED  BY <1>5, <1>6, <2>1, <2>2
<1>. QED  BY <1>3, <1>4, <1>5, <1>7, LocalStep DEF IInv

\* A cascade without candidates is exhausted.
LEMMA NoCandidateStep ==
  ASSUME IInv, NEW r \in Requests, NoCandidate(r)
  PROVE  IInv'
<1>. DEFINE q == Finished(request[r], "exhausted")
<1>1. /\ request[r].pc = "selecting" /\ Candidates(request[r]) = {}
      /\ request' = [request EXCEPT ![r] = q]
      /\ UNCHANGED <<slots, holds, leases, pins>>
  BY DEF NoCandidate
<1>2. holds[r] = {} /\ leases[r] = 0 /\ pins[r] = 0
  BY <1>1, OfRequest, Held DEF Fits
<1>3. /\ q \in RequestType /\ q.pc = "done" /\ ~q.tier /\ q.snap = request[r].snap
      /\ q.outcome = "exhausted" /\ q.trace = request[r].trace /\ q.kind = request[r].kind
  <2>1. "exhausted" \in Outcomes
    BY DEF Outcomes
  <2>. QED  BY <2>1, OfRequest, FinishedFields
<1>4. Fits(q, holds[r], leases'[r], pins'[r])
  BY <1>1, <1>2, OfRequest, FinishedFits
<1>. HIDE DEF q
<1>5. Trail(q)
  <2>1. /\ Eligible(q) = Eligible(request[r]) /\ Candidates(q) = Candidates(request[r])
        /\ \A i : Before(q, i) = Before(request[r], i)
    BY <1>3, SameTrail
  <2>. QED  BY <1>1, <1>3, <2>1, OfRequest DEF Trail, Waiting, InAttempt
<1>. QED  BY <1>1, <1>3, <1>4, <1>5, LocalStep DEF IInv
\* An attempt takes what only an attempt may hold.
LEMMA BeginAttemptStep ==
  ASSUME IInv, NEW r \in Requests, BeginAttempt(r)
  PROVE  IInv'
<1>. DEFINE q == [request[r] EXCEPT !.pc = "executing"]
<1>1. /\ request[r].pc = "starting" /\ request[r].kind # "embedding"
      /\ request' = [request EXCEPT ![r] = q] /\ UNCHANGED <<slots, holds>>
  BY DEF BeginAttempt
<1>2. PICK lease \in 0 .. 1 : leases' = [leases EXCEPT ![r] = @ + lease]
  BY DEF BeginAttempt
<1>3. /\ leases' \in [Requests -> Nat] /\ pins' \in [Requests -> Nat]
      /\ \A x \in Requests \ {r} : leases'[x] = leases[x] /\ pins'[x] = pins[x]
  BY <1>2, OfRequest DEF IInv, BeginAttempt
<1>4. /\ request[r] \in RequestType /\ Trail(request[r]) /\ request[r].outcome = "none"
      /\ request[r].model \in Models /\ holds[r] = {request[r].model}
  BY <1>1, OfRequest, Held DEF InAttempt
<1>5. /\ q \in RequestType /\ q.pc = "executing" /\ q.tier = request[r].tier
      /\ q.kind = request[r].kind /\ q.snap = request[r].snap /\ q.model = request[r].model
      /\ q.trace = request[r].trace /\ q.outcome = "none"
  <2>1. "executing" \in Stages
    BY DEF Stages, InAttempt
  <2>. QED  BY <1>4, <2>1, MovedStage
<1>. HIDE DEF q
<1>6. Trail(q)
  BY <1>1, <1>4, <1>5, KeptTrail DEF InAttempt, Waiting
<1>7. Fits(q, holds[r], leases'[r], pins'[r])
  BY <1>1, <1>3, <1>4, <1>5 DEF Fits, HoldsSlot, InAttempt
<1>. QED  BY <1>1, <1>3, <1>5, <1>6, <1>7, LocalStep

\* A backoff that ends keeps the slot, and has nothing else.
LEMMA BackoffEndsStep ==
  ASSUME IInv, NEW r \in Requests, BackoffEnds(r)
  PROVE  IInv'
<1>. DEFINE n == request[r].attempt + 1
            q == [request[r] EXCEPT !.pc = "starting", !.attempt = n]
<1>1. /\ request[r].pc = "backoff" /\ request[r] \in RequestType
      /\ UNCHANGED <<slots, holds, leases, pins>>
  BY OfRequest DEF BackoffEnds
<1>2. request' = [request EXCEPT ![r] = q]
  BY DEF BackoffEnds, IInv
<1>4. /\ Trail(request[r]) /\ request[r].outcome = "none"
      /\ request[r].model \in Models /\ holds[r] = {request[r].model}
      /\ leases[r] = 0 /\ pins[r] = 0
  BY <1>1, OfRequest, Held DEF InAttempt, Fits
<1>5. /\ q \in RequestType /\ q.pc = "starting" /\ q.tier = request[r].tier
      /\ q.kind = request[r].kind /\ q.snap = request[r].snap /\ q.model = request[r].model
      /\ q.trace = request[r].trace /\ q.outcome = "none"
  <2>1. "starting" \in Stages
    BY DEF Stages, InAttempt
  <2>2. request[r].attempt \in Nat
    BY <1>1, Fields
  <2>3. n \in Nat
    BY <2>2
  <2>. HIDE DEF n
  <2>. QED  BY <1>1, <1>4, <2>1, <2>3 DEF RequestType
<1>. HIDE DEF q
<1>6. Trail(q)
  BY <1>1, <1>4, <1>5, KeptTrail DEF InAttempt, Waiting
<1>7. Fits(q, {request[r].model}, 0, 0)
  BY <1>4, <1>5 DEF Fits, HoldsSlot, InAttempt
<1>8. /\ Fits(q, holds[r], leases'[r], pins'[r])
      /\ leases' \in [Requests -> Nat] /\ pins' \in [Requests -> Nat]
      /\ \A x \in Requests \ {r} : leases'[x] = leases[x] /\ pins'[x] = pins[x]
  BY <1>1, <1>4, <1>7 DEF IInv
<1>. QED  BY <1>1, <1>2, <1>5, <1>6, <1>8, LocalStep

\* A stream that is read keeps the generation it had.
LEMMA ConsumeStreamStep ==
  ASSUME IInv, NEW r \in Requests, ConsumeStream(r)
  PROVE  IInv'
<1>. DEFINE q == [request[r] EXCEPT !.pc = "consuming"]
<1>1. /\ request[r].pc = "streamReady" /\ request' = [request EXCEPT ![r] = q]
      /\ UNCHANGED <<slots, holds, leases, pins>>
  BY DEF ConsumeStream
<1>2. /\ request[r] \in RequestType /\ Trail(request[r]) /\ request[r].outcome = "none"
      /\ holds[r] = {} /\ leases[r] = 0 /\ pins[r] \in Nat
      /\ request[r].kind = "embedding" => pins[r] = 0
  BY <1>1, OfRequest, Held DEF Streaming, Fits
<1>3. /\ q \in RequestType /\ q.pc = "consuming" /\ q.tier = request[r].tier
      /\ q.kind = request[r].kind /\ q.snap = request[r].snap /\ q.model = request[r].model
      /\ q.trace = request[r].trace /\ q.outcome = "none"
  <2>1. "consuming" \in Stages
    BY DEF Stages, Streaming
  <2>. QED  BY <1>2, <2>1, MovedStage
<1>. HIDE DEF q
<1>4. Trail(q)
  BY <1>2, <1>3, KeptTrail DEF InAttempt, Waiting
<1>5. Fits(q, {}, 0, pins[r])
  BY <1>2, <1>3 DEF Fits, HoldsSlot, InAttempt
<1>6. /\ Fits(q, holds[r], leases'[r], pins'[r])
      /\ leases' \in [Requests -> Nat] /\ pins' \in [Requests -> Nat]
      /\ \A x \in Requests \ {r} : leases'[x] = leases[x] /\ pins'[x] = pins[x]
  BY <1>1, <1>2, <1>5 DEF IInv
<1>. QED  BY <1>1, <1>3, <1>4, <1>6, LocalStep

\* An answered or failed request that holds no slot gives back the rest.
LEMMA FinishStep ==
  ASSUME IInv, NEW r \in Requests, NEW outcome \in {"answered", "failed"},
         request[r].pc \in {"selecting"} \cup Streaming,
         request' = [request EXCEPT ![r] = Finished(request[r], outcome)],
         UNCHANGED <<slots, holds, leases>>, pins' = [pins EXCEPT ![r] = 0]
  PROVE  IInv'
<1>. DEFINE q == Finished(request[r], outcome)
<1>1. /\ q \in RequestType /\ q.pc = "done" /\ q.outcome # "exhausted" /\ q.trace = <<>>
  <2>1. outcome \in Outcomes
    BY DEF Outcomes
  <2>. QED  BY <2>1, OfRequest, FinishedFields
<1>2. Fits(q, {}, 0, 0)
  BY OfRequest, FinishedFits
<1>3. request' = [request EXCEPT ![r] = q]
  OBVIOUS
<1>. HIDE DEF q
<1>4. holds[r] = {} /\ leases[r] = 0 /\ request[r].pc # "queued"
  BY OfRequest, Held DEF Fits, Streaming
<1>5. Trail(q)
  BY <1>1, EmptyTrail DEF InAttempt
<1>6. /\ Fits(q, holds[r], leases'[r], pins'[r])
      /\ leases' \in [Requests -> Nat] /\ pins' \in [Requests -> Nat]
      /\ \A x \in Requests \ {r} : leases'[x] = leases[x] /\ pins'[x] = pins[x]
  BY <1>2, <1>4 DEF IInv
<1>. QED  BY <1>1, <1>3, <1>4, <1>5, <1>6, LocalStep

\* The end of a stream releases its generation.
LEMMA StreamEndsStep ==
  ASSUME IInv, NEW r \in Requests, StreamEnds(r)
  PROVE  IInv'
<1>1. PICK outcome \in {"answered", "failed"} :
        request' = [request EXCEPT ![r] = Finished(@, outcome)]
  BY DEF StreamEnds
<1>2. request' = [request EXCEPT ![r] = Finished(request[r], outcome)]
  BY <1>1
<1>. QED  BY <1>2, FinishStep DEF StreamEnds, Streaming

\* An embedding that is refused never held anything.
LEMMA EmbeddingRefusedStep ==
  ASSUME IInv, NEW r \in Requests, EmbeddingRefused(r)
  PROVE  IInv'
<1>1. /\ request[r].pc = "selecting" /\ UNCHANGED <<slots, holds, leases, pins>>
      /\ request' = [request EXCEPT ![r] = Finished(request[r], "failed")]
  BY DEF EmbeddingRefused, Embedding
<1>2. pins' = [pins EXCEPT ![r] = 0]
  <2>1. pins[r] = 0
    BY <1>1, OfRequest DEF Fits
  <2>. QED  BY <1>1, <2>1 DEF IInv
<1>. QED  BY <1>1, <1>2, FinishStep

\* An embedding's attempt takes credentials and no generation.
LEMMA EmbeddingBeginsStep ==
  ASSUME IInv, NEW r \in Requests, EmbeddingBegins(r)
  PROVE  IInv'
<1>. DEFINE q == [request[r] EXCEPT !.pc = "executing"]
<1>1. /\ request[r].pc = "starting" /\ request[r].kind = "embedding"
      /\ request' = [request EXCEPT ![r] = q] /\ UNCHANGED <<slots, holds, pins>>
  BY DEF EmbeddingBegins, Embedding
<1>2. PICK lease \in 0 .. 1 : leases' = [leases EXCEPT ![r] = lease]
  BY DEF EmbeddingBegins
<1>3. /\ leases' \in [Requests -> Nat] /\ pins' \in [Requests -> Nat]
      /\ \A x \in Requests \ {r} : leases'[x] = leases[x] /\ pins'[x] = pins[x]
  BY <1>1, <1>2 DEF IInv
<1>4. /\ request[r] \in RequestType /\ Trail(request[r]) /\ request[r].outcome = "none"
      /\ request[r].model \in Models /\ holds[r] = {request[r].model} /\ pins'[r] = 0
  BY <1>1, OfRequest, Held DEF InAttempt, Fits
<1>5. /\ q \in RequestType /\ q.pc = "executing" /\ q.tier = request[r].tier
      /\ q.kind = request[r].kind /\ q.snap = request[r].snap /\ q.model = request[r].model
      /\ q.trace = request[r].trace /\ q.outcome = "none"
  <2>1. "executing" \in Stages
    BY DEF Stages, InAttempt
  <2>. QED  BY <1>4, <2>1, MovedStage
<1>. HIDE DEF q
<1>6. Trail(q)
  BY <1>1, <1>4, <1>5, KeptTrail DEF InAttempt, Waiting
<1>7. Fits(q, holds[r], leases'[r], pins'[r])
  BY <1>1, <1>3, <1>4, <1>5 DEF Fits, HoldsSlot, InAttempt
<1>. QED  BY <1>1, <1>3, <1>5, <1>6, <1>7, LocalStep

\* A lost slot stays with the request that lost it: it is never used again.
LEMMA EmbeddingLosesSlotStep ==
  ASSUME IInv, NEW r \in Requests, EmbeddingLosesSlot(r)
  PROVE  IInv'
<1>. DEFINE f == Finished(request[r], "slot lost")
            q == [f EXCEPT !.model = request[r].model]
<1>1. /\ request[r].pc = "starting" /\ request[r].kind = "embedding"
      /\ request' = [request EXCEPT ![r] = q] /\ UNCHANGED <<slots, holds, leases, pins>>
  BY DEF EmbeddingLosesSlot, Embedding
<1>2. /\ request[r].model \in Models /\ holds[r] = {request[r].model}
      /\ leases[r] = 0 /\ pins[r] = 0
  BY <1>1, OfRequest, Held DEF InAttempt, Fits
<1>3. /\ f \in RequestType /\ f.pc = "done" /\ f.outcome = "slot lost" /\ f.trace = <<>>
  <2>1. "slot lost" \in Outcomes
    BY DEF Outcomes
  <2>. QED  BY <2>1, OfRequest, FinishedFields
<1>. HIDE DEF f
<1>4. /\ q \in RequestType /\ q.pc = "done" /\ q.outcome = "slot lost" /\ q.trace = <<>>
      /\ q.model = request[r].model
  BY <1>2, <1>3 DEF RequestType, AnyModel
<1>. HIDE DEF q
<1>5. Fits(q, {request[r].model}, 0, 0)
  BY <1>2, <1>4 DEF Fits, HoldsSlot, InAttempt
<1>6. Trail(q)
  BY <1>4, EmptyTrail DEF InAttempt
<1>7. /\ Fits(q, holds[r], leases'[r], pins'[r])
      /\ leases' \in [Requests -> Nat] /\ pins' \in [Requests -> Nat]
      /\ \A x \in Requests \ {r} : leases'[x] = leases[x] /\ pins'[x] = pins[x]
  BY <1>1, <1>2, <1>5 DEF IInv
<1>. QED  BY <1>1, <1>4, <1>6, <1>7, LocalStep
-----------------------------------------------------------------------------
\* What the invariant says of the controller of model m.
LEMMA OfModel ==
  ASSUME IInv, NEW m \in Models
  PROVE  /\ Agrees(Requests, slots[m], Waiters(m), SlotHolders(m)) /\ NoIdle(slots[m])
         /\ IsFiniteSet(Requests) /\ Waiters(m) \subseteq Requests
         /\ \A r \in Requests :
              /\ r \in Waiters(m) <=> request[r].pc = "queued" /\ request[r].model = m
              /\ r \in SlotHolders(m) <=> m \in holds[r]
BY ExecutionAssumption DEF IInv, Counted, Waiters, SlotHolders

\* A request enters: the drain of the resized record comes before its own turn.
LEMMA EnterModelStep ==
  ASSUME IInv, NEW r \in Requests, NEW m \in Models, EnterModel(r, m)
  PROVE  IInv'
<1>. DEFINE resized == Resized(slots[m], request[r].snap.limit[m])
            drained == Drained(resized)
            free    == HasFreeSlot(drained)
            served  == Granted(resized)
            st      == IF free THEN Admitted(drained) ELSE Enqueued(drained, r)
            pc      == IF free THEN "starting" ELSE "queued"
            q       == [request[r] EXCEPT !.pc = pc, !.model = m, !.attempt = 1]
            W       == Waiters(m)
            H       == SlotHolders(m)
<1>1. /\ request[r].pc = "selecting"
      /\ request[r].tier => IsFirst(m, Candidates(request[r]))
      /\ slots' = [slots EXCEPT ![m] = st]
      /\ holds' = [x \in Requests |-> IF x \in served \/ (x = r /\ free)
                                      THEN holds[x] \cup {m} ELSE holds[x]]
      /\ Resolve(r, q, served)
      /\ UNCHANGED <<leases, pins>>
  BY DEF EnterModel
<1>2. /\ request[r] \in RequestType /\ Trail(request[r]) /\ request[r].outcome = "none"
      /\ holds[r] = {} /\ leases[r] = 0 /\ pins[r] = 0
  BY <1>1, OfRequest, Held DEF Fits
<1>3. request[r].snap.limit[m] \in Nat
  <2>1. request[r].snap \in [limit : [Models -> Nat \ {0}],
                             usable : SUBSET Models, embedding : SUBSET Models]
    BY <1>2, Fields, ExecutionAssumption
  <2>. QED  BY <2>1
<1>4. Agrees(Requests, resized, W, H)
  BY <1>3, OfModel, ResizeAgrees
<1>5. /\ Agrees(Requests, drained, W \ served, H \cup served)
      /\ served \subseteq W /\ NoIdle(drained)
  <2>. HIDE DEF resized
  <2>. QED  BY <1>4, OfModel, DrainAgrees
<1>6. r \in Requests \ ((W \ served) \cup (H \cup served)) /\ r \notin served
  BY <1>1, <1>2, <1>5, OfModel
<1>. HIDE DEF resized, drained, free, served, W, H
<1>7. /\ q \in RequestType /\ q.pc = pc /\ q.tier = request[r].tier /\ q.kind = request[r].kind
      /\ q.snap = request[r].snap /\ q.trace = request[r].trace /\ q.outcome = "none"
      /\ q.model = m
  <2>1. pc \in Stages /\ m \in AnyModel
    BY DEF Stages, InAttempt, AnyModel
  <2>. HIDE DEF pc
  <2>. QED  BY <1>2, <2>1 DEF RequestType
<1>. HIDE DEF q
<1>8. Trail(q)
  <2>1. /\ Eligible(q) = Eligible(request[r]) /\ Candidates(q) = Candidates(request[r])
        /\ \A i : Before(q, i) = Before(request[r], i)
    BY <1>7, SameTrail
  <2>. QED  BY <1>1, <1>2, <1>7, <2>1 DEF Trail, Waiting
<1>9. /\ holds' \in [Requests -> SUBSET Models]
      /\ holds'[r] = IF free THEN {m} ELSE {}
      /\ \A x \in Requests \ {r} :
           holds'[x] = IF x \in served THEN holds[x] \cup {m} ELSE holds[x]
  BY <1>1, <1>2, <1>6 DEF IInv
<1>10. Fits(q, holds'[r], leases'[r], pins'[r])
  <2>1. Fits(q, IF free THEN {m} ELSE {}, 0, 0)
    BY <1>7 DEF Fits, HoldsSlot, InAttempt
  <2>. QED  BY <1>1, <1>2, <1>9, <2>1
<1>11. /\ NoIdle(st)
       /\ Agrees(Requests, st,
                 (W \ (served \cup {r})) \cup (IF q.pc = "queued" THEN {r} ELSE {}),
                 (H \ {r}) \cup served \cup (IF m \in holds'[r] THEN {r} ELSE {}))
  <2>1. /\ W \ (served \cup {r}) = W \ served
        /\ (H \ {r}) \cup served = H \cup served
    BY <1>6
  <2>2. CASE free
    <3>1. /\ Agrees(Requests, Admitted(drained), W \ served, (H \cup served) \cup {r})
          /\ NoIdle(Admitted(drained))
      BY <1>5, <1>6, <2>2, ExecutionAssumption, AdmitAgrees DEF free
    <3>2. (W \ (served \cup {r})) \cup (IF q.pc = "queued" THEN {r} ELSE {}) = W \ served
      BY <1>7, <2>1, <2>2
    <3>3. (H \ {r}) \cup served \cup (IF m \in holds'[r] THEN {r} ELSE {})
            = (H \cup served) \cup {r}
      BY <1>9, <2>1, <2>2
    <3>. QED  BY <2>2, <3>1, <3>2, <3>3
  <2>3. CASE ~free
    <3>1. /\ Agrees(Requests, Enqueued(drained, r), (W \ served) \cup {r}, H \cup served)
          /\ NoIdle(Enqueued(drained, r))
      BY <1>5, <1>6, <2>3, EnqueueAgrees DEF free
    <3>2. (W \ (served \cup {r})) \cup (IF q.pc = "queued" THEN {r} ELSE {}) = (W \ served) \cup {r}
      BY <1>7, <2>1, <2>3
    <3>3. (H \ {r}) \cup served \cup (IF m \in holds'[r] THEN {r} ELSE {}) = H \cup served
      BY <1>9, <2>1, <2>3
    <3>. QED  BY <2>3, <3>1, <3>2, <3>3
  <2>. QED  BY <2>2, <2>3
<1>. HIDE DEF st
<1>12. /\ leases' \in [Requests -> Nat] /\ pins' \in [Requests -> Nat]
       /\ \A x \in Requests \ {r} : leases'[x] = leases[x] /\ pins'[x] = pins[x]
  BY <1>1 DEF IInv
<1>13. \A n \in Models \ {m} : n \in holds'[r] <=> n \in holds[r]
  BY <1>2, <1>9
<1>14. served \subseteq Waiters(m) \ {r}
  BY <1>5, <1>6 DEF W
<1>. QED  BY <1>1, <1>7, <1>8, <1>9, <1>10, <1>11, <1>12, <1>13, <1>14, SlotStep DEF W, H

\* A request that leaves its model returns the slot, and the drain serves the next.
LEMMA ReturnSlotStep ==
  ASSUME IInv, NEW r \in Requests, NEW q, request[r].pc \in InAttempt, ReturnSlot(r, q),
         leases' = [leases EXCEPT ![r] = 0],
         pins' \in [Requests -> Nat], \A x \in Requests \ {r} : pins'[x] = pins[x],
         q.pc # "queued", Fits(q, {}, 0, pins'[r]), Trail(q)
  PROVE  IInv'
<1>. DEFINE m        == request[r].model
            returned == Returned(slots[m])
            st       == Drained(returned)
            served   == Granted(returned)
            W        == Waiters(m)
            H        == SlotHolders(m)
<1>1. /\ slots' = [slots EXCEPT ![m] = st]
      /\ holds' = [x \in Requests |-> IF x = r THEN holds[x] \ {m}
                                      ELSE IF x \in served THEN holds[x] \cup {m}
                                      ELSE holds[x]]
      /\ Resolve(r, q, served)
  BY DEF ReturnSlot
<1>2. m \in Models /\ holds[r] = {m} /\ request[r].pc # "queued"
  BY Held DEF InAttempt
<1>3. r \in H /\ r \notin W
  BY <1>2, OfModel
<1>4. Agrees(Requests, returned, W, H \ {r})
  BY <1>2, <1>3, OfModel, ReturnAgrees
<1>5. /\ Agrees(Requests, st, W \ served, (H \ {r}) \cup served)
      /\ served \subseteq W /\ NoIdle(st)
  <2>. HIDE DEF returned, W, H, m
  <2>. QED  BY <1>4, ExecutionAssumption, DrainAgrees
<1>. HIDE DEF returned, st, served, W, H, m
<1>6. /\ holds' \in [Requests -> SUBSET Models] /\ holds'[r] = {}
      /\ \A x \in Requests \ {r} :
           holds'[x] = IF x \in served THEN holds[x] \cup {m} ELSE holds[x]
  BY <1>1, <1>2 DEF IInv
<1>7. /\ leases' \in [Requests -> Nat] /\ leases'[r] = 0
      /\ \A x \in Requests \ {r} : leases'[x] = leases[x]
  BY DEF IInv
<1>8. Agrees(Requests, st,
             (W \ (served \cup {r})) \cup (IF q.pc = "queued" THEN {r} ELSE {}),
             (H \ {r}) \cup served \cup (IF m \in holds'[r] THEN {r} ELSE {}))
  <2>1. /\ (W \ (served \cup {r})) \cup (IF q.pc = "queued" THEN {r} ELSE {}) = W \ served
        /\ (H \ {r}) \cup served \cup (IF m \in holds'[r] THEN {r} ELSE {})
             = (H \ {r}) \cup served
    BY <1>3, <1>6
  <2>. QED  BY <1>5, <2>1
<1>9. \A n \in Models \ {m} : n \in holds'[r] <=> n \in holds[r]
  BY <1>2, <1>6
<1>10. served \subseteq Waiters(m) \ {r}
  BY <1>3, <1>5 DEF W
<1>11. Fits(q, holds'[r], leases'[r], pins'[r])
  BY <1>6, <1>7
<1>. QED  BY <1>1, <1>2, <1>5, <1>6, <1>7, <1>8, <1>9, <1>10, <1>11, SlotStep DEF W, H

\* A queue timer takes out the entry of its own request, and that request only.
LEMMA QueueTimeoutStep ==
  ASSUME IInv, NEW r \in Requests, QueueTimeout(r)
  PROVE  IInv'
<1>. DEFINE m == request[r].model
            q == AfterFailure(request[r], "transient")
            W == Waiters(m)
            H == SlotHolders(m)
<1>1. /\ request[r].pc = "queued" /\ request' = [request EXCEPT ![r] = q]
      /\ UNCHANGED <<holds, leases, pins>>
  BY DEF QueueTimeout
<1>2. /\ request[r] \in RequestType /\ Trail(request[r]) /\ request[r].outcome = "none"
      /\ m \in Models /\ holds[r] = {} /\ leases[r] = 0 /\ pins[r] = 0
  BY <1>1, OfRequest, Held DEF Fits
<1>3. PICK i \in 1 .. Len(slots[m].queue) :
        slots[m].queue[i] = r /\ slots' = [slots EXCEPT ![m] = Spliced(@, i)]
  BY DEF QueueTimeout
<1>. DEFINE st == Spliced(slots[m], i)
<1>4. slots' = [slots EXCEPT ![m] = st]
  BY <1>2, <1>3 DEF IInv
<1>5. Agrees(Requests, st, W \ {r}, H) /\ NoIdle(st)
  <2>1. Agrees(Requests, slots[m], W, H) /\ NoIdle(slots[m])
    BY <1>2, OfModel
  <2>. HIDE DEF W, H, m
  <2>. QED  BY <1>3, <2>1, SpliceAgrees
<1>6. q.pc \in {"selecting", "done"} /\ Fits(q, {}, 0, 0) /\ Trail(q)
  <2>1. "transient" \in Errors
    BY ErrorKinds
  <2>. QED  BY <1>1, <1>2, <2>1, AfterFailureFits
<1>7. r \notin H
  BY <1>2, OfModel
<1>. HIDE DEF st, W, H, m, q
<1>8. Resolve(r, q, {})
  BY <1>1 DEF Resolve, IInv
<1>9. Agrees(Requests, st,
             (W \ ({} \cup {r})) \cup (IF q.pc = "queued" THEN {r} ELSE {}),
             (H \ {r}) \cup {} \cup (IF m \in holds'[r] THEN {r} ELSE {}))
  <2>1. /\ (W \ ({} \cup {r})) \cup (IF q.pc = "queued" THEN {r} ELSE {}) = W \ {r}
        /\ (H \ {r}) \cup {} \cup (IF m \in holds'[r] THEN {r} ELSE {}) = H
    BY <1>1, <1>2, <1>6, <1>7
  <2>. QED  BY <1>5, <2>1
<1>10. /\ holds' \in [Requests -> SUBSET Models]
       /\ leases' \in [Requests -> Nat] /\ pins' \in [Requests -> Nat]
       /\ Fits(q, holds'[r], leases'[r], pins'[r])
  BY <1>1, <1>2, <1>6 DEF IInv
<1>11. request[r].model = m /\ q.pc # "queued"
  BY <1>6 DEF m
<1>. QED  BY <1>1, <1>2, <1>4, <1>5, <1>6, <1>8, <1>9, <1>10, <1>11, SlotStep DEF W, H
\* A failed attempt keeps the slot for the next one, or returns it with the rest.
LEMMA AttemptFailsStep ==
  ASSUME IInv, NEW r \in Requests, NEW error \in Errors, AttemptFails(r, error)
  PROVE  IInv'
<1>. DEFINE retry == error \in Retryable /\ request[r].attempt < MaxAttempts
<1>1. /\ request[r].pc \in {"starting", "executing"}
      /\ leases' = [leases EXCEPT ![r] = 0] /\ pins' = [pins EXCEPT ![r] = 0]
      /\ \/ /\ retry
            /\ request' = [request EXCEPT ![r].pc = "backoff"]
            /\ UNCHANGED <<slots, holds>>
         \/ /\ ~retry
            /\ ReturnSlot(r, AfterFailure(request[r], error))
  BY DEF AttemptFails
<1>2. /\ leases' \in [Requests -> Nat] /\ pins' \in [Requests -> Nat]
      /\ leases'[r] = 0 /\ pins'[r] = 0
      /\ \A x \in Requests \ {r} : leases'[x] = leases[x] /\ pins'[x] = pins[x]
  BY <1>1 DEF IInv
<1>3. /\ request[r] \in RequestType /\ Trail(request[r]) /\ request[r].outcome = "none"
      /\ request[r].model \in Models /\ holds[r] = {request[r].model}
      /\ request[r].pc \in InAttempt
  BY <1>1, OfRequest, Held DEF InAttempt
<1>. HIDE DEF retry
<1>4. CASE retry
  <2>. DEFINE q == [request[r] EXCEPT !.pc = "backoff"]
  <2>1. request' = [request EXCEPT ![r] = q] /\ UNCHANGED <<slots, holds>>
    BY <1>1, <1>4
  <2>2. /\ q \in RequestType /\ q.pc = "backoff" /\ q.tier = request[r].tier
        /\ q.kind = request[r].kind /\ q.snap = request[r].snap /\ q.model = request[r].model
        /\ q.trace = request[r].trace /\ q.outcome = "none"
    <3>1. "backoff" \in Stages
      BY DEF Stages, InAttempt
    <3>. QED  BY <1>3, <3>1, MovedStage
  <2>. HIDE DEF q
  <2>3. Trail(q)
    BY <1>3, <2>2, KeptTrail DEF Waiting
  <2>4. Fits(q, holds[r], leases'[r], pins'[r])
    BY <1>2, <1>3, <2>2 DEF Fits, HoldsSlot, InAttempt
  <2>. QED  BY <1>1, <1>2, <2>1, <2>2, <2>3, <2>4, LocalStep
<1>5. CASE ~retry
  <2>. DEFINE q == AfterFailure(request[r], error)
  <2>1. q.pc \in {"selecting", "done"} /\ Fits(q, {}, 0, 0) /\ Trail(q)
    BY <1>3, AfterFailureFits
  <2>2. ReturnSlot(r, q)
    BY <1>1, <1>5
  <2>. HIDE DEF q
  <2>. QED  BY <1>1, <1>2, <1>3, <2>1, <2>2, ReturnSlotStep
<1>. QED  BY <1>4, <1>5

\* An answer returns the slot; a stream is unread and keeps its generation.
LEMMA AttemptSucceedsStep ==
  ASSUME IInv, NEW r \in Requests, AttemptSucceeds(r)
  PROVE  IInv'
<1>. DEFINE stream == request[r].kind = "stream"
            unread == [request[r] EXCEPT !.pc = "streamReady", !.attempt = 0, !.trace = <<>>]
            q      == IF stream THEN unread ELSE Finished(request[r], "answered")
<1>1. /\ request[r].pc = "executing" /\ request[r].kind # "embedding"
      /\ leases' = [leases EXCEPT ![r] = 0]
      /\ pins' = IF stream THEN pins ELSE [pins EXCEPT ![r] = 0]
      /\ ReturnSlot(r, q)
  BY DEF AttemptSucceeds
<1>2. /\ request[r] \in RequestType /\ request[r].outcome = "none" /\ pins[r] \in Nat
      /\ request[r].pc \in InAttempt
  BY <1>1, OfRequest, Held DEF InAttempt
<1>3. /\ pins' \in [Requests -> Nat] /\ pins'[r] \in Nat
      /\ ~stream => pins'[r] = 0
      /\ \A x \in Requests \ {r} : pins'[x] = pins[x]
  BY <1>1 DEF IInv
<1>4. Fits(q, {}, 0, pins'[r]) /\ Trail(q) /\ q.pc # "queued"
  <2>1. CASE stream
    <3>1. /\ unread \in RequestType /\ unread.pc = "streamReady" /\ unread.trace = <<>>
          /\ unread.kind = "stream" /\ unread.outcome = "none"
      <4>1. <<>> \in Seq(Failure) /\ "streamReady" \in Stages
        BY DEF Stages, Streaming
      <4>. QED  BY <1>2, <2>1, <4>1 DEF RequestType
    <3>. HIDE DEF unread
    <3>2. Fits(unread, {}, 0, pins'[r])
      BY <1>2, <1>3, <3>1 DEF Fits, HoldsSlot, InAttempt
    <3>3. Trail(unread)
      BY <3>1, EmptyTrail DEF InAttempt
    <3>. QED  BY <2>1, <3>1, <3>2, <3>3
  <2>2. CASE ~stream
    <3>1. "answered" \in Outcomes
      BY DEF Outcomes
    <3>2. /\ q.pc = "done" /\ q.trace = <<>> /\ q.outcome = "answered"
      BY <1>2, <2>2, <3>1, FinishedFields
    <3>3. Fits(q, {}, 0, 0)
      BY <1>2, <2>2, FinishedFits
    <3>. HIDE DEF q
    <3>4. Trail(q)
      BY <3>2, EmptyTrail DEF InAttempt
    <3>. QED  BY <1>3, <2>2, <3>2, <3>3, <3>4
  <2>. QED  BY <2>1, <2>2
<1>. HIDE DEF q
<1>. QED  BY <1>1, <1>2, <1>3, <1>4, ReturnSlotStep

\* The end of an embedding returns its slot, with whatever outcome.
LEMMA EmbeddingEndsStep ==
  ASSUME IInv, NEW r \in Requests, EmbeddingEnds(r)
  PROVE  IInv'
<1>1. /\ request[r].pc = "executing" /\ request[r].kind = "embedding"
      /\ leases' = [leases EXCEPT ![r] = 0] /\ UNCHANGED pins
      /\ \/ ReturnSlot(r, Finished(request[r], "answered"))
         \/ \E error \in Errors : ReturnSlot(r, AfterFailure(request[r], error))
  BY DEF EmbeddingEnds, Embedding
<1>2. /\ request[r] \in RequestType /\ request[r].outcome = "none" /\ Trail(request[r])
      /\ request[r].pc \in InAttempt
  BY <1>1, OfRequest, Held DEF InAttempt
<1>3. /\ pins' \in [Requests -> Nat] /\ pins'[r] = 0
      /\ \A x \in Requests \ {r} : pins'[x] = pins[x]
  BY <1>1, OfRequest DEF IInv, Fits
<1>4. CASE ReturnSlot(r, Finished(request[r], "answered"))
  <2>. DEFINE q == Finished(request[r], "answered")
  <2>1. "answered" \in Outcomes
    BY DEF Outcomes
  <2>2. q.pc = "done" /\ q.trace = <<>> /\ q.outcome = "answered"
    BY <1>2, <2>1, FinishedFields
  <2>3. Fits(q, {}, 0, 0)
    BY <1>2, FinishedFits
  <2>4. ReturnSlot(r, q)
    BY <1>4
  <2>. HIDE DEF q
  <2>5. Trail(q)
    BY <2>2, EmptyTrail DEF InAttempt
  <2>. QED  BY <1>1, <1>2, <1>3, <2>2, <2>3, <2>4, <2>5, ReturnSlotStep
<1>5. ASSUME NEW error \in Errors, ReturnSlot(r, AfterFailure(request[r], error))
      PROVE  IInv'
  <2>. DEFINE q == AfterFailure(request[r], error)
  <2>1. q.pc \in {"selecting", "done"} /\ Fits(q, {}, 0, 0) /\ Trail(q)
    BY <1>2, AfterFailureFits
  <2>2. ReturnSlot(r, q)
    BY <1>5
  <2>. HIDE DEF q
  <2>. QED  BY <1>1, <1>2, <1>3, <2>1, <2>2, ReturnSlotStep
<1>. QED  BY <1>1, <1>4, <1>5

-----------------------------------------------------------------------------
\* At the start nobody asks for anything, and nothing is counted.
LEMMA InitIInv == Init => IInv
<1>. SUFFICES ASSUME Init PROVE IInv
  OBVIOUS
<1>1. PICK s \in Snapshots : request = [r \in Requests |-> NoRequest(s)]
  BY DEF Init
<1>2. /\ slots = [m \in Models |-> NoSlot] /\ holds = [r \in Requests |-> {}]
      /\ leases = [r \in Requests |-> 0] /\ pins = [r \in Requests |-> 0]
  BY DEF Init
<1>. DEFINE q == NoRequest(s)
<1>3. /\ q \in RequestType /\ q.pc = "idle" /\ q.trace = <<>> /\ q.outcome = "none"
  <2>1. <<>> \in Seq(Failure) /\ Children[1] \in AnyModel
    BY DEF AnyModel
  <2>. QED  BY <2>1 DEF NoRequest, RequestType, Stages, Kinds, Outcomes
<1>4. request = [r \in Requests |-> q]
  BY <1>1
<1>. HIDE DEF q
<1>5. Fits(q, {}, 0, 0)
  BY <1>3 DEF Fits, HoldsSlot, InAttempt
<1>6. Trail(q)
  BY <1>3, EmptyTrail DEF InAttempt
<1>7. NoSlot \in SlotType(Requests) /\ NoSlot.queue = <<>> /\ NoSlot.active = 0
  BY DEF NoSlot, SlotType
<1>8. ASSUME NEW m \in Models
      PROVE  Counted(m)
  <2>1. Waiters(m) = {} /\ SlotHolders(m) = {} /\ slots[m] = NoSlot
    BY <1>2, <1>3, <1>4 DEF Waiters, SlotHolders
  <2>2. InQueue(NoSlot.queue) = {} /\ Injective(NoSlot.queue)
    BY <1>7 DEF InQueue, Injective
  <2>. QED  BY <1>7, <2>1, <2>2, FS_EmptySet DEF Counted, Agrees, NoIdle
<1>. QED  BY <1>2, <1>3, <1>4, <1>5, <1>6, <1>7, <1>8 DEF IInv

\* Every step keeps it.
LEMMA NextIInv == IInv /\ [Next]_vars => IInv'
<1>. SUFFICES ASSUME IInv, [Next]_vars PROVE IInv'
  OBVIOUS
<1>1. CASE UNCHANGED vars
  <2>1. UNCHANGED <<slots, holds, leases, pins, request>>
    BY <1>1 DEF vars
  <2>2. \A m \in Models : Waiters(m)' = Waiters(m) /\ SlotHolders(m)' = SlotHolders(m)
    BY <2>1 DEF Waiters, SlotHolders
  <2>. QED  BY <2>1, <2>2 DEF IInv, Counted
<1>2. ASSUME NEW r \in Requests,
             \/ Arrive(r) \/ Select(r) \/ QueueTimeout(r)
             \/ BeginAttempt(r) \/ AttemptEnds(r) \/ BackoffEnds(r)
             \/ ConsumeStream(r) \/ StreamEnds(r)
             \/ EmbeddingRefused(r) \/ EmbeddingBegins(r) \/ EmbeddingLosesSlot(r)
             \/ EmbeddingEnds(r)
      PROVE  IInv'
  <2>1. CASE Arrive(r)              BY <2>1, ArriveStep
  <2>2. CASE NoCandidate(r)         BY <2>2, NoCandidateStep
  <2>3. ASSUME NEW m \in Models, EnterModel(r, m)
        PROVE  IInv'
    BY <2>3, EnterModelStep
  <2>4. CASE QueueTimeout(r)        BY <2>4, QueueTimeoutStep
  <2>5. CASE BeginAttempt(r)        BY <2>5, BeginAttemptStep
  <2>6. CASE AttemptSucceeds(r)     BY <2>6, AttemptSucceedsStep
  <2>7. ASSUME NEW error \in Errors, AttemptFails(r, error)
        PROVE  IInv'
    BY <2>7, AttemptFailsStep
  <2>8. CASE BackoffEnds(r)         BY <2>8, BackoffEndsStep
  <2>9. CASE ConsumeStream(r)       BY <2>9, ConsumeStreamStep
  <2>10. CASE StreamEnds(r)         BY <2>10, StreamEndsStep
  <2>11. CASE EmbeddingRefused(r)   BY <2>11, EmbeddingRefusedStep
  <2>12. CASE EmbeddingBegins(r)    BY <2>12, EmbeddingBeginsStep
  <2>13. CASE EmbeddingLosesSlot(r) BY <2>13, EmbeddingLosesSlotStep
  <2>14. CASE EmbeddingEnds(r)      BY <2>14, EmbeddingEndsStep
  <2>. QED
    BY <1>2, <2>1, <2>2, <2>3, <2>4, <2>5, <2>6, <2>7, <2>8, <2>9, <2>10, <2>11, <2>12,
       <2>13, <2>14 DEF Select, AttemptEnds
<1>. QED  BY <1>1, <1>2 DEF Next

\* The inductive invariant holds in every reachable state.
THEOREM ExecutionInvariant == Spec => []IInv
<1>1. Init => IInv                  BY InitIInv
<1>2. IInv /\ [Next]_vars => IInv'  BY NextIInv
<1>. QED  BY <1>1, <1>2, PTL DEF Spec
-----------------------------------------------------------------------------
\* The entries of r in a queue that has everybody once: one if r waits, or none.
LEMMA QueueEntries ==
  ASSUME NEW C, NEW queue \in Seq(C), Injective(queue), NEW r
  PROVE  Cardinality({i \in 1 .. Len(queue) : queue[i] = r})
           = IF r \in InQueue(queue) THEN 1 ELSE 0
<1>. DEFINE I == {i \in 1 .. Len(queue) : queue[i] = r}
<1>1. CASE r \in InQueue(queue)
  <2>1. PICK k \in 1 .. Len(queue) : queue[k] = r
    BY <1>1 DEF InQueue
  <2>2. I = {k}
    BY <2>1 DEF Injective
  <2>3. Cardinality(I) = 1
    BY <2>2, FS_Singleton
  <2>. QED  BY <1>1, <2>3
<1>2. CASE r \notin InQueue(queue)
  <2>1. I = {}
    BY <1>2 DEF InQueue
  <2>2. Cardinality(I) = 0
    BY <2>1, FS_EmptySet
  <2>. QED  BY <1>2, <2>2
<1>. QED  BY <1>1, <1>2

\* A trail names no child twice.
LEMMA TrailCardinality ==
  ASSUME NEW q \in RequestType, Trail(q)
  PROVE  Cardinality(Failed(q)) = Len(q.trace)
<1>. DEFINE n == Len(q.trace)
            f == [i \in 1 .. n |-> q.trace[i].model]
<1>1. n \in Nat
  BY Fields
<1>2. \A i \in 1 .. n : q.trace[i].model \notin Before(q, i)
  BY DEF Trail, IsFirst
<1>3. \A i, j \in 1 .. n : f[i] = f[j] => i = j
  <2>1. ASSUME NEW i \in 1 .. n, NEW j \in 1 .. n, i < j
        PROVE  f[i] # f[j]
    <3>1. i \in 1 .. j - 1
      BY <1>1, <2>1
    <3>. QED  BY <1>2, <3>1 DEF Before
  <2>. HIDE DEF f
  <2>. QED  BY <1>1, <2>1
<1>4. f \in Bijection(1 .. n, Failed(q))
  <2>1. f \in [1 .. n -> Failed(q)]
    BY DEF Failed
  <2>2. \A x \in Failed(q) : \E i \in 1 .. n : f[i] = x
    BY DEF Failed
  <2>. HIDE DEF f
  <2>. QED  BY <1>3, <2>1, <2>2, Fun_IsBij
<1>5. ExistsBijection(1 .. n, Failed(q))
  BY <1>4 DEF ExistsBijection
<1>6. IsFiniteSet(1 .. n) /\ Cardinality(1 .. n) = n
  BY <1>1, FS_Interval
<1>. QED  BY <1>5, <1>6, FS_Bijection

\* Over retries, backoffs, cascades, timeouts, streams and embeddings, every
\* controller counts its holders and queues its waiters, once each.
THEOREM ResourcesAccounted == Spec => []ResourceAccounting
<1>1. IInv => ResourceAccounting
  <2>1. SUFFICES ASSUME IInv, NEW m \in Models
                 PROVE  /\ slots[m].active = Cardinality(SlotHolders(m))
                        /\ \A r \in Requests :
                             Cardinality({i \in 1 .. Len(slots[m].queue) : slots[m].queue[i] = r})
                               = IF request[r].pc = "queued" /\ request[r].model = m THEN 1 ELSE 0
    BY DEF ResourceAccounting
  <2>2. /\ slots[m].queue \in Seq(Requests) /\ Injective(slots[m].queue)
        /\ Waiters(m) = InQueue(slots[m].queue)
        /\ slots[m].active = Cardinality(SlotHolders(m))
    BY <2>1, OfModel DEF Agrees, SlotType
  <2>3. ASSUME NEW r \in Requests
        PROVE  Cardinality({i \in 1 .. Len(slots[m].queue) : slots[m].queue[i] = r})
                 = IF request[r].pc = "queued" /\ request[r].model = m THEN 1 ELSE 0
    <3>1. r \in InQueue(slots[m].queue) <=> request[r].pc = "queued" /\ request[r].model = m
      BY <2>1, <2>2, OfModel
    <3>2. Cardinality({i \in 1 .. Len(slots[m].queue) : slots[m].queue[i] = r})
            = IF r \in InQueue(slots[m].queue) THEN 1 ELSE 0
      BY <2>2, QueueEntries
    <3>. QED  BY <3>1, <3>2
  <2>. QED  BY <2>2, <2>3
<1>. QED  BY <1>1, ExecutionInvariant, PTL

\* Whoever waits, chooses or is finished holds nothing, but for a lost slot.
THEOREM WaitersHoldNothing == Spec => []NothingHeldWhileWaiting
<1>1. IInv => NothingHeldWhileWaiting
  BY OfRequest DEF NothingHeldWhileWaiting, Fits, HoldsSlot, InAttempt, Waiting
<1>. QED  BY <1>1, ExecutionInvariant, PTL

\* Whatever its children, errors and limits, a tier is reported exhausted only
\* after its usable children failed once each, in their order.
THEOREM ExhaustionMeansTried == Spec => []ExhaustedMeansTried
<1>1. IInv => ExhaustedMeansTried
  <2>1. SUFFICES ASSUME IInv, NEW r \in Requests, request[r].outcome = "exhausted"
                 PROVE  LET q == request[r]
                        IN  /\ Candidates(q) = {} \/ (q.kind # "embedding" /\ Len(q.trace) = MaxChildren)
                            /\ Cardinality(Failed(q)) = Len(q.trace)
                            /\ \A i \in 1 .. Len(q.trace) :
                                 /\ q.trace[i].error \in Cascading
                                 /\ IsFirst(q.trace[i].model,
                                            Eligible(q) \ {q.trace[j].model : j \in 1 .. i - 1})
    BY DEF ExhaustedMeansTried
  <2>2. request[r] \in RequestType /\ Trail(request[r])
    BY <2>1, OfRequest
  <2>3. Cardinality(Failed(request[r])) = Len(request[r].trace)
    BY <2>2, TrailCardinality
  <2>. QED  BY <2>1, <2>2, <2>3 DEF Trail, Before
<1>. QED  BY <1>1, ExecutionInvariant, PTL

\* No request waits for a model that has a slot to give: what returns a slot,
\* raises a limit or loses its place in the queue leaves nobody behind.
NoSlotIdles ==
  \A r \in Requests : request[r].pc = "queued" =>
    slots[request[r].model].active >= slots[request[r].model].max

\* A drain follows everything that frees a slot, in the same step.
THEOREM SlotsNeverIdle == Spec => []NoSlotIdles
<1>1. IInv => NoSlotIdles
  <2>1. SUFFICES ASSUME IInv, NEW r \in Requests, request[r].pc = "queued"
                 PROVE  slots[request[r].model].active >= slots[request[r].model].max
    BY DEF NoSlotIdles
  <2>. DEFINE m == request[r].model
  <2>2. m \in Models /\ r \in Waiters(m)
    BY <2>1, Held DEF Waiters
  <2>3. /\ Waiters(m) = InQueue(slots[m].queue) /\ NoIdle(slots[m])
    BY <2>1, <2>2, OfModel DEF Agrees
  <2>4. slots[m].queue # <<>>
    BY <2>2, <2>3 DEF InQueue
  <2>. QED  BY <2>3, <2>4 DEF NoIdle
<1>. QED  BY <1>1, ExecutionInvariant, PTL
-----------------------------------------------------------------------------
\* A request that gets a slot gets it within the limit then in force: whatever
\* limits the snapshots bring, a model's holders only leave while there are more.
LimitsKept ==
  \A m \in Models :
    \/ SlotHolders(m)' \subseteq SlotHolders(m)
    \/ Cardinality(SlotHolders(m)') <= slots'[m].max

\* The holders of a model change by what its controller grants, and by who enters.
LEMMA EnterModelWithinLimit ==
  ASSUME IInv, IInv', NEW r \in Requests, NEW m \in Models, EnterModel(r, m)
  PROVE  LimitsKept
<1>. DEFINE resized == Resized(slots[m], request[r].snap.limit[m])
            drained == Drained(resized)
            free    == HasFreeSlot(drained)
            served  == Granted(resized)
<1>1. /\ slots' = [slots EXCEPT ![m] = IF free THEN Admitted(drained) ELSE Enqueued(drained, r)]
      /\ holds' = [x \in Requests |-> IF x \in served \/ (x = r /\ free)
                                      THEN holds[x] \cup {m} ELSE holds[x]]
  BY DEF EnterModel
<1>2. slots[m] \in SlotType(Requests) /\ request[r].snap.limit[m] \in Nat
  <2>1. request[r].snap \in [limit : [Models -> Nat \ {0}],
                             usable : SUBSET Models, embedding : SUBSET Models]
    BY OfRequest, Fields, ExecutionAssumption
  <2>. QED  BY <2>1 DEF IInv
<1>3. resized \in SlotType(Requests)
  BY <1>2, ResizedFacts
<1>. HIDE DEF resized
<1>4. drained \in SlotType(Requests) /\ (served = {} \/ drained.active <= drained.max)
  BY <1>3, DrainFacts, GrantsWithinLimit
<1>. HIDE DEF drained, served, free
<1>5. ASSUME NEW n \in Models, n # m
      PROVE  SlotHolders(n)' \subseteq SlotHolders(n)
  BY <1>1, <1>5 DEF SlotHolders
<1>6. /\ slots'[m] = IF free THEN Admitted(drained) ELSE Enqueued(drained, r)
      /\ slots'[m].active = Cardinality(SlotHolders(m)')
  BY <1>1 DEF IInv, Counted, Agrees
<1>7. CASE free
  <2>1. Admitted(drained).active <= Admitted(drained).max
    BY <1>4, <1>7, AdmittedFacts DEF HasFreeSlot, SlotType, free
  <2>. QED  BY <1>5, <1>6, <1>7, <2>1 DEF LimitsKept
<1>8. CASE ~free
  <2>1. /\ Enqueued(drained, r).active = drained.active
        /\ Enqueued(drained, r).max = drained.max
    BY <1>4, EnqueuedFacts
  <2>2. served = {} => SlotHolders(m)' \subseteq SlotHolders(m)
    BY <1>1, <1>8 DEF SlotHolders
  <2>. QED  BY <1>4, <1>5, <1>6, <1>8, <2>1, <2>2 DEF LimitsKept
<1>. QED  BY <1>7, <1>8

\* A slot that comes back goes to a waiter only within the limit.
LEMMA ReturnSlotWithinLimit ==
  ASSUME IInv, IInv', NEW r \in Requests, NEW q, request[r].pc \in InAttempt, ReturnSlot(r, q)
  PROVE  LimitsKept
<1>1. PICK m \in Models : m = request[r].model /\ holds[r] = {m}
  BY Held DEF InAttempt
<1>. DEFINE returned == Returned(slots[m])
            served   == Granted(returned)
<1>2. /\ slots' = [slots EXCEPT ![m] = Drained(returned)]
      /\ holds' = [x \in Requests |-> IF x = r THEN holds[x] \ {m}
                                      ELSE IF x \in served THEN holds[x] \cup {m}
                                      ELSE holds[x]]
  BY <1>1 DEF ReturnSlot
<1>3. returned \in SlotType(Requests)
  <2>1. Agrees(Requests, slots[m], Waiters(m), SlotHolders(m)) /\ r \in SlotHolders(m)
    BY <1>1, OfModel
  <2>2. Agrees(Requests, returned, Waiters(m), SlotHolders(m) \ {r})
    BY <2>1, ExecutionAssumption, ReturnAgrees
  <2>. QED  BY <2>2 DEF Agrees
<1>. HIDE DEF returned
<1>4. /\ Drained(returned).max = returned.max
      /\ served = {} \/ Drained(returned).active <= returned.max
  BY <1>3, DrainFacts, GrantsWithinLimit
<1>. HIDE DEF served
<1>5. ASSUME NEW n \in Models, n # m
      PROVE  SlotHolders(n)' \subseteq SlotHolders(n)
  BY <1>2, <1>5 DEF SlotHolders
<1>6. slots'[m] = Drained(returned) /\ slots'[m].active = Cardinality(SlotHolders(m)')
  BY <1>2 DEF IInv, Counted, Agrees
<1>7. served = {} => SlotHolders(m)' \subseteq SlotHolders(m)
  BY <1>2 DEF SlotHolders
<1>. QED  BY <1>4, <1>5, <1>6, <1>7 DEF LimitsKept

\* Every request that gets a slot gets it within the limit: a raised or lowered
\* limit, a retry, a cascade or an embedding admits nobody beyond it.
THEOREM GrantsKeepLimits == Spec => [][LimitsKept]_vars
<1>1. IInv /\ IInv' /\ [Next]_vars => [LimitsKept]_vars
  <2>1. SUFFICES ASSUME IInv, IInv', NEW r \in Requests,
                        \/ Arrive(r) \/ Select(r) \/ QueueTimeout(r)
                        \/ BeginAttempt(r) \/ AttemptEnds(r) \/ BackoffEnds(r)
                        \/ ConsumeStream(r) \/ StreamEnds(r)
                        \/ EmbeddingRefused(r) \/ EmbeddingBegins(r)
                        \/ EmbeddingLosesSlot(r) \/ EmbeddingEnds(r)
                 PROVE  LimitsKept
    BY DEF Next
  <2>2. CASE UNCHANGED holds
    BY <2>2 DEF LimitsKept, SlotHolders
  <2>3. CASE \E m \in Models : EnterModel(r, m)
    BY <2>1, <2>3, EnterModelWithinLimit
  <2>4. CASE AttemptEnds(r)
    <3>1. request[r].pc \in InAttempt
      BY <2>4 DEF AttemptEnds, AttemptSucceeds, AttemptFails, InAttempt
    <3>2. ASSUME NEW error \in Errors, AttemptFails(r, error)
          PROVE  LimitsKept
      <4>1. UNCHANGED holds \/ ReturnSlot(r, AfterFailure(request[r], error))
        BY <3>2 DEF AttemptFails
      <4>. QED  BY <2>1, <2>2, <3>1, <4>1, ReturnSlotWithinLimit
    <3>3. CASE AttemptSucceeds(r)
      BY <2>1, <3>1, <3>3, ReturnSlotWithinLimit DEF AttemptSucceeds
    <3>. QED  BY <2>4, <3>2, <3>3 DEF AttemptEnds
  <2>5. CASE EmbeddingEnds(r)
    <3>1. request[r].pc \in InAttempt
      BY <2>5 DEF EmbeddingEnds, Embedding, InAttempt
    <3>2. ASSUME NEW q, ReturnSlot(r, q)
          PROVE  LimitsKept
      BY <2>1, <3>1, <3>2, ReturnSlotWithinLimit
    <3>. QED  BY <2>5, <3>2 DEF EmbeddingEnds
  <2>6. CASE Arrive(r) \/ NoCandidate(r) \/ QueueTimeout(r) \/ BeginAttempt(r) \/ BackoffEnds(r)
             \/ ConsumeStream(r) \/ StreamEnds(r) \/ EmbeddingRefused(r)
             \/ EmbeddingBegins(r) \/ EmbeddingLosesSlot(r)
    <3>1. UNCHANGED holds
      BY <2>6 DEF Arrive, NoCandidate, QueueTimeout, BeginAttempt, BackoffEnds, ConsumeStream,
                  StreamEnds, EmbeddingRefused, EmbeddingBegins, EmbeddingLosesSlot
    <3>. QED  BY <2>2, <3>1
  <2>. QED  BY <2>1, <2>3, <2>4, <2>5, <2>6 DEF Select
<1>. QED  BY <1>1, ExecutionInvariant, PTL DEF Spec
=============================================================================
