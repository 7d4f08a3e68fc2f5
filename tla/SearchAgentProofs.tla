-------------------------- MODULE SearchAgentProofs --------------------------
(***************************************************************************)
(* For any number of slots, requests, providers and secrets: a slot of the *)
(* browser pool serves one request at a time unless two launched it at     *)
(* once, all slots come back, and what the settings page says it has saved *)
(* can be read.                                                            *)
(***************************************************************************)
EXTENDS SearchAgent, FiniteSetTheorems, SequenceTheorems, WellFoundedInduction, TLAPS

Holding == {"context", "hold", "closing", "lost"}

ReqType == [pc : Holding \cup {"idle", "wait", "launch", "over"}, slot : Slots \cup {NoSlot},
            queued : BOOLEAN, aborted : BOOLEAN, answered : BOOLEAN, ok : BOOLEAN]

PoolTypeOK ==
  /\ alive \in BOOLEAN /\ closed \in BOOLEAN
  /\ browser \in [Slots -> BOOLEAN] /\ busy \in [Slots -> BOOLEAN]
  /\ waitQueue \in Seq(Requests)
  /\ req \in [Requests -> ReqType]

\* A request that uses a slot has one.
SlotsKnown == \A r \in Requests : req[r].pc \in Holding \cup {"launch"} => req[r].slot \in Slots

\* The queue has requests that wait, each once, and nobody waits for a closed pool.
QueueWaits ==
  /\ closed => waitQueue = << >>
  /\ \A i \in 1 .. Len(waitQueue) : req[waitQueue[i]].pc = "wait"
  /\ \A i, j \in 1 .. Len(waitQueue) : waitQueue[i] = waitQueue[j] => i = j

\* A slot that is busy serves somebody; one that was not launched twice has one
\* user at most, is busy while it serves and has no browser while it is launched.
SlotOK(s) ==
  /\ alive /\ busy[s] => Serving(s) # {}
  /\ s \notin doubled =>
       /\ \A q, r \in Serving(s) \cup Launching(s) : q = r
       /\ Serving(s) # {} => busy[s]
       /\ Launching(s) # {} => ~browser[s]

PoolInv == PoolTypeOK /\ SlotsKnown /\ QueueWaits /\ \A s \in Slots : SlotOK(s)

-----------------------------------------------------------------------------
\* A set of numbers has a least one.
LEMMA LeastNumber ==
  ASSUME NEW S \in SUBSET Nat, S # {}
  PROVE  Min(S) \in S /\ \A n \in S : Min(S) <= n
<1>1. PICK x \in S : \A y \in S : <<y, x>> \notin OpToRel(<, Nat)
  BY NatLessThanWellFounded, WFMin
<1>2. \A y \in S : x <= y
  <2>. TAKE y \in S
  <2>1. <<y, x>> \notin OpToRel(<, Nat)
    BY <1>1
  <2>2. x \in Nat /\ y \in Nat
    OBVIOUS
  <2>. QED  BY <2>1, <2>2 DEF OpToRel
<1>. QED  BY <1>1, <1>2 DEF Min

\* One that leaves the queue: the others stay, each once.
LEMMA Leaves ==
  ASSUME waitQueue \in Seq(Requests), NEW r,
         \A i, j \in 1 .. Len(waitQueue) : waitQueue[i] = waitQueue[j] => i = j
  PROVE  LET new == RemoveFirst(waitQueue, r)
         IN  /\ new \in Seq(Requests)
             /\ \A i \in 1 .. Len(new) :
                   new[i] # r /\ \E j \in 1 .. Len(waitQueue) : new[i] = waitQueue[j]
             /\ \A i, j \in 1 .. Len(new) : new[i] = new[j] => i = j
<1>. DEFINE n  == Len(waitQueue)
            at == {i \in 1 .. n : waitQueue[i] = r}
            new == RemoveFirst(waitQueue, r)
<1>1. n \in Nat /\ \A i \in 1 .. n : waitQueue[i] \in Requests
  BY LenProperties, ElementOfSeq
<1>2. CASE at = {}
  <2>1. new = waitQueue
    BY <1>2 DEF RemoveFirst
  <2>. QED  BY <1>2, <2>1
<1>3. CASE at # {}
  <2>. DEFINE m == Min(at)
  <2>1. m \in at
    <3>1. at \in SUBSET Nat
      BY <1>1
    <3>. QED  BY <1>3, <3>1, LeastNumber
  <2>2. new = RemoveAt(waitQueue, m)
    BY <1>3 DEF RemoveFirst, SelectInSeq
  <2>3. m \in 1 .. n /\ waitQueue[m] = r
    BY <2>1
  <2>. HIDE DEF m, n
  <2>4. \A i \in 1 .. m - 1 : waitQueue[i] \in Requests
    BY <1>1, <2>3
  <2>5. \A i \in m + 1 .. n : waitQueue[i] \in Requests
    BY <1>1, <2>3
  <2>. DEFINE a == SubSeq(waitQueue, 1, m - 1)
              b == SubSeq(waitQueue, m + 1, n)
  <2>6. /\ a \in Seq(Requests) /\ Len(a) = m - 1
        /\ \A i \in 1 .. m - 1 : a[i] = waitQueue[i]
    BY <1>1, <2>3, <2>4, SubSeqProperties
  <2>7. /\ b \in Seq(Requests) /\ Len(b) = n - m
        /\ \A i \in 1 .. n - m : b[i] = waitQueue[m + i]
    BY <1>1, <2>3, <2>5, SubSeqProperties
  <2>8. new = a \o b
    BY <2>2 DEF RemoveAt, n
  <2>. HIDE DEF a, b
  <2>9. /\ new \in Seq(Requests) /\ Len(new) = n - 1
        /\ \A i \in 1 .. n - 1 : new[i] = IF i <= m - 1 THEN a[i] ELSE b[i - (m - 1)]
    BY <1>1, <2>3, <2>6, <2>7, <2>8, ConcatProperties
  <2>10. ASSUME NEW i \in 1 .. n - 1
         PROVE  \/ i < m /\ new[i] = waitQueue[i]
                \/ i >= m /\ i + 1 \in 1 .. n /\ new[i] = waitQueue[i + 1]
    <3>1. CASE i <= m - 1
      BY <1>1, <2>3, <2>6, <2>9, <3>1
    <3>2. CASE ~ (i <= m - 1)
      <4>1. i - (m - 1) \in 1 .. n - m /\ m + (i - (m - 1)) = i + 1
        BY <1>1, <2>3, <3>2
      <4>2. new[i] = b[i - (m - 1)]
        BY <2>9, <3>2
      <4>3. b[i - (m - 1)] = waitQueue[i + 1]
        BY <2>7, <4>1
      <4>4. i >= m /\ i + 1 \in 1 .. n
        BY <1>1, <2>3, <3>2
      <4>. QED  BY <4>2, <4>3, <4>4
    <3>. QED  BY <3>1, <3>2
  <2>. HIDE DEF new
  <2>11. \A i, j \in 1 .. n : waitQueue[i] = waitQueue[j] => i = j
    BY DEF n
  <2>12. ASSUME NEW i \in 1 .. n - 1
         PROVE  new[i] # r /\ \E j \in 1 .. n : new[i] = waitQueue[j]
    <3>1. CASE i < m /\ new[i] = waitQueue[i]
      BY <1>1, <2>3, <2>11, <3>1
    <3>2. CASE i >= m /\ i + 1 \in 1 .. n /\ new[i] = waitQueue[i + 1]
      BY <1>1, <2>3, <2>11, <3>2
    <3>. QED  BY <2>10, <3>1, <3>2
  <2>13. ASSUME NEW i \in 1 .. n - 1, NEW j \in 1 .. n - 1, new[i] = new[j]
         PROVE  i = j
    <3>1. PICK k \in 1 .. n, l \in 1 .. n :
            /\ new[i] = waitQueue[k] /\ new[j] = waitQueue[l]
            /\ (i < m /\ k = i) \/ (i >= m /\ k = i + 1)
            /\ (j < m /\ l = j) \/ (j >= m /\ l = j + 1)
      <4>1. i \in 1 .. n /\ j \in 1 .. n
        BY <1>1
      <4>. QED  BY <2>10, <4>1
    <3>2. k = l
      BY <2>11, <2>13, <3>1
    <3>. QED  BY <1>1, <2>3, <3>1, <3>2
  <2>. QED  BY <2>9, <2>12, <2>13 DEF new, n
<1>. QED  BY <1>2, <1>3

\* A slot that nobody took, left or launched.
LEMMA SlotKept ==
  ASSUME NEW s, SlotOK(s), Serving(s)' = Serving(s), Launching(s)' = Launching(s),
         busy'[s] = busy[s], browser'[s] = browser[s] \/ browser'[s] = FALSE,
         doubled \subseteq doubled', alive' = alive
  PROVE  SlotOK(s)'
BY DEF SlotOK

\* What the requests are to a slot.
Same(r) ==
  /\ req'[r].pc \in Holding <=> req[r].pc \in Holding
  /\ req'[r].pc = "launch" <=> req[r].pc = "launch"
  /\ req'[r].slot = req[r].slot

\* Requests that are to the slots what they were.
LEMMA SameUsers ==
  ASSUME \A r \in Requests :
           Same(r) \/ (req[r].pc \notin Holding \cup {"launch"}
                       /\ req'[r].pc \notin Holding \cup {"launch"}),
         NEW s
  PROVE  Serving(s)' = Serving(s) /\ Launching(s)' = Launching(s)
BY DEF Same, Serving, Launching, Holding

\* The requests that change nothing about slots.
LEMMA SlotsAlone ==
  ASSUME PoolInv, UNCHANGED <<alive, busy, doubled>>,
         browser' = browser \/ \A s \in Slots : browser'[s] = browser[s] \/ browser'[s] = FALSE,
         \A r \in Requests :
           Same(r) \/ (req[r].pc \notin Holding \cup {"launch"}
                       /\ req'[r].pc \notin Holding \cup {"launch"})
  PROVE  SlotsKnown' /\ \A s \in Slots : SlotOK(s)'
<1>1. SlotsKnown'
  BY DEF PoolInv, SlotsKnown, Same
<1>2. ASSUME NEW s \in Slots
      PROVE  SlotOK(s)'
  <2>1. Serving(s)' = Serving(s) /\ Launching(s)' = Launching(s)
    BY SameUsers
  <2>. QED  BY <2>1, SlotKept DEF PoolInv
<1>. QED  BY <1>1, <1>2

\* A request that was and is not waiting leaves the queue as it was.
LEMMA QueueKept ==
  ASSUME PoolInv, UNCHANGED <<closed, waitQueue>>,
         \A r \in Requests : req[r].pc = "wait" => req'[r].pc = "wait"
  PROVE  QueueWaits'
<1>1. \A i \in 1 .. Len(waitQueue) : waitQueue[i] \in Requests
  BY ElementOfSeq DEF PoolInv, PoolTypeOK
<1>. QED  BY <1>1 DEF PoolInv, QueueWaits
-----------------------------------------------------------------------------
(* The steps of the pool.                                                  *)

\* A request that moves on, whatever it is to the slots.
LEMMA MovesOn ==
  ASSUME PoolInv, NEW r \in Requests, NEW q, Becomes(r, q)
  PROVE  /\ req'[r] = q /\ \A x \in Requests \ {r} : req'[x] = req[x]
         /\ q \in ReqType => req' \in [Requests -> ReqType]
BY DEF PoolInv, PoolTypeOK, Becomes

\* A request that is over.
LEMMA OverType ==
  ASSUME NEW q \in ReqType
  PROVE  Over(q) \in ReqType /\ Over(q).pc = "over"
BY DEF Over, ReqType, NoSlot

\* Where a request goes that gets a slot.
LEMMA ClaimedType ==
  ASSUME PoolTypeOK, NEW q \in ReqType, NEW s \in Slots
  PROVE  /\ Claimed(q, s) \in ReqType /\ Claimed(q, s).slot = s
         /\ browser[s] => Claimed(q, s).pc = "context"
         /\ ~browser[s] => Claimed(q, s).pc = "launch"
BY DEF Claimed, ReqType, Holding

\* A request takes a slot that is free.
LEMMA TakeStep ==
  ASSUME PoolInv, NEW r \in Requests, req[r].pc = "idle", NEW s \in Slots, ~busy[s],
         Take(r, s, req[r]), alive, UNCHANGED <<alive, closed, browser, waitQueue>>
  PROVE  PoolInv'
<1>1. PoolTypeOK /\ req[r] \in ReqType
  BY DEF PoolInv, PoolTypeOK
<1>. DEFINE q == Claimed(req[r], s)
<1>2. /\ q \in ReqType /\ q.slot = s
      /\ browser[s] => q.pc = "context"
      /\ ~browser[s] => q.pc = "launch"
  BY <1>1, ClaimedType
<1>3. Becomes(r, q) /\ busy' = [busy EXCEPT ![s] = @ \/ browser[s]]
      /\ doubled' = IF ~browser[s] /\ Launching(s) # {} THEN doubled \cup {s} ELSE doubled
  BY DEF Take
<1>. HIDE DEF q
<1>4. req'[r] = q /\ (\A x \in Requests \ {r} : req'[x] = req[x]) /\ req' \in [Requests -> ReqType]
  BY <1>2, <1>3, MovesOn
<1>5. PoolTypeOK'
  BY <1>1, <1>3, <1>4 DEF PoolTypeOK
<1>6. SlotsKnown'
  BY <1>2, <1>4 DEF PoolInv, SlotsKnown
<1>7. QueueWaits'
  BY <1>4, QueueKept
<1>8. ASSUME NEW t \in Slots, t # s
      PROVE  SlotOK(t)'
  <2>1. Serving(t)' = Serving(t) /\ Launching(t)' = Launching(t)
    BY <1>2, <1>4, <1>8 DEF Serving, Launching
  <2>2. busy'[t] = busy[t]
    BY <1>1, <1>3, <1>8 DEF PoolTypeOK
  <2>. QED  BY <1>3, <2>1, <2>2, SlotKept DEF PoolInv
<1>9. SlotOK(s)'
  <2>1. SlotOK(s)
    BY DEF PoolInv
  <2>2. CASE browser[s]
    <3>1. Serving(s)' = Serving(s) \cup {r} /\ Launching(s)' = Launching(s)
      BY <1>2, <1>4, <2>2 DEF Serving, Launching
    <3>2. busy'[s] = TRUE
      BY <1>1, <1>3, <2>2 DEF PoolTypeOK
    <3>. QED  BY <1>3, <2>1, <2>2, <3>1, <3>2 DEF SlotOK
  <2>3. CASE ~browser[s]
    <3>1. Serving(s)' = Serving(s) /\ Launching(s)' = Launching(s) \cup {r}
      BY <1>2, <1>4, <2>3 DEF Serving, Launching
    <3>2. busy'[s] = FALSE
      BY <1>1, <1>3, <2>3 DEF PoolTypeOK
    <3>. QED  BY <1>3, <2>1, <2>3, <3>1, <3>2 DEF SlotOK
  <2>. QED  BY <2>2, <2>3
<1>. QED  BY <1>5, <1>6, <1>7, <1>8, <1>9 DEF PoolInv

\* A request is refused, finds a free slot or waits.
LEMMA AcquireStep ==
  ASSUME PoolInv, NEW r \in Requests, Acquire(r)
  PROVE  PoolInv'
<1>. DEFINE free  == {s \in Slots : ~busy[s]}
            ready == {s \in free : browser[s]}
<1>1. /\ alive /\ req[r].pc = "idle" /\ UNCHANGED <<alive, closed, browser, deaths>>
      /\ PoolTypeOK /\ req[r] \in ReqType /\ QueueWaits
  BY DEF Acquire, PoolInv, PoolTypeOK
<1>2. CASE Failed(r) /\ UNCHANGED <<busy, waitQueue, doubled>>
  <2>1. /\ req'[r] = Over(req[r]) /\ \A x \in Requests \ {r} : req'[x] = req[x]
        /\ req' \in [Requests -> ReqType]
    BY <1>1, <1>2, MovesOn, OverType DEF Failed
  <2>2. req'[r].pc = "over"
    BY <1>1, <2>1, OverType
  <2>3. \A x \in Requests : Same(x) \/ (req[x].pc \notin Holding \cup {"launch"}
                                         /\ req'[x].pc \notin Holding \cup {"launch"})
    BY <1>1, <2>1, <2>2 DEF Same, Holding
  <2>4. SlotsKnown' /\ \A s \in Slots : SlotOK(s)'
    BY <1>1, <1>2, <2>3, SlotsAlone
  <2>5. QueueWaits'
    BY <1>1, <1>2, <2>1, QueueKept
  <2>. QED  BY <1>1, <1>2, <2>1, <2>4, <2>5 DEF PoolInv, PoolTypeOK
<1>3. CASE /\ free # {} /\ UNCHANGED waitQueue
           /\ Take(r, IF ready # {} THEN Min(ready) ELSE Min(free), req[r])
  <2>1. free \in SUBSET Nat /\ ready \in SUBSET Nat
    BY SlotsAssumption DEF NoSlot
  <2>2. Min(free) \in free /\ (ready # {} => Min(ready) \in ready)
    BY <1>3, <2>1, LeastNumber
  <2>. DEFINE s == IF ready # {} THEN Min(ready) ELSE Min(free)
  <2>3. s \in Slots /\ ~busy[s]
    BY <2>2
  <2>. HIDE DEF s
  <2>4. Take(r, s, req[r])
    BY <1>3 DEF s
  <2>. QED  BY <1>1, <1>3, <2>3, <2>4, TakeStep
<1>4. CASE /\ ~closed /\ Becomes(r, [req[r] EXCEPT !.pc = "wait", !.queued = TRUE])
           /\ waitQueue' = Append(waitQueue, r) /\ UNCHANGED <<busy, doubled>>
  <2>. DEFINE q == [req[r] EXCEPT !.pc = "wait", !.queued = TRUE]
              n == Len(waitQueue)
  <2>1. q \in ReqType /\ q.pc = "wait"
    BY <1>1 DEF ReqType
  <2>2. Becomes(r, q)
    BY <1>4
  <2>. HIDE DEF q
  <2>3. req'[r] = q /\ (\A x \in Requests \ {r} : req'[x] = req[x]) /\ req' \in [Requests -> ReqType]
    BY <2>1, <2>2, MovesOn
  <2>4. \A x \in Requests : Same(x) \/ (req[x].pc \notin Holding \cup {"launch"}
                                         /\ req'[x].pc \notin Holding \cup {"launch"})
    BY <1>1, <2>1, <2>3 DEF Same, Holding
  <2>5. SlotsKnown' /\ \A s \in Slots : SlotOK(s)'
    BY <1>1, <1>4, <2>4, SlotsAlone
  <2>6. /\ waitQueue' \in Seq(Requests) /\ Len(waitQueue') = n + 1 /\ waitQueue'[n + 1] = r
        /\ (\A i \in 1 .. n : waitQueue'[i] = waitQueue[i]) /\ n \in Nat
    BY <1>1, <1>4, AppendProperties, LenProperties DEF PoolTypeOK
  <2>7. \A i \in 1 .. n : waitQueue[i] \in Requests \ {r} /\ req[waitQueue[i]].pc = "wait"
    BY <1>1, ElementOfSeq DEF PoolTypeOK, QueueWaits
  <2>8. \A i, j \in 1 .. n : waitQueue[i] = waitQueue[j] => i = j
    BY <1>1 DEF QueueWaits
  <2>. HIDE DEF n
  <2>9. \A i \in 1 .. n + 1 : i = n + 1 \/ i \in 1 .. n
    BY <2>6
  <2>10. \A i \in 1 .. n + 1 : req'[waitQueue'[i]].pc = "wait"
    BY <2>1, <2>3, <2>6, <2>7, <2>9
  <2>11. \A i, j \in 1 .. n + 1 : waitQueue'[i] = waitQueue'[j] => i = j
    BY <2>6, <2>7, <2>8, <2>9
  <2>12. QueueWaits'
    BY <1>1, <1>4, <2>6, <2>10, <2>11 DEF QueueWaits
  <2>. QED  BY <1>1, <1>4, <2>3, <2>5, <2>6, <2>12 DEF PoolInv, PoolTypeOK
<1>. QED  BY <1>2, <1>3, <1>4 DEF Acquire

\* A launch ends or fails.
LEMMA LaunchStep ==
  ASSUME PoolInv, NEW r \in Requests, LaunchEnds(r) \/ LaunchFails(r)
  PROVE  PoolInv'
<1>0. PICK s \in Slots : s = req[r].slot
  BY DEF LaunchEnds, LaunchFails, PoolInv, SlotsKnown
<1>1. /\ alive /\ req[r].pc = "launch" /\ UNCHANGED <<alive, closed, waitQueue, deaths, doubled>>
      /\ PoolTypeOK /\ req[r] \in ReqType
  BY DEF LaunchEnds, LaunchFails, PoolInv, PoolTypeOK, SlotsKnown
<1>2. PICK q : /\ Becomes(r, q) /\ q \in ReqType
               /\ \/ /\ q.pc = "over" /\ busy' = busy
                     /\ browser' = browser \/ browser' = [browser EXCEPT ![s] = TRUE]
                  \/ /\ q.pc = "context" /\ q.slot = s
                     /\ busy' = [busy EXCEPT ![s] = TRUE]
                     /\ browser' = [browser EXCEPT ![s] = TRUE]
  <2>1. CASE Failed(r) /\ busy' = busy
    BY <1>0, <1>1, <2>1, OverType DEF Failed, LaunchEnds, LaunchFails
  <2>2. CASE /\ Becomes(r, [req[r] EXCEPT !.pc = "context"])
             /\ busy' = [busy EXCEPT ![s] = TRUE] /\ browser' = [browser EXCEPT ![s] = TRUE]
    <3>. DEFINE p == [req[r] EXCEPT !.pc = "context"]
    <3>1. p \in ReqType /\ p.pc = "context" /\ p.slot = s
      BY <1>0, <1>1 DEF ReqType, Holding
    <3>2. Becomes(r, p)
      BY <2>2
    <3>. HIDE DEF p
    <3>. QED  BY <2>2, <3>1, <3>2
  <2>. QED  BY <1>0, <2>1, <2>2 DEF LaunchEnds, LaunchFails
<1>3. req'[r] = q /\ (\A x \in Requests \ {r} : req'[x] = req[x]) /\ req' \in [Requests -> ReqType]
  BY <1>2, MovesOn
<1>4. PoolTypeOK'
  BY <1>1, <1>2, <1>3 DEF PoolTypeOK
<1>5. SlotsKnown'
  BY <1>0, <1>1, <1>2, <1>3 DEF PoolInv, SlotsKnown, Holding
<1>6. QueueWaits'
  BY <1>1, <1>3, QueueKept
<1>7. ASSUME NEW t \in Slots, t # s
      PROVE  SlotOK(t)'
  <2>1. Serving(t)' = Serving(t) /\ Launching(t)' = Launching(t)
    BY <1>0, <1>1, <1>2, <1>3, <1>7 DEF Serving, Launching
  <2>2. busy'[t] = busy[t] /\ browser'[t] = browser[t]
    BY <1>1, <1>2, <1>7 DEF PoolTypeOK
  <2>. QED  BY <1>1, <2>1, <2>2, SlotKept DEF PoolInv
<1>8. SlotOK(s)'
  <2>1. SlotOK(s) /\ r \in Launching(s)
    BY <1>0, <1>1 DEF PoolInv, Launching
  <2>2. CASE q.pc = "over"
    <3>1. Serving(s)' = Serving(s) /\ Launching(s)' = Launching(s) \ {r} /\ busy' = busy
      BY <1>0, <1>1, <1>2, <1>3, <2>2 DEF Serving, Launching
    <3>2. s \notin doubled => Launching(s) = {r} /\ Serving(s) = {}
      <4>1. r \notin Serving(s)
        BY <1>1 DEF Serving
      <4>. QED  BY <2>1, <4>1 DEF SlotOK
    <3>. QED  BY <1>1, <2>1, <3>1, <3>2 DEF SlotOK
  <2>3. CASE q.pc = "context"
    <3>1. Serving(s)' = Serving(s) \cup {r} /\ Launching(s)' = Launching(s) \ {r}
      BY <1>0, <1>1, <1>2, <1>3, <2>3 DEF Serving, Launching
    <3>2. busy'[s] = TRUE
      BY <1>1, <1>2, <2>3 DEF PoolTypeOK
    <3>. QED  BY <1>1, <2>1, <3>1, <3>2 DEF SlotOK
  <2>. QED  BY <1>2, <2>2, <2>3
<1>. QED  BY <1>4, <1>5, <1>6, <1>7, <1>8 DEF PoolInv
\* A slot is free again, or the head of the queue gets it.
LEMMA HandOnStep ==
  ASSUME PoolInv, NEW r \in Requests, ContextFails(r) \/ Release(r)
  PROVE  PoolInv'
<1>0. PICK s \in Slots : s = req[r].slot
  BY DEF ContextFails, Release, PoolInv, SlotsKnown, Holding
<1>1. /\ alive /\ req[r].pc \in {"context", "closing"}
      /\ UNCHANGED <<alive, closed, browser, deaths>> /\ HandOn(r, Over(req[r]))
      /\ PoolTypeOK /\ req[r] \in ReqType /\ QueueWaits /\ SlotOK(s)
  BY DEF ContextFails, Release, PoolInv, PoolTypeOK
<1>2. PICK q \in ReqType : q = Over(req[r]) /\ q.pc = "over"
  BY <1>1, OverType
<1>3. r \in Serving(s)
  BY <1>0, <1>1 DEF Serving
<1>4. s \notin doubled => Serving(s) = {r} /\ Launching(s) = {}
  <2>1. r \notin Launching(s)
    BY <1>1 DEF Launching
  <2>. QED  BY <1>1, <1>3, <2>1 DEF SlotOK
<1>5. CASE closed \/ waitQueue = << >>
  <2>1. /\ Becomes(r, q) /\ busy' = [busy EXCEPT ![s] = FALSE] /\ UNCHANGED <<waitQueue, doubled>>
    BY <1>0, <1>1, <1>2, <1>5 DEF HandOn, Becomes
  <2>2. req'[r] = q /\ (\A x \in Requests \ {r} : req'[x] = req[x]) /\ req' \in [Requests -> ReqType]
    BY <1>2, <2>1, MovesOn
  <2>3. PoolTypeOK'
    BY <1>1, <2>1, <2>2 DEF PoolTypeOK
  <2>4. SlotsKnown'
    BY <1>2, <2>2 DEF PoolInv, SlotsKnown, Holding
  <2>5. QueueWaits'
    BY <1>1, <2>1, <2>2, QueueKept
  <2>6. ASSUME NEW t \in Slots, t # s
        PROVE  SlotOK(t)'
    <3>1. Serving(t)' = Serving(t) /\ Launching(t)' = Launching(t)
      BY <1>0, <1>1, <1>2, <2>2, <2>6 DEF Serving, Launching
    <3>2. busy'[t] = busy[t]
      BY <1>1, <2>1, <2>6 DEF PoolTypeOK
    <3>. QED  BY <1>1, <2>1, <3>1, <3>2, SlotKept DEF PoolInv
  <2>7. SlotOK(s)'
    <3>1. Serving(s)' = Serving(s) \ {r} /\ Launching(s)' = Launching(s)
      BY <1>0, <1>1, <1>2, <2>2 DEF Serving, Launching
    <3>2. busy'[s] = FALSE
      BY <1>1, <2>1 DEF PoolTypeOK
    <3>. QED  BY <1>4, <2>1, <3>1, <3>2 DEF SlotOK
  <2>. QED  BY <2>3, <2>4, <2>5, <2>6, <2>7 DEF PoolInv
<1>6. CASE ~closed /\ waitQueue # << >>
  <2>1. PICK w \in Requests : w = Head(waitQueue) /\ req[w].pc = "wait" /\ w # r
    <3>1. Len(waitQueue) >= 1 /\ Head(waitQueue) = waitQueue[1] /\ waitQueue[1] \in Requests
      BY <1>1, <1>6, HeadTailProperties, EmptySeq, LenProperties, ElementOfSeq DEF PoolTypeOK
    <3>2. 1 \in 1 .. Len(waitQueue)
      BY <3>1, LenProperties, <1>1 DEF PoolTypeOK
    <3>. QED  BY <1>1, <3>1, <3>2 DEF QueueWaits
  <2>. DEFINE rest == [req EXCEPT ![r] = q]
              p == Claimed(req[w], s)
  <2>2. /\ req' = [rest EXCEPT ![w] = Claimed(@, s)]
        /\ busy' = [busy EXCEPT ![s] = browser[s]]
        /\ waitQueue' = Tail(waitQueue)
        /\ doubled' = IF ~browser[s] /\ Launching(s) # {} THEN doubled \cup {s} ELSE doubled
    BY <1>0, <1>1, <1>2, <1>6, <2>1 DEF HandOn
  <2>3. rest \in [Requests -> ReqType] /\ rest[w] = req[w] /\ rest[r] = q
        /\ \A x \in Requests \ {r} : rest[x] = req[x]
    BY <1>1, <2>1 DEF PoolTypeOK
  <2>4. /\ p \in ReqType /\ p.slot = s
        /\ browser[s] => p.pc = "context"
        /\ ~browser[s] => p.pc = "launch"
    BY <1>1, <2>1, ClaimedType DEF PoolTypeOK
  <2>. HIDE DEF rest
  <2>5. req' = [rest EXCEPT ![w] = p]
    BY <2>2, <2>3
  <2>. HIDE DEF p
  <2>6. /\ req' \in [Requests -> ReqType] /\ req'[w] = p /\ req'[r] = q
        /\ \A x \in Requests \ {r, w} : req'[x] = req[x]
    BY <2>1, <2>3, <2>4, <2>5
  <2>7. PoolTypeOK'
    <3>1. waitQueue' \in Seq(Requests)
      BY <1>1, <1>6, <2>2, HeadTailProperties DEF PoolTypeOK
    <3>. QED  BY <1>1, <2>2, <2>6, <3>1 DEF PoolTypeOK
  <2>8. SlotsKnown'
    BY <1>2, <2>4, <2>6 DEF PoolInv, SlotsKnown, Holding
  <2>9. QueueWaits'
    <3>. DEFINE n == Len(waitQueue)
    <3>1. /\ n \in Nat /\ n >= 1 /\ Len(waitQueue') = n - 1 /\ w = waitQueue[1]
          /\ \A i \in 1 .. n - 1 : waitQueue'[i] = waitQueue[i + 1]
      BY <1>1, <1>6, <2>1, <2>2, HeadTailProperties, EmptySeq, LenProperties DEF PoolTypeOK
    <3>2. /\ \A i \in 1 .. n : waitQueue[i] \in Requests /\ req[waitQueue[i]].pc = "wait"
          /\ \A i, j \in 1 .. n : waitQueue[i] = waitQueue[j] => i = j
      BY <1>1, ElementOfSeq DEF PoolTypeOK, QueueWaits
    <3>. HIDE DEF n
    <3>3. ASSUME NEW i \in 1 .. n - 1
          PROVE  req'[waitQueue'[i]].pc = "wait"
      <4>1. i + 1 \in 1 .. n /\ 1 \in 1 .. n /\ i + 1 # 1
        BY <3>1
      <4>2. waitQueue[i + 1] # w /\ waitQueue[i + 1] # r
        BY <1>1, <3>1, <3>2, <4>1
      <4>. QED  BY <2>6, <3>1, <3>2, <4>1, <4>2
    <3>4. ASSUME NEW i \in 1 .. n - 1, NEW j \in 1 .. n - 1, waitQueue'[i] = waitQueue'[j]
          PROVE  i = j
      <4>1. i + 1 \in 1 .. n /\ j + 1 \in 1 .. n
        BY <3>1
      <4>2. i + 1 = j + 1
        BY <3>1, <3>2, <3>4, <4>1
      <4>. QED  BY <4>2
    <3>. QED  BY <1>1, <1>6, <3>1, <3>3, <3>4 DEF QueueWaits
  <2>10. ASSUME NEW t \in Slots, t # s
         PROVE  SlotOK(t)'
    <3>1. req[w].pc \notin Holding \cup {"launch"}
      BY <2>1 DEF Holding
    <3>2. Serving(t)' = Serving(t) /\ Launching(t)' = Launching(t)
      BY <1>0, <1>1, <1>2, <2>4, <2>6, <2>10, <3>1 DEF Serving, Launching, Holding
    <3>3. busy'[t] = busy[t]
      BY <1>1, <2>2, <2>10 DEF PoolTypeOK
    <3>. QED  BY <1>1, <2>2, <3>2, <3>3, SlotKept DEF PoolInv
  <2>11. SlotOK(s)'
    <3>1. CASE browser[s]
      <4>1. Serving(s)' = (Serving(s) \ {r}) \cup {w} /\ Launching(s)' = Launching(s)
        BY <1>0, <1>1, <1>2, <2>1, <2>4, <2>6, <3>1 DEF Serving, Launching
      <4>2. busy'[s] = TRUE
        BY <1>1, <2>2, <3>1 DEF PoolTypeOK
      <4>. QED  BY <1>1, <1>4, <2>2, <3>1, <4>1, <4>2 DEF SlotOK
    <3>2. CASE ~browser[s]
      <4>1. Serving(s)' = Serving(s) \ {r} /\ Launching(s)' = Launching(s) \cup {w}
        BY <1>0, <1>1, <1>2, <2>1, <2>4, <2>6, <3>2 DEF Serving, Launching
      <4>2. busy'[s] = FALSE
        BY <1>1, <2>2, <3>2 DEF PoolTypeOK
      <4>. QED  BY <1>1, <1>4, <2>2, <3>2, <4>1, <4>2 DEF SlotOK
    <3>. QED  BY <3>1, <3>2
  <2>. QED  BY <2>7, <2>8, <2>9, <2>10, <2>11 DEF PoolInv
<1>. QED  BY <1>5, <1>6

\* A context is there, or a page has been searched: the slot stays taken.
LEMMA HoldStep ==
  ASSUME PoolInv, NEW r \in Requests, ContextMade(r) \/ SearchPage(r)
  PROVE  PoolInv'
<1>1. /\ UNCHANGED <<alive, closed, browser, busy, waitQueue, deaths, doubled>>
      /\ PoolTypeOK /\ req[r] \in ReqType /\ req[r].pc \in {"context", "hold"}
  BY DEF ContextMade, SearchPage, PoolInv, PoolTypeOK
<1>2. PICK q \in ReqType : Becomes(r, q) /\ q.pc \in Holding /\ q.slot = req[r].slot
  <2>1. CASE ContextMade(r)
    <3>. DEFINE pc == IF req[r].answered THEN "lost" ELSE "hold"
                q == [req[r] EXCEPT !.pc = pc]
    <3>1. pc \in Holding
      BY DEF Holding
    <3>2. Becomes(r, q)
      BY <2>1 DEF ContextMade
    <3>. HIDE DEF pc
    <3>3. q \in ReqType /\ q.pc = pc /\ q.slot = req[r].slot
      BY <1>1, <3>1 DEF ReqType
    <3>. QED  BY <3>1, <3>2, <3>3
  <2>2. CASE SearchPage(r)
    <3>1. PICK ok \in BOOLEAN : Becomes(r, [req[r] EXCEPT !.pc = "closing", !.ok = ok])
      BY <2>2 DEF SearchPage
    <3>. DEFINE q == [req[r] EXCEPT !.pc = "closing", !.ok = ok]
    <3>2. q \in ReqType /\ q.pc \in Holding /\ q.slot = req[r].slot
      BY <1>1 DEF ReqType, Holding
    <3>. QED  BY <3>1, <3>2
  <2>. QED  BY <2>1, <2>2
<1>3. req'[r] = q /\ (\A x \in Requests \ {r} : req'[x] = req[x]) /\ req' \in [Requests -> ReqType]
  BY <1>2, MovesOn
<1>4. \A x \in Requests : Same(x)
  BY <1>1, <1>2, <1>3 DEF Same, Holding
<1>5. SlotsKnown' /\ \A s \in Slots : SlotOK(s)'
  BY <1>1, <1>4, SlotsAlone
<1>6. QueueWaits'
  BY <1>1, <1>3, QueueKept
<1>. QED  BY <1>1, <1>3, <1>5, <1>6 DEF PoolInv, PoolTypeOK

\* A request gives up: it leaves the queue, or its checkout goes on.
LEMMA GiveUpStep ==
  ASSUME PoolInv, NEW r \in Requests, GiveUp(r)
  PROVE  PoolInv'
<1>1. /\ UNCHANGED <<alive, closed, browser, busy, deaths, doubled>>
      /\ PoolTypeOK /\ req[r] \in ReqType /\ req[r].pc \in {"wait", "launch", "context", "hold"}
      /\ waitQueue' = RemoveFirst(waitQueue, r)
  BY DEF GiveUp, PoolInv, PoolTypeOK
<1>2. PICK q \in ReqType :
        /\ Becomes(r, q)
        /\ IF req[r].pc = "wait" THEN q.pc = "over"
           ELSE q.pc = req[r].pc /\ q.slot = req[r].slot
  <2>1. CASE req[r].pc = "wait"
    BY <1>1, <2>1, OverType DEF GiveUp
  <2>2. CASE req[r].pc # "wait"
    <3>. DEFINE late == req[r].answered \/ (req[r].queued /\ req[r].pc # "hold")
                q == [req[r] EXCEPT !.aborted = TRUE, !.answered = late]
    <3>1. late \in BOOLEAN
      BY <1>1 DEF ReqType
    <3>2. Becomes(r, q)
      BY <1>1, <2>2 DEF GiveUp, ReqType
    <3>. HIDE DEF late
    <3>3. q \in ReqType /\ q.pc = req[r].pc /\ q.slot = req[r].slot
      BY <1>1, <3>1 DEF ReqType
    <3>. QED  BY <2>2, <3>2, <3>3
  <2>. QED  BY <2>1, <2>2
<1>3. req'[r] = q /\ (\A x \in Requests \ {r} : req'[x] = req[x]) /\ req' \in [Requests -> ReqType]
  BY <1>2, MovesOn
<1>4. \A x \in Requests : Same(x) \/ (req[x].pc \notin Holding \cup {"launch"}
                                       /\ req'[x].pc \notin Holding \cup {"launch"})
  BY <1>1, <1>2, <1>3 DEF Same, Holding
<1>5. SlotsKnown' /\ \A s \in Slots : SlotOK(s)'
  BY <1>1, <1>4, SlotsAlone
<1>6. /\ waitQueue' \in Seq(Requests)
      /\ \A i \in 1 .. Len(waitQueue') :
            waitQueue'[i] # r /\ \E j \in 1 .. Len(waitQueue) : waitQueue'[i] = waitQueue[j]
      /\ \A i, j \in 1 .. Len(waitQueue') : waitQueue'[i] = waitQueue'[j] => i = j
  <2>1. waitQueue \in Seq(Requests)
        /\ \A i, j \in 1 .. Len(waitQueue) : waitQueue[i] = waitQueue[j] => i = j
    BY DEF PoolInv, PoolTypeOK, QueueWaits
  <2>. QED  BY <1>1, <2>1, Leaves
<1>7. QueueWaits'
  <2>1. ASSUME NEW i \in 1 .. Len(waitQueue')
        PROVE  req'[waitQueue'[i]].pc = "wait"
    <3>1. PICK j \in 1 .. Len(waitQueue) : waitQueue'[i] = waitQueue[j]
      BY <1>6
    <3>2. waitQueue[j] \in Requests /\ req[waitQueue[j]].pc = "wait"
      BY ElementOfSeq DEF PoolInv, PoolTypeOK, QueueWaits
    <3>. QED  BY <1>3, <1>6, <3>1, <3>2
  <2>2. closed => waitQueue' = << >>
    <3>. SUFFICES ASSUME closed PROVE waitQueue' = << >>
      OBVIOUS
    <3>1. waitQueue = << >>
      BY DEF PoolInv, QueueWaits
    <3>2. ~ \E i \in 1 .. Len(waitQueue') : TRUE
      BY <1>6, <3>1, EmptySeq
    <3>3. Len(waitQueue') = 0
      BY <1>6, <3>2, LenProperties
    <3>. QED  BY <1>6, <3>3, EmptySeq
  <2>. QED  BY <1>1, <1>6, <2>1, <2>2 DEF QueueWaits
<1>. QED  BY <1>1, <1>3, <1>5, <1>6, <1>7 DEF PoolInv, PoolTypeOK

\* A browser dies, the pool is closed, its process ends.
LEMMA CloseStep ==
  ASSUME PoolInv, (\E s \in Slots : BrowserDies(s) \/ IdleClose(s)) \/ CloseAll \/ Exit
  PROVE  PoolInv'
<1>1. PoolTypeOK /\ \A r \in Requests : req[r] \in ReqType
  BY DEF PoolInv, PoolTypeOK
<1>2. CASE \E s \in Slots : BrowserDies(s) \/ IdleClose(s)
  <2>1. PICK s \in Slots : BrowserDies(s)
    BY <1>2 DEF IdleClose
  <2>2. /\ UNCHANGED <<alive, closed, busy, waitQueue, req, doubled>>
        /\ browser' = [browser EXCEPT ![s] = FALSE]
    BY <2>1 DEF BrowserDies
  <2>3. \A t \in Slots : browser'[t] = browser[t] \/ browser'[t] = FALSE
    BY <1>1, <2>2 DEF PoolTypeOK
  <2>4. SlotsKnown' /\ \A t \in Slots : SlotOK(t)'
    BY <2>2, <2>3, SlotsAlone DEF Same
  <2>5. QueueWaits'
    BY <2>2, QueueKept
  <2>. QED  BY <1>1, <2>2, <2>4, <2>5 DEF PoolInv, PoolTypeOK
<1>3. CASE CloseAll
  <2>1. /\ UNCHANGED <<alive, busy, doubled>> /\ closed' = TRUE /\ waitQueue' = << >>
        /\ browser' = [s \in Slots |-> FALSE]
        /\ req' = [r \in Requests |-> IF req[r].pc = "wait" THEN Over(req[r]) ELSE req[r]]
    BY <1>3 DEF CloseAll
  <2>2. \A r \in Requests : Over(req[r]) \in ReqType /\ Over(req[r]).pc = "over"
    BY <1>1, OverType
  <2>3. /\ req' \in [Requests -> ReqType]
        /\ \A r \in Requests : Same(r) \/ (req[r].pc \notin Holding \cup {"launch"}
                                             /\ req'[r].pc \notin Holding \cup {"launch"})
    BY <1>1, <2>1, <2>2 DEF Same, Holding
  <2>4. SlotsKnown' /\ \A s \in Slots : SlotOK(s)'
    BY <2>1, <2>3, SlotsAlone
  <2>5. QueueWaits' /\ waitQueue' \in Seq(Requests)
    BY <2>1, EmptySeq DEF QueueWaits
  <2>6. browser' \in [Slots -> BOOLEAN]
    BY <2>1
  <2>. QED  BY <1>1, <2>1, <2>3, <2>4, <2>5, <2>6 DEF PoolInv, PoolTypeOK
<1>4. CASE Exit
  <2>1. /\ UNCHANGED <<closed, browser, busy, waitQueue, doubled>> /\ alive' = FALSE
        /\ req' = [r \in Requests |-> IF req[r].pc \in {"idle", "over"} THEN req[r] ELSE Over(req[r])]
    BY <1>4 DEF Exit
  <2>2. \A r \in Requests : Over(req[r]) \in ReqType /\ Over(req[r]).pc = "over"
    BY <1>1, OverType
  <2>3. req' \in [Requests -> ReqType] /\ \A r \in Requests : req'[r].pc \in {"idle", "over"}
    BY <1>1, <2>1, <2>2
  <2>4. \A s \in Slots : Serving(s)' = {} /\ Launching(s)' = {}
    BY <2>3 DEF Serving, Launching
  <2>5. SlotsKnown' /\ \A s \in Slots : SlotOK(s)'
    BY <2>1, <2>3, <2>4 DEF SlotsKnown, SlotOK, Holding
  <2>6. QueueWaits'
    BY <1>4, <2>1, EmptySeq DEF Exit, PoolInv, QueueWaits
  <2>. QED  BY <1>1, <2>1, <2>3, <2>5, <2>6 DEF PoolInv, PoolTypeOK
<1>. QED  BY <1>2, <1>3, <1>4
-----------------------------------------------------------------------------
(* The settings page.                                                      *)

WriterType == [limit : Limits, step : {"start", "temp", "done", "dead"}]

FormType == [pc : {"idle", "settings", "secrets", "grant"}, limit : Limits \cup {DefaultLimit, Missing},
             typed : SUBSET Secrets, changes : SUBSET Secrets, asked : SUBSET Secrets,
             key : Secrets \cup {None}, known : SUBSET Secrets, cleared : BOOLEAN,
             status : {"", "error", "saving", "saved", "cleared"}]

SettingsTypeOK ==
  /\ form \in FormType /\ file \in Limits \cup {Missing} /\ writers \subseteq WriterType
  /\ stored \subseteq Secrets /\ granted \subseteq Secrets
  /\ form.pc = "grant" => form.key \in Secrets

Readable == stored \cap granted

\* Unless a secret was cleared meanwhile, what a save was asked for is still to be
\* saved, or stored and about to be granted, or readable.
Underway ==
  ~form.cleared =>
    /\ form.pc = "settings" => form.asked = {}
    /\ form.pc = "secrets" => form.asked \ form.changes \subseteq Readable
    /\ form.pc = "grant" =>
         form.key \in stored /\ form.asked \ (form.changes \cup {form.key}) \subseteq Readable
    /\ form.status = "saved" => form.pc = "idle" /\ form.asked \subseteq Readable

SettingsInv == SettingsTypeOK /\ Underway

\* Steps of others.
LEMMA SettingsKept ==
  ASSUME SettingsInv, UNCHANGED <<fileVars, secretVars, form>>
  PROVE  SettingsInv'
BY DEF SettingsInv, SettingsTypeOK, Underway, Readable, fileVars, secretVars

\* The file is renamed into place.
LEMMA WriterStep ==
  ASSUME SettingsInv, NEW w \in writers, WriteFile(w) \/ RenameFile(w) \/ WriterDies(w)
  PROVE  SettingsInv'
<1>1. w.limit \in Limits /\ file' \in {file, w.limit}
  BY DEF WriteFile, RenameFile, WriterDies, Agent, SettingsInv, SettingsTypeOK, WriterType
<1>2. UNCHANGED <<stored, granted, form>>
  BY DEF WriteFile, RenameFile, WriterDies, Agent, secretVars, pageVars
<1>3. PICK step \in {"temp", "done", "dead"} : writers' = (writers \ {w}) \cup {Writer(w.limit, step)}
  BY DEF WriteFile, RenameFile, WriterDies, Agent
<1>4. Writer(w.limit, step) \in WriterType
  BY <1>1 DEF Writer, WriterType
<1>5. file' \in Limits \cup {Missing} /\ writers' \subseteq WriterType
  BY <1>1, <1>3, <1>4 DEF SettingsInv, SettingsTypeOK
<1>. QED  BY <1>2, <1>5 DEF SettingsInv, SettingsTypeOK, Underway, Readable

\* The page reads the settings, or an input is typed into, or a save begins.
LEMMA FormStep ==
  ASSUME SettingsInv, ReloadSettings \/ (\E k \in Secrets : TypeSecret(k))
                        \/ (\E l \in Limits : SaveSettings(l))
  PROVE  SettingsInv'
<1>1. form \in FormType /\ Setting \in Limits \cup {DefaultLimit, Missing}
  BY DEF SettingsInv, SettingsTypeOK, Setting
<1>2. UNCHANGED <<file, stored, granted>>
  BY DEF ReloadSettings, TypeSecret, SaveSettings, Page, Agent, fileVars, secretVars
<1>3. CASE ReloadSettings
  <2>1. /\ form.pc = "idle" /\ UNCHANGED writers
        /\ \/ form' = [form EXCEPT !.limit = Setting, !.status = ""]
           \/ form' = [form EXCEPT !.status = "error"]
    BY <1>3 DEF ReloadSettings, Page, Agent, fileVars
  <2>2. /\ form' \in FormType /\ form'.pc = "idle" /\ form'.status # "saved"
        /\ form'.cleared = form.cleared
    BY <1>1, <2>1 DEF FormType
  <2>. QED  BY <1>2, <2>1, <2>2 DEF SettingsInv, SettingsTypeOK, Underway
<1>4. CASE \E k \in Secrets : TypeSecret(k)
  <2>1. PICK k \in Secrets : form' = [form EXCEPT !.typed = @ \cup {k}] /\ UNCHANGED writers
    BY <1>4 DEF TypeSecret, Page, Agent, fileVars
  <2>2. /\ form' \in FormType /\ form'.pc = form.pc /\ form'.status = form.status
        /\ form'.cleared = form.cleared /\ form'.asked = form.asked
        /\ form'.changes = form.changes /\ form'.key = form.key
    BY <1>1, <2>1 DEF FormType
  <2>. QED  BY <1>2, <2>1, <2>2 DEF SettingsInv, SettingsTypeOK, Underway, Readable
<1>5. CASE \E l \in Limits : SaveSettings(l)
  <2>1. PICK l \in Limits :
          /\ writers' = {w \in writers : w.step \notin {"done", "dead"}} \cup {Writer(l, "start")}
          /\ form' = [form EXCEPT !.pc = "settings", !.limit = l, !.status = "saving",
                                  !.cleared = FALSE, !.asked = {}]
    BY <1>5 DEF SaveSettings, Page, Agent
  <2>2. /\ form' \in FormType /\ form'.pc = "settings" /\ form'.status = "saving"
        /\ form'.asked = {}
    BY <1>1, <2>1 DEF FormType
  <2>3. Writer(l, "start") \in WriterType
    BY DEF Writer, WriterType
  <2>4. writers' \subseteq WriterType
    BY <2>1, <2>3 DEF SettingsInv, SettingsTypeOK
  <2>. QED  BY <1>2, <2>2, <2>4 DEF SettingsInv, SettingsTypeOK, Underway
<1>. QED  BY <1>3, <1>4, <1>5

\* A step of the save fails.
LEMMA FailStep ==
  ASSUME SettingsInv, Fail, UNCHANGED <<fileVars, secretVars>>
  PROVE  SettingsInv'
<1>1. form \in FormType /\ form' = [form EXCEPT !.pc = "idle", !.status = "error"]
  BY DEF SettingsInv, SettingsTypeOK, Fail
<1>2. form' \in FormType /\ form'.pc = "idle" /\ form'.status = "error"
  BY <1>1 DEF FormType
<1>. QED  BY <1>2 DEF SettingsInv, SettingsTypeOK, Underway, fileVars, secretVars

\* A save goes on: its changes are collected, stored and granted one by one.
LEMMA SaveStep ==
  ASSUME SettingsInv, SettingsSaved \/ PutSecret \/ GrantSecret \/ Saved
  PROVE  SettingsInv'
<1>1. form \in FormType /\ Underway /\ UNCHANGED fileVars
  BY DEF SettingsInv, SettingsTypeOK, SettingsSaved, PutSecret, GrantSecret, Saved, Page, Agent
<1>2. CASE Fail /\ UNCHANGED secretVars
  BY <1>1, <1>2, FailStep
<1>3. CASE SettingsSaved /\ ~Fail
  <2>1. /\ form.pc = "settings" /\ UNCHANGED secretVars
        /\ form' = [form EXCEPT !.pc = "secrets", !.changes = form.typed, !.asked = form.typed]
    BY <1>3 DEF SettingsSaved, Page, Agent
  <2>2. /\ form' \in FormType /\ form'.pc = "secrets" /\ form'.changes = form.typed
        /\ form'.asked = form.typed /\ form'.status = form.status /\ form'.cleared = form.cleared
    BY <1>1, <2>1 DEF FormType
  <2>. QED  BY <1>1, <2>1, <2>2 DEF SettingsInv, SettingsTypeOK, Underway, fileVars, secretVars
<1>4. CASE PutSecret /\ ~ (Fail /\ UNCHANGED stored)
  <2>1. PICK k \in form.changes :
          /\ form.pc = "secrets" /\ stored' = stored \cup {k} /\ granted' = granted
          /\ form' = [form EXCEPT !.pc = "grant", !.changes = @ \ {k}, !.key = k]
    BY <1>4 DEF PutSecret, Page, Agent
  <2>2. k \in Secrets
    BY <1>1 DEF FormType
  <2>3. /\ form' \in FormType /\ form'.pc = "grant" /\ form'.changes = form.changes \ {k}
        /\ form'.key = k /\ form'.asked = form.asked
        /\ form'.status = form.status /\ form'.cleared = form.cleared
    BY <1>1, <2>1, <2>2 DEF FormType
  <2>. QED  BY <1>1, <2>1, <2>2, <2>3 DEF SettingsInv, SettingsTypeOK, Underway, Readable, fileVars
<1>5. CASE GrantSecret /\ ~ (Fail /\ UNCHANGED granted)
  <2>1. /\ form.pc = "grant" /\ granted' = granted \cup {form.key} /\ stored' = stored
        /\ form' = [form EXCEPT !.pc = "secrets", !.key = None]
    BY <1>5 DEF GrantSecret, Grants, Page, Agent
  <2>2. /\ form' \in FormType /\ form'.pc = "secrets" /\ form'.changes = form.changes
        /\ form'.asked = form.asked
        /\ form'.status = form.status /\ form'.cleared = form.cleared
    BY <1>1, <2>1 DEF FormType
  <2>. QED  BY <1>1, <2>1, <2>2 DEF SettingsInv, SettingsTypeOK, Underway, Readable, fileVars
<1>6. CASE Saved
  <2>1. PICK status \in {"saved", "error"} :
          /\ form.pc = "secrets" /\ form.changes = {} /\ UNCHANGED secretVars
          /\ form' = [form EXCEPT !.pc = "idle", !.typed = {}, !.known = stored, !.status = status]
    BY <1>6 DEF Saved, Page, Agent
  <2>2. /\ form' \in FormType /\ form'.pc = "idle" /\ form'.asked = form.asked
        /\ form'.cleared = form.cleared
    BY <1>1, <2>1 DEF FormType, SettingsInv, SettingsTypeOK
  <2>. QED  BY <1>1, <2>1, <2>2 DEF SettingsInv, SettingsTypeOK, Underway, Readable, fileVars,
            secretVars
<1>. QED  BY <1>2, <1>3, <1>4, <1>5, <1>6
     DEF SettingsSaved, PutSecret, GrantSecret, Page, Agent, secretVars

\* A secret is cleared, which the page remembers.
LEMMA ClearStep ==
  ASSUME SettingsInv, NEW k \in Secrets, ClearSecret(k)
  PROVE  SettingsInv'
<1>1. form \in FormType /\ UNCHANGED fileVars
  BY DEF SettingsInv, SettingsTypeOK, ClearSecret, Page, Agent
<1>2. CASE /\ stored' = stored \ {k} /\ granted' = granted \ {k}
           /\ form' = [form EXCEPT !.typed = @ \ {k}, !.known = @ \ {k}, !.status = "cleared",
                                   !.cleared = TRUE]
  <2>1. form' \in FormType /\ form'.cleared = TRUE
    BY <1>1, <1>2 DEF FormType
  <2>. QED  BY <1>1, <1>2, <2>1 DEF SettingsInv, SettingsTypeOK, Underway, fileVars
<1>3. CASE form' = [form EXCEPT !.status = "error"] /\ UNCHANGED secretVars
  <2>1. /\ form' \in FormType /\ form'.pc = form.pc /\ form'.status = "error"
        /\ form'.cleared = form.cleared /\ form'.asked = form.asked
        /\ form'.changes = form.changes /\ form'.key = form.key
    BY <1>1, <1>3 DEF FormType
  <2>. QED  BY <1>1, <1>3, <2>1 DEF SettingsInv, SettingsTypeOK, Underway, Readable, fileVars,
            secretVars
<1>. QED  BY <1>2, <1>3 DEF ClearSecret, Page, Agent

-----------------------------------------------------------------------------
(* The theorems.                                                           *)

\* The pool at its start.
LEMMA PoolBegins == PoolInit => PoolInv
<1>. SUFFICES ASSUME PoolInit PROVE PoolInv
  OBVIOUS
<1>1. PoolTypeOK
  BY EmptySeq DEF PoolInit, PoolTypeOK, ReqType, Holding
<1>2. \A r \in Requests : req[r].pc = "idle"
  BY DEF PoolInit
<1>3. \A s \in Slots : Serving(s) = {} /\ Launching(s) = {} /\ busy[s] = FALSE
  BY <1>2 DEF PoolInit, Serving, Launching
<1>4. QueueWaits
  BY EmptySeq DEF PoolInit, QueueWaits
<1>. QED  BY <1>1, <1>2, <1>3, <1>4 DEF PoolInv, SlotsKnown, SlotOK, Holding

\* The pool is where it was.
LEMMA PoolKept ==
  ASSUME PoolInv, UNCHANGED poolVars
  PROVE  PoolInv'
BY DEF poolVars, PoolInv, PoolTypeOK, SlotsKnown, QueueWaits, SlotOK, Serving, Launching

\* The agent and its pool at their start.
LEMMA Begins == Init => PoolInv /\ SettingsInv
<1>. SUFFICES ASSUME Init PROVE PoolInv /\ SettingsInv
  OBVIOUS
<1>1. file \in Limits \cup {Missing} /\ stored \subseteq Secrets /\ granted \subseteq Secrets
  BY DEF Init
<1>2. form \in FormType /\ form.status = "" /\ form.pc = "idle"
  BY <1>1 DEF Init, FormType
<1>. QED  BY <1>1, <1>2, PoolBegins DEF Init, SettingsInv, SettingsTypeOK, Underway

\* Every step of the pool keeps its invariant, and every other leaves it alone.
LEMMA PoolStays == PoolInv /\ [Next]_vars => PoolInv'
<1>. SUFFICES ASSUME PoolInv, [Next]_vars PROVE PoolInv'
  OBVIOUS
<1>1. CASE \E r \in Requests : Acquire(r)
  BY <1>1, AcquireStep
<1>2. CASE PoolNext
  BY <1>2, LaunchStep, HandOnStep, HoldStep, GiveUpStep, CloseStep DEF PoolNext, PoolStep
<1>3. CASE UNCHANGED poolVars
  BY <1>3, PoolKept
<1>4. ASSUME NEW r \in Requests, SearchStep(r)
      PROVE  Acquire(r) \/ UNCHANGED poolVars
  BY <1>4 DEF SearchStep, LoadSecret, CallProviders, Finish, AskPool, PoolAnswers,
     ProviderAnswers, ProviderFails, Agent
<1>5. CASE ReloadSettings \/ SettingsSaved \/ PutSecret \/ GrantSecret \/ Saved
  BY <1>3, <1>5 DEF ReloadSettings, SettingsSaved, PutSecret, GrantSecret, Saved, Page, Agent
<1>6. CASE (\E k \in Secrets : TypeSecret(k) \/ ClearSecret(k)) \/ \E l \in Limits : SaveSettings(l)
  BY <1>3, <1>6 DEF TypeSecret, ClearSecret, SaveSettings, Page, Agent
<1>7. CASE \E w \in writers : WriteFile(w) \/ RenameFile(w) \/ WriterDies(w)
  BY <1>3, <1>7 DEF WriteFile, RenameFile, WriterDies, Agent
<1>8. CASE \E r \in Requests : PoolTimeout(r) \/ \E p \in Models : Ask(r, p)
  BY <1>3, <1>8 DEF PoolTimeout, Ask, Agent
<1>9. CASE UNCHANGED vars
  BY <1>3, <1>9 DEF vars
<1>. QED  BY <1>1, <1>2, <1>3, <1>4, <1>5, <1>6, <1>7, <1>8, <1>9 DEF Next

\* Every step of the settings page keeps its invariant.
LEMMA SettingsStay == SettingsInv /\ [Next]_vars => SettingsInv'
<1>. SUFFICES ASSUME SettingsInv, [Next]_vars PROVE SettingsInv'
  OBVIOUS
<1>1. CASE UNCHANGED <<fileVars, secretVars, form>>
  BY <1>1, SettingsKept
<1>2. CASE ReloadSettings \/ SettingsSaved \/ PutSecret \/ GrantSecret \/ Saved
  BY <1>2, FormStep, SaveStep
<1>3. CASE (\E k \in Secrets : TypeSecret(k) \/ ClearSecret(k)) \/ \E l \in Limits : SaveSettings(l)
  BY <1>3, FormStep, ClearStep
<1>4. CASE \E w \in writers : WriteFile(w) \/ RenameFile(w) \/ WriterDies(w)
  BY <1>4, WriterStep
<1>5. ASSUME NEW r \in Requests, SearchStep(r) \/ PoolTimeout(r) \/ \E p \in Models : Ask(r, p)
      PROVE  UNCHANGED <<fileVars, secretVars, form>>
  BY <1>5 DEF SearchStep, LoadSecret, CallProviders, Finish, AskPool, PoolAnswers,
     ProviderAnswers, ProviderFails, PoolTimeout, Ask, Agent, pageVars
<1>6. CASE UNCHANGED agentVars
  BY <1>1, <1>6 DEF agentVars, pageVars
<1>7. CASE UNCHANGED vars
  BY <1>6, <1>7 DEF vars
<1>. QED  BY <1>1, <1>2, <1>3, <1>4, <1>5, <1>6, <1>7 DEF Next

\* Both invariants hold of every behaviour.
LEMMA Invariants == Spec => [](PoolInv /\ SettingsInv)
<1>. DEFINE Both == PoolInv /\ SettingsInv
<1>1. Init => Both
  BY Begins
<1>2. Both /\ [Next]_vars => Both'
  BY PoolStays, SettingsStay
<1>. HIDE DEF Both
<1>3. Spec => []Both
  BY <1>1, <1>2, PTL DEF Spec
<1>. QED  BY <1>3 DEF Both

\* A slot serves one request at a time, unless two launched it at once.
THEOREM OneAtATime == Spec => []SlotServesOne
<1>1. PoolInv /\ SettingsInv => SlotServesOne
  <2>. SUFFICES ASSUME PoolInv, NEW s \in Slots \ doubled PROVE Cardinality(Serving(s)) <= 1
    BY DEF SlotServesOne
  <2>. DEFINE S == Serving(s)
  <2>1. \A q, r \in S : q = r
    BY DEF PoolInv, SlotOK
  <2>. HIDE DEF S
  <2>2. CASE S = {}
    BY <2>2, FS_EmptySet DEF S
  <2>3. CASE S # {}
    <3>1. PICK r : S = {r}
      BY <2>1, <2>3
    <3>. QED  BY <3>1, FS_Singleton DEF S
  <2>. QED  BY <2>2, <2>3
<1>. QED  BY <1>1, Invariants, PTL

\* When no request is under way all slots are free.
THEOREM AllSlotsBack == Spec => []SlotsComeBack
<1>1. PoolInv /\ SettingsInv => SlotsComeBack
  <2>. SUFFICES ASSUME PoolInv, alive, \A r \in Requests : req[r].pc \in {"idle", "over"},
                       NEW s \in Slots
                PROVE  ~busy[s]
    BY DEF SlotsComeBack
  <2>1. Serving(s) = {}
    BY DEF Serving
  <2>. QED  BY <2>1 DEF PoolInv, SlotOK
<1>. QED  BY <1>1, Invariants, PTL

\* What the page says it has saved can be read.
THEOREM SavedSecretsReadable == Spec => []SavedIsReadable
<1>1. PoolInv /\ SettingsInv => SavedIsReadable
  BY DEF SettingsInv, Underway, Readable, SavedIsReadable
<1>. QED  BY <1>1, Invariants, PTL
=============================================================================
