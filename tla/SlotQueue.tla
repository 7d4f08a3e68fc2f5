----------------------------- MODULE SlotQueue -----------------------------
(***************************************************************************)
(* The value a ConcurrencyController keeps for one model key, the record   *)
(* { max, active, queue }, and what its synchronous methods compute from   *)
(* it.  Nothing here is an action: ConcurrencyController.tla gives these   *)
(* operators to concurrent callers, ModelExecution.tla to whole requests.  *)
(* A queue entry { resolve, reject, timer } is the caller it belongs to.   *)
(***************************************************************************)
EXTENDS Integers, Sequences

\* A key nobody configured behaves as a key whose limit is zero: configure()
\* writes the same record in both cases.
NoSlot == [max |-> 0, active |-> 0, queue |-> <<>>]

\* Slots that can be handed out; none while a lowered limit is exceeded.
FreeSlots(st) == IF st.active < st.max THEN st.max - st.active ELSE 0

(***************************************************************************)
(* _drain: the loop that shifts waiters while there is a free slot, in     *)
(* closed form: it serves as many as there are both slots and waiters.     *)
(***************************************************************************)
GrantCount(st) ==
  IF FreeSlots(st) <= Len(st.queue) THEN FreeSlots(st) ELSE Len(st.queue)

\* The waiters _drain resolves: the oldest ones.
Granted(st) == {st.queue[i] : i \in 1 .. GrantCount(st)}

Drained(st) ==
  [max    |-> st.max,
   active |-> st.active + GrantCount(st),
   queue  |-> SubSeq(st.queue, GrantCount(st) + 1, Len(st.queue))]

\* configure() assigns the limit before it drains.
Resized(st, limit) == [st EXCEPT !.max = limit]

\* Mutant: the fast path admits one request too many.
HasFreeSlotOffByOne(st) == st.active <= st.max

\* The fast path of acquire() asks only whether a slot is free.
HasFreeSlot(st) == st.active < st.max
Admitted(st)    == [st EXCEPT !.active = @ + 1]
Enqueued(st, c) == [st EXCEPT !.queue = Append(@, c)]

\* The closure _createRelease returns, before it drains.
Returned(st) == [st EXCEPT !.active = @ - 1]

\* The queue timer's splice of entry i: the others keep their order.
Spliced(st, i) ==
  [st EXCEPT !.queue =
     [k \in 1 .. Len(@) - 1 |-> IF k < i THEN @[k] ELSE @[k + 1]]]
=============================================================================
