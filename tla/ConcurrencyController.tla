----------------------- MODULE ConcurrencyController -----------------------
(***************************************************************************)
(* soul-gateway's per-model concurrency controller as its callers use it   *)
(* (runtime/execution/concurrency-controller.mjs, concurrency-middleware). *)
(* One model key is modelled: the controller's entries for different keys  *)
(* share nothing.  Node runs each of these methods to completion, so each  *)
(* is one action; the interleaving is between requests, their releases and *)
(* their queue timers.                                                     *)
(***************************************************************************)
EXTENDS SlotQueue, FiniteSets

CONSTANTS Callers,   \* requests for the model that may be in flight at once
          Limits     \* concurrency limits in the snapshots requests carry

ASSUME CallersAssumption == IsFiniteSet(Callers)
ASSUME LimitsAssumption  == Limits \subseteq Nat \ {0}
                            \* a limit of 0 falls through `||` to the default

VARIABLES
  slot,     \* the controller's record for the key
  caller    \* what each request holds of it: nothing, a place in the queue,
            \* a release function, or a release function it already called

controllerVars == <<slot, caller>>

CallerStates == {"idle", "queued", "holding", "released"}

TypeOK ==
  /\ slot \in [max : Nat, active : Nat, queue : Seq(Callers)]
  /\ caller \in [Callers -> CallerStates]

Holders == {c \in Callers : caller[c] = "holding"}
ControllerInit ==
  /\ slot   = NoSlot
  /\ caller = [c \in Callers |-> "idle"]

\* Callers in S get their release function, c moves to state s.
Serve(S, c, s) ==
  caller' = [x \in Callers |-> IF x \in S THEN "holding"
                               ELSE IF x = c THEN s ELSE caller[x]]

\* Mutant: acquire() before configure(): the old limit decides.
EnterBeforeConfigure(c, limit) ==
  LET resized == Resized(slot, limit)
  IN  /\ caller[c] \in {"idle", "released"}
      /\ \/ /\ HasFreeSlot(slot)
            /\ slot' = Admitted(resized)
            /\ Serve({}, c, "holding")
         \/ /\ ~HasFreeSlot(slot)
            /\ slot' = Enqueued(resized, c)
            /\ Serve({}, c, "queued")

(***************************************************************************)
(* concurrencyMiddleware: configure(key, limit of this request's snapshot) *)
(* and then acquire(key), with no await in between.                        *)
(***************************************************************************)
Enter(c, limit) ==
  LET resized == Resized(slot, limit)
      drained == Drained(resized)
  IN  /\ caller[c] \in {"idle", "released"}
      /\ \/ /\ HasFreeSlot(drained)
            /\ slot' = Admitted(drained)
            /\ Serve(Granted(resized), c, "holding")
         \/ /\ ~HasFreeSlot(drained)
            /\ slot' = Enqueued(drained, c)
            /\ Serve(Granted(resized), c, "queued")

\* The release function: the first call returns the slot and drains.
Release(c) ==
  /\ caller[c] = "holding"
  /\ slot' = Drained(Returned(slot))
  /\ Serve(Granted(Returned(slot)), c, "released")

\* Any later call is stopped by the closure's `released` flag.
ReleaseAgain(c) ==
  /\ caller[c] = "released"
  /\ UNCHANGED controllerVars

\* The queue timer fires: the waiter leaves with ModelQueueTimeoutError.
WaiterTimeout(c) ==
  /\ caller[c] = "queued"
  /\ \E i \in 1 .. Len(slot.queue) :
       /\ slot.queue[i] = c
       /\ slot' = Spliced(slot, i)
  /\ caller' = [caller EXCEPT ![c] = "idle"]

ControllerNext ==
  \E c \in Callers :
    \/ \E limit \in Limits : Enter(c, limit)
    \/ Release(c)
    \/ ReleaseAgain(c)
    \/ WaiterTimeout(c)

ControllerSpec == ControllerInit /\ [][ControllerNext]_controllerVars
-----------------------------------------------------------------------------
\* The counter is the number of requests that hold an uncalled release
\* function: no path leaks a slot or returns one twice.
SlotAccounting == slot.active = Cardinality(Holders)

\* Nobody waits while a slot is free: every change that frees a slot (a
\* release, a raised limit) drains in the same step.
NoIdleSlot == slot.queue # <<>> => slot.active >= slot.max

\* The queue holds each waiting request once, and nobody else: the indexOf
\* of a queue timer always finds its entry, and a drain resolves nobody twice.
QueueMatches ==
  /\ \A c \in Callers : caller[c] = "queued" <=>
       \E i \in 1 .. Len(slot.queue) : slot.queue[i] = c
  /\ \A i, j \in 1 .. Len(slot.queue) :
       slot.queue[i] = slot.queue[j] => i = j

\* The inductive invariant: a drain moves exactly its waiters from the queue
\* to the holders only because the queue is what QueueMatches says.
ControllerInv == TypeOK /\ QueueMatches /\ SlotAccounting /\ NoIdleSlot

\* A request that gets a slot overtakes nobody: whoever keeps waiting asked
\* later.  In particular acquire's fast path, which never looks at the
\* queue, must not run ahead of it.
ServedInOrder ==
  \A c \in Callers : caller[c] # "holding" /\ caller'[c] = "holding" =>
    \A j \in 1 .. Len(slot.queue) : caller'[slot.queue[j]] = "queued" =>
      \E i \in 1 .. j : slot.queue[i] = c

NoOvertaking == [][ServedInOrder]_controllerVars

\* The controller implements the abstract limiter, with the requests that
\* hold a release function as the holders.
Limiter == INSTANCE SlotLimiter WITH limit <- slot.max, holders <- Holders
ImplementsLimiter == Limiter!Spec
=============================================================================
