---------------------------- MODULE BrowserPool ----------------------------
(***************************************************************************)
(* The browser pool of the search agent: a process of its own with a fixed *)
(* number of slots, each for one browser, and a queue of requests for a    *)
(* free one.  A request takes a slot (launching its browser again when it  *)
(* has died or was closed for idleness), creates a context on it, does its *)
(* search, closes the context and hands the slot on.                       *)
(*                                                                         *)
(* Everything between two awaits of the code is one step.                  *)
(***************************************************************************)
EXTENDS Integers, Sequences, FiniteSets, SequencesExt, FiniteSetsExt

CONSTANTS
  Slots,      \* the numbered slots, poolSize of them
  Requests,   \* the requests the pool may get
  MaxDeaths   \* bound: browsers that die or are closed for idleness

VARIABLES
  alive,      \* the pool's process runs
  closed,     \* closeAll has been called
  browser,    \* [Slots -> whether the slot's browser is connected]
  busy,       \* [Slots -> the slot's busy flag]
  waitQueue,
  req,        \* [Requests -> the state of a request]
  deaths,
  doubled     \* the slots launched by two requests at once, see the README

poolVars == <<alive, closed, browser, busy, waitQueue, req, deaths, doubled>>

NoSlot == 0

ASSUME SlotsAssumption == Slots \subseteq Nat \ {NoSlot}

\* A request: where it is, its slot, whether it came through the wait queue and
\* whether its time is over; an "answered" one has had its result, although its
\* checkout may still go on.
Over(q) == [pc |-> "over", slot |-> NoSlot, queued |-> FALSE, aborted |-> FALSE,
            answered |-> TRUE, ok |-> q.ok]

Becomes(r, q) == req' = [req EXCEPT ![r] = q]

Failed(r) == Becomes(r, Over(req[r]))

Serving(s) == {r \in Requests : req[r].slot = s /\ req[r].pc \in {"context", "hold", "closing", "lost"}}

Launching(s) == {r \in Requests : req[r].slot = s /\ req[r].pc = "launch"}

-----------------------------------------------------------------------------
\* checkout: a connected browser is taken at once; one that is not is launched
\* first, and until then the slot is not marked busy.
Claimed(q, s) ==
  [q EXCEPT !.slot = s, !.pc = IF browser[s] THEN "context" ELSE "launch"]

\* checkout with the flag set only once the context is there.
TakeUnmarked(r, s, q) ==
  /\ Becomes(r, Claimed(q, s))
  /\ doubled' = IF ~browser[s] /\ Launching(s) # {} THEN doubled \cup {s} ELSE doubled
  /\ UNCHANGED busy

Take(r, s, q) ==
  /\ Becomes(r, Claimed(q, s))
  /\ busy' = [busy EXCEPT ![s] = @ \/ browser[s]]
  /\ doubled' = IF ~browser[s] /\ Launching(s) # {} THEN doubled \cup {s} ELSE doubled

\* acquire: the first free slot with a live browser, else the first free one,
\* else the end of the queue.
Acquire(r) ==
  /\ alive /\ req[r].pc = "idle"
  /\ LET free  == {s \in Slots : ~busy[s]}
         ready == {s \in free : browser[s]}
     IN  \/ /\ closed
            /\ Failed(r)
            /\ UNCHANGED <<busy, waitQueue, doubled>>
         \/ /\ ~closed /\ free # {}
            /\ Take(r, IF ready # {} THEN Min(ready) ELSE Min(free), req[r])
            /\ UNCHANGED waitQueue
         \/ /\ ~closed /\ free = {}
            /\ Becomes(r, [req[r] EXCEPT !.pc = "wait", !.queued = TRUE])
            /\ waitQueue' = Append(waitQueue, r)
            /\ UNCHANGED <<busy, doubled>>
  /\ UNCHANGED <<alive, closed, browser, deaths>>

\* The slot's launch is done: the newest browser replaces the slot's.  A
\* request that found the slot itself gives up here when its time is over.
LaunchEnds(r) ==
  /\ alive /\ req[r].pc = "launch"
  /\ LET s == req[r].slot IN
     /\ browser' = [browser EXCEPT ![s] = TRUE]
     /\ IF req[r].aborted /\ ~req[r].queued
        THEN Failed(r) /\ UNCHANGED busy
        ELSE /\ Becomes(r, [req[r] EXCEPT !.pc = "context"])
             /\ busy' = [busy EXCEPT ![s] = TRUE]
  /\ UNCHANGED <<alive, closed, waitQueue, deaths, doubled>>

\* A launch that fails rejects its request and does not look at the queue.
LaunchFails(r) ==
  /\ alive /\ req[r].pc = "launch"
  /\ Failed(r)
  /\ UNCHANGED <<alive, closed, browser, busy, waitQueue, deaths, doubled>>

\* The slot of r is free again, and the queue's head gets it (drainNext).
HandOn(r, q) ==
  LET s    == req[r].slot
      rest == [req EXCEPT ![r] = q]
      w    == Head(waitQueue)
  IN  IF closed \/ waitQueue = <<>>
      THEN /\ req' = rest
           /\ busy' = [busy EXCEPT ![s] = FALSE]
           /\ UNCHANGED <<waitQueue, doubled>>
      ELSE /\ req' = [rest EXCEPT ![w] = Claimed(@, s)]
           /\ busy' = [busy EXCEPT ![s] = browser[s]]
           /\ waitQueue' = Tail(waitQueue)
           /\ doubled' = IF ~browser[s] /\ Launching(s) # {} THEN doubled \cup {s} ELSE doubled

\* The context is there.  When the caller has given up meanwhile nobody gets
\* the handle, and so nobody releases it.
ContextMade(r) ==
  /\ alive /\ req[r].pc = "context"
  /\ Becomes(r, [req[r] EXCEPT !.pc = IF req[r].answered THEN "lost" ELSE "hold"])
  /\ UNCHANGED <<alive, closed, browser, busy, waitQueue, deaths, doubled>>

\* The error path of checkout without its reset of the busy flag.
ContextFailsBusy(r) ==
  /\ alive /\ req[r].pc = "context"
  /\ Failed(r)
  /\ UNCHANGED <<alive, closed, browser, busy, waitQueue, deaths, doubled>>

ContextFails(r) ==
  /\ alive /\ req[r].pc = "context"
  /\ HandOn(r, Over(req[r]))
  /\ UNCHANGED <<alive, closed, browser, deaths>>

\* The search on the page has results, or ends with an exception: a CAPTCHA, a
\* dead browser, its own timeout, a context closed by the abort.
SearchPage(r) ==
  /\ alive /\ req[r].pc = "hold"
  /\ \E ok \in BOOLEAN : Becomes(r, [req[r] EXCEPT !.pc = "closing", !.ok = ok])
  /\ UNCHANGED <<alive, closed, browser, busy, waitQueue, deaths, doubled>>

\* release, after its await of context.close: now the response is written.
Release(r) ==
  /\ alive /\ req[r].pc = "closing"
  /\ HandOn(r, Over(req[r]))
  /\ UNCHANGED <<alive, closed, browser, deaths>>

\* The timer takes its waiter from the queue and does not reject it.
GiveUpSilently(r) ==
  /\ alive /\ ~req[r].aborted
  /\ req[r].pc \in {"wait", "launch", "context", "hold"}
  /\ Becomes(r, [req[r] EXCEPT !.aborted = TRUE])
  /\ waitQueue' = RemoveFirst(waitQueue, r)
  /\ UNCHANGED <<alive, closed, browser, busy, deaths, doubled>>

\* The acquire timer of a queued request or the abort signal of any: one that
\* waits leaves the queue, one whose checkout is under way is rejected while
\* the checkout goes on.
GiveUp(r) ==
  /\ alive /\ ~req[r].aborted
  /\ req[r].pc \in {"wait", "launch", "context", "hold"}
  /\ Becomes(r, IF req[r].pc = "wait" THEN Over(req[r])
                ELSE [req[r] EXCEPT !.aborted = TRUE,
                                    !.answered = @ \/ (req[r].queued /\ req[r].pc # "hold")])
  /\ waitQueue' = RemoveFirst(waitQueue, r)
  /\ UNCHANGED <<alive, closed, browser, busy, deaths, doubled>>

\* A browser crashes, or the idle timer closes the browser of a free slot.
BrowserDies(s) ==
  /\ browser[s] /\ deaths < MaxDeaths
  /\ browser' = [browser EXCEPT ![s] = FALSE]
  /\ deaths' = deaths + 1
  /\ UNCHANGED <<alive, closed, busy, waitQueue, req, doubled>>

IdleClose(s) == ~busy[s] /\ BrowserDies(s)

\* closeAll: waiters are rejected and the browsers closed; then the process
\* exits and every response still owed is cut off. Nothing starts it again.
CloseAll ==
  /\ alive /\ ~closed
  /\ closed' = TRUE
  /\ waitQueue' = <<>>
  /\ req' = [r \in Requests |-> IF req[r].pc = "wait" THEN Over(req[r]) ELSE req[r]]
  /\ browser' = [s \in Slots |-> FALSE]
  /\ UNCHANGED <<alive, busy, deaths, doubled>>

Exit ==
  /\ alive /\ closed
  /\ alive' = FALSE
  /\ req' = [r \in Requests |-> IF req[r].pc \in {"idle", "over"} THEN req[r] ELSE Over(req[r])]
  /\ UNCHANGED <<closed, browser, busy, waitQueue, deaths, doubled>>

\* The start script goes on without a pool that did not come up.
PoolInit ==
  /\ alive \in BOOLEAN /\ closed = FALSE
  /\ browser = [s \in Slots |-> TRUE]
  /\ busy = [s \in Slots |-> FALSE]
  /\ waitQueue = <<>>
  /\ req = [r \in Requests |-> [pc |-> "idle", slot |-> NoSlot, queued |-> FALSE,
                                aborted |-> FALSE, answered |-> FALSE, ok |-> FALSE]]
  /\ deaths = 0 /\ doubled = {}

PoolStep(r) ==
  LaunchEnds(r) \/ LaunchFails(r) \/ ContextMade(r) \/ ContextFails(r)
    \/ SearchPage(r) \/ Release(r)

PoolNext ==
  \/ \E r \in Requests : PoolStep(r) \/ GiveUp(r)
  \/ \E s \in Slots : BrowserDies(s) \/ IdleClose(s)
  \/ CloseAll \/ Exit

-----------------------------------------------------------------------------
(* Properties                                                              *)

\* A slot serves one request at a time, whatever crashes, fails or gives up in
\* between. The exception is a slot without a browser that two requests launch
\* at once: it is marked busy only after the launch, see the README.
SlotServesOne == \A s \in Slots \ doubled : Cardinality(Serving(s)) <= 1

\* Once no request is under way every slot is free again and no context is
\* open: failed checkouts and failed searches give back what they took. What is
\* not given back is the handle of a request that gave up during its checkout.
SlotsComeBack ==
  (alive /\ \A r \in Requests : req[r].pc \in {"idle", "over"})
    => \A s \in Slots : ~busy[s]
=============================================================================
