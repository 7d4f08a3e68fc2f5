--------------------------- MODULE ModelExecution ---------------------------
(***************************************************************************)
(* The execution of a model request in soul-gateway: concurrency slot,     *)
(* retried attempts with a credential lease and a backend generation each, *)
(* cascade over a tier's children, buffered or streamed answer             *)
(* (runtime/execution/*-middleware.mjs, model-execution.mjs,               *)
(* http-retry.mjs, kernel/response-buffer.mjs, route/respond.mjs); and     *)
(* embeddings, which share the slots, the accounts and the backends but    *)
(* take them by a way of their own (public-api/embeddings-route.mjs).      *)
(*                                                                         *)
(* The resources are counted where their owners count them; `request` only *)
(* says how far each request has come.  A middleware's finally block runs  *)
(* in the same turn as the outcome that triggers it, so an outcome is one  *)
(* action with everything it gives back.                                   *)
(***************************************************************************)
EXTENDS SlotQueue, FiniteSets

CONSTANTS
  Requests,      \* requests in flight
  Children,      \* the tier's child models, in priority order
  Snapshots,     \* runtime snapshots: [limit : [Models -> Nat], usable, embedding : SUBSET Models]
  MaxAttempts,   \* HTTP_RETRY_MAX_ATTEMPTS
  MaxChildren,   \* the cascade's maxAttempts
  MaxLost        \* slots that embeddings may lose, below the number of requests

Models == {Children[i] : i \in 1 .. Len(Children)}

ASSUME ExecutionAssumption ==
  /\ IsFiniteSet(Requests)
  /\ MaxAttempts \in Nat \ {0} /\ MaxChildren \in Nat \ {0} /\ MaxLost \in Nat
  /\ Snapshots \subseteq
       [limit : [Models -> Nat \ {0}], usable : SUBSET Models, embedding : SUBSET Models]

VARIABLES
  slots,        \* ConcurrencyController._models
  holds,        \* the models whose release function a request has not called
  leases,       \* CredentialManager._activeLeases, per request
  pins,         \* backend generations acquired and not released, per request
  request       \* where each request is

vars == <<slots, holds, leases, pins, request>>

\* What a backend makes of a failure of its provider, by the flags of the
\* error (core/errors.mjs): a transient one may be retried and cascades, a
\* refused one cascades, a fatal one ends the request.  Whatever has no rule
\* of its own counts as a failing server, a bad request too.  A queue timeout
\* is transient; configuration and unclassified errors are fatal.  (The
\* cooldown flag matters to RuntimeSnapshot.tla only.)
Failures == {"credentials", "unknown model", "rate limit", "content policy", "other"}
ErrorOf ==
  [f \in Failures |-> CASE f = "unknown model" -> "fatal"
                       [] f \in {"credentials", "content policy"} -> "refused"
                       [] f \in {"rate limit", "other"} -> "transient"]

Errors    == {ErrorOf[f] : f \in Failures} \cup {"fatal"}
Retryable == {"transient"}
Cascading == {"transient", "refused"}

Waiting   == {"selecting", "queued"}
InAttempt == {"starting", "executing", "backoff"}
Streaming == {"streamReady", "consuming"}
Kinds     == {"buffered", "stream", "embedding"}
\* An idle request's fields mean nothing; a finished one keeps what its
\* outcome is explained by.
NoRequest(s) == [pc |-> "idle", tier |-> FALSE, kind |-> "buffered", snap |-> s, model |-> Children[1],
                 attempt |-> 0, trace |-> <<>>, outcome |-> "none"]

Finished(q, outcome) ==
  [NoRequest(q.snap) EXCEPT !.pc = "done", !.outcome = outcome,
     !.trace = IF outcome = "exhausted" THEN q.trace ELSE <<>>,
     !.kind = IF outcome = "exhausted" THEN q.kind ELSE @]

Init ==
  /\ slots   = [m \in Models |-> NoSlot]
  /\ holds   = [r \in Requests |-> {}]
  /\ leases  = [r \in Requests |-> 0]
  /\ pins    = [r \in Requests |-> 0]
  /\ \E s \in Snapshots : request = [r \in Requests |-> NoRequest(s)]
-----------------------------------------------------------------------------
\* The failed children of a cascade: failedModels.
Failed(q) == {q.trace[i].model : i \in 1 .. Len(q.trace)}

\* The children of a tier that may serve a request, by the snapshot it pinned at
\* ingress: cooldowns count for a chat only, the embeddings tag for an embedding.
Eligible(q) == IF q.kind = "embedding" THEN q.snap.embedding ELSE q.snap.usable

\* resolveCandidates
Candidates(q) == Eligible(q) \ Failed(q)

\* candidates[0]
IsFirst(m, S) ==
  \E i \in 1 .. Len(Children) :
    Children[i] = m /\ m \in S /\ \A j \in 1 .. i - 1 : Children[j] \notin S

\* `served` are the waiters a drain of model m resolves; r moves to q.
Resolve(r, q, served) ==
  request' = [x \in Requests |-> IF x = r THEN q
                                 ELSE IF x \in served THEN [request[x] EXCEPT !.pc = "starting"]
                                 ELSE request[x]]

\* A request arrives and pins the snapshot that is installed: snapshots are
\* replaced at any time, so it may be any of them.  A request whose slot is
\* lost is not used again, it stands for the slot.
Arrive(r) ==
  /\ request[r].pc \in {"idle", "done"} /\ request[r].outcome # "slot lost"
  /\ \E s \in Snapshots, tier \in BOOLEAN, kind \in Kinds, m \in Models :
       /\ tier => m = Children[1]
       /\ request' = [request EXCEPT ![r] = [NoRequest(s) EXCEPT
                        !.pc = "selecting", !.tier = tier, !.kind = kind, !.model = m]]
  /\ UNCHANGED <<slots, holds, leases, pins>>

\* The chosen model's chain starts: configure() and acquire().
EnterModel(r, m) ==
  LET resized == Resized(slots[m], request[r].snap.limit[m])
      drained == Drained(resized)
      free    == HasFreeSlot(drained)
  IN  /\ request[r].pc = "selecting"
      /\ IF request[r].tier THEN IsFirst(m, Candidates(request[r])) ELSE m = request[r].model
      /\ slots' = [slots EXCEPT ![m] = IF free THEN Admitted(drained) ELSE Enqueued(drained, r)]
      /\ holds' = [x \in Requests |-> IF x \in Granted(resized) \/ (x = r /\ free)
                                      THEN holds[x] \cup {m} ELSE holds[x]]
      /\ Resolve(r, [request[r] EXCEPT !.pc = IF free THEN "starting" ELSE "queued",
                                       !.model = m, !.attempt = 1],
                 Granted(resized))
      /\ UNCHANGED <<leases, pins>>

\* The cascade finds no candidate: TierExhaustedError.
NoCandidate(r) ==
  /\ request[r].pc = "selecting" /\ request[r].tier /\ Candidates(request[r]) = {}
  /\ request' = [request EXCEPT ![r] = Finished(@, "exhausted")]
  /\ UNCHANGED <<slots, holds, leases, pins>>
-----------------------------------------------------------------------------
\* Mutant: the trace, and with it failedModels, misses the failed child.
AfterFailureForgetful(q, error) ==
  IF q.tier /\ error \in Cascading /\ Len(q.trace) + 1 < MaxChildren
  THEN [q EXCEPT !.pc = "selecting"]
  ELSE Finished(q, IF q.tier /\ error \in Cascading THEN "exhausted" ELSE "failed")

\* Mutant: every error advances the cascade.
AfterFailureAlwaysCascading(q, error) ==
  LET failed == [q EXCEPT !.trace = Append(@, [model |-> q.model, error |-> error])]
  IN  IF q.tier /\ Len(failed.trace) < MaxChildren
      THEN [failed EXCEPT !.pc = "selecting"]
      ELSE Finished(failed, IF q.tier THEN "exhausted" ELSE "failed")

(***************************************************************************)
(* A model's chain failed: a direct request fails with it; the catch block *)
(* of a cascade records the child and goes on, gives up, or rethrows; only *)
(* a chat gives up after some children.                                    *)
(***************************************************************************)
AfterFailure(q, error) ==
  LET failed == [q EXCEPT !.trace = Append(@, [model |-> q.model, error |-> error])]
  IN  IF q.tier /\ error \in Cascading
      THEN IF q.kind = "embedding" \/ Len(failed.trace) < MaxChildren
           THEN [failed EXCEPT !.pc = "selecting"]
           ELSE Finished(failed, "exhausted")
      ELSE Finished(failed, "failed")

\* Mutant: the timer rejects the waiter and leaves its entry in the queue.
QueueTimeoutKeepingEntry(r) ==
  /\ request[r].pc = "queued"
  /\ request' = [request EXCEPT ![r] = AfterFailure(@, "transient")]
  /\ UNCHANGED <<slots, holds, leases, pins>>

\* The queue timer: ModelQueueTimeoutError, outside the retry loop.
QueueTimeout(r) ==
  LET m == request[r].model
  IN  /\ request[r].pc = "queued"
      /\ \E i \in 1 .. Len(slots[m].queue) :
           slots[m].queue[i] = r /\ slots' = [slots EXCEPT ![m] = Spliced(@, i)]
      /\ request' = [request EXCEPT ![r] = AfterFailure(@, "transient")]
      /\ UNCHANGED <<holds, leases, pins>>

(***************************************************************************)
(* An attempt leases credentials (null when the provider has no eligible   *)
(* account), acquires a generation and calls the backend's execute().      *)
(***************************************************************************)
BeginAttempt(r) ==
  /\ request[r].pc = "starting" /\ request[r].kind # "embedding"
  /\ \E lease \in 0 .. 1 : leases' = [leases EXCEPT ![r] = @ + lease]
  /\ pins' = [pins EXCEPT ![r] = @ + 1]
  /\ request' = [request EXCEPT ![r].pc = "executing"]
  /\ UNCHANGED <<slots, holds>>

\* concurrencyMiddleware's finally: the slot is returned, r moves to q.
ReturnSlot(r, q) ==
  LET m        == request[r].model
      returned == Returned(slots[m])
  IN  /\ slots' = [slots EXCEPT ![m] = Drained(returned)]
      /\ holds' = [x \in Requests |-> IF x = r THEN holds[x] \ {m}
                                      ELSE IF x \in Granted(returned) THEN holds[x] \cup {m}
                                      ELSE holds[x]]
      /\ Resolve(r, q, Granted(returned))

\* Mutant: a cascade keeps the failed child's slot while it tries the next.
AttemptFailsKeepingSlot(r, error) ==
  /\ request[r].pc \in {"starting", "executing"} /\ request[r].kind # "embedding"
  /\ request[r].pc = "starting" => error = "fatal"
  /\ leases' = [leases EXCEPT ![r] = 0]
  /\ pins'   = [pins EXCEPT ![r] = 0]
  /\ \/ /\ error \in Retryable /\ request[r].attempt < MaxAttempts
        /\ request' = [request EXCEPT ![r].pc = "backoff"]
     \/ /\ ~(error \in Retryable /\ request[r].attempt < MaxAttempts)
        /\ request' = [request EXCEPT ![r] = AfterFailure(@, error)]
  /\ UNCHANGED <<slots, holds>>

(***************************************************************************)
(* An attempt fails: while it starts (a query failed, "Backend not         *)
(* loaded"), in execute(), by its timeout, or while a buffered answer is   *)
(* drained.  Lease and generation go back; a retry keeps the slot.         *)
(***************************************************************************)
AttemptFails(r, error) ==
  LET retry == error \in Retryable /\ request[r].attempt < MaxAttempts
  IN  /\ request[r].pc \in {"starting", "executing"} /\ request[r].kind # "embedding"
      /\ request[r].pc = "starting" => error = "fatal"
      /\ leases' = [leases EXCEPT ![r] = 0]
      /\ pins'   = [pins EXCEPT ![r] = 0]
      /\ \/ /\ retry
            /\ request' = [request EXCEPT ![r].pc = "backoff"]
            /\ UNCHANGED <<slots, holds>>
         \/ /\ ~retry
            /\ ReturnSlot(r, AfterFailure(request[r], error))

BackoffEnds(r) ==
  /\ request[r].pc = "backoff"
  /\ request' = [request EXCEPT ![r].pc = "starting", ![r].attempt = @ + 1]
  /\ UNCHANGED <<slots, holds, leases, pins>>

(***************************************************************************)
(* An attempt succeeds.  A buffered answer has been drained; a stream is   *)
(* returned unread: the attempt's timer, lease and slot are given back     *)
(* before anybody reads it, its generation stays pinned.                   *)
(***************************************************************************)
AttemptSucceeds(r) ==
  /\ request[r].pc = "executing" /\ request[r].kind # "embedding"
  /\ leases' = [leases EXCEPT ![r] = 0]
  /\ pins' = IF request[r].kind = "stream" THEN pins ELSE [pins EXCEPT ![r] = 0]
  /\ ReturnSlot(r, IF request[r].kind = "stream"
                   THEN [request[r] EXCEPT !.pc = "streamReady", !.attempt = 0, !.trace = <<>>]
                   ELSE Finished(request[r], "answered"))

(***************************************************************************)
(* respondMiddleware reads the stream: only its first read sends the       *)
(* provider request, the backends' streams are generators.                 *)
(***************************************************************************)
ConsumeStream(r) ==
  /\ request[r].pc = "streamReady"
  /\ request' = [request EXCEPT ![r].pc = "consuming"]
  /\ UNCHANGED <<slots, holds, leases, pins>>

\* The stream ends, breaks, or is left by a client that went away.
StreamEnds(r) ==
  /\ request[r].pc = "consuming"
  /\ pins' = [pins EXCEPT ![r] = 0]
  /\ \E outcome \in {"answered", "failed"} :
       request' = [request EXCEPT ![r] = Finished(@, outcome)]
  /\ UNCHANGED <<slots, holds, leases>>
-----------------------------------------------------------------------------
Embedding(r, pc) == request[r].kind = "embedding" /\ request[r].pc = pc

\* Before an embedding takes a slot: no provider, no backend, or one that cannot embed.
EmbeddingRefused(r) ==
  /\ Embedding(r, "selecting")
  /\ request[r].tier => Candidates(request[r]) # {}
  /\ request' = [request EXCEPT ![r] = Finished(@, "failed")]
  /\ UNCHANGED <<slots, holds, leases, pins>>

\* executeDirectEmbeddingModel: the credentials are leased, the backend is called
\* without a generation, a signal or a timeout.
EmbeddingBegins(r) ==
  /\ Embedding(r, "starting")
  /\ \E lease \in 0 .. 1 : leases' = [leases EXCEPT ![r] = lease]
  /\ request' = [request EXCEPT ![r].pc = "executing"]
  /\ UNCHANGED <<slots, holds, pins>>

\* getCredentials throws (a query failed) outside the try that gives the slot back.
EmbeddingLosesSlot(r) ==
  /\ Embedding(r, "starting")
  /\ Cardinality({x \in Requests : request[x].outcome = "slot lost"}) < MaxLost
  /\ request' = [request EXCEPT ![r] = [Finished(@, "slot lost") EXCEPT !.model = request[r].model]]
  /\ UNCHANGED <<slots, holds, leases, pins>>

\* The backend's embed() answers or fails; there is no second attempt.
EmbeddingEnds(r) ==
  /\ Embedding(r, "executing")
  /\ leases' = [leases EXCEPT ![r] = 0]
  /\ UNCHANGED pins
  /\ \/ ReturnSlot(r, Finished(request[r], "answered"))
     \/ \E error \in Errors : ReturnSlot(r, AfterFailure(request[r], error))
-----------------------------------------------------------------------------
AttemptEnds(r) == AttemptSucceeds(r) \/ \E error \in Errors : AttemptFails(r, error)
Select(r)      == NoCandidate(r) \/ \E m \in Models : EnterModel(r, m)

Next ==
  \E r \in Requests :
    \/ Arrive(r) \/ Select(r) \/ QueueTimeout(r)
    \/ BeginAttempt(r) \/ AttemptEnds(r) \/ BackoffEnds(r)
    \/ ConsumeStream(r) \/ StreamEnds(r)
    \/ EmbeddingRefused(r) \/ EmbeddingBegins(r) \/ EmbeddingLosesSlot(r) \/ EmbeddingEnds(r)

(***************************************************************************)
(* The event loop runs what is ready, backoff sleeps end, and a buffered   *)
(* attempt ends because its timeout aborts it.  Queue timers get no        *)
(* fairness, nor do clients, streams and the providers of embeddings.      *)
(***************************************************************************)
Fairness ==
  \A r \in Requests :
    /\ WF_vars(Select(r)) /\ WF_vars(BeginAttempt(r)) /\ WF_vars(EmbeddingBegins(r))
    /\ WF_vars(AttemptEnds(r)) /\ WF_vars(BackoffEnds(r))

Spec     == Init /\ [][Next]_vars
FairSpec == Spec /\ Fairness
-----------------------------------------------------------------------------
SlotHolders(m) == {r \in Requests : m \in holds[r]}

\* Every counter is the number of its holders: over retries, backoffs,
\* cascades, timeouts and streams no slot is lost or returned twice, and a
\* queue holds exactly the requests that wait for its model, once each.
ResourceAccounting ==
  \A m \in Models :
    /\ slots[m].active = Cardinality(SlotHolders(m))
    /\ \A r \in Requests :
         Cardinality({i \in 1 .. Len(slots[m].queue) : slots[m].queue[i] = r})
           = IF request[r].pc = "queued" /\ request[r].model = m THEN 1 ELSE 0

\* A request that waits for a slot, has not chosen its next child or is
\* finished holds nothing, so cascades over the same children never wait for
\* each other in a circle; a backoff keeps the slot but no credentials.  The
\* one exception is an embedding that failed before its try block.
NothingHeldWhileWaiting ==
  \A r \in Requests :
    /\ request[r].pc \in Waiting \cup {"idle", "done"} =>
         /\ holds[r] = IF request[r].outcome = "slot lost" THEN {request[r].model} ELSE {}
         /\ leases[r] = 0 /\ pins[r] = 0
    /\ request[r].pc = "backoff" =>
         holds[r] = {request[r].model} /\ leases[r] = 0 /\ pins[r] = 0

\* A tier is reported exhausted only when it is: every usable child of the
\* pinned snapshot failed, or as many as the cascade may try, each once, in
\* priority order, and each with an error that allows the next one.
ExhaustedMeansTried ==
  \A r \in Requests :
    LET q == request[r]
    IN  q.outcome = "exhausted" =>
          /\ Candidates(q) = {} \/ (q.kind # "embedding" /\ Len(q.trace) = MaxChildren)
          /\ Cardinality(Failed(q)) = Len(q.trace)
          /\ \A i \in 1 .. Len(q.trace) :
               /\ q.trace[i].error \in Cascading
               /\ IsFirst(q.trace[i].model, Eligible(q) \ {q.trace[j].model : j \in 1 .. i - 1})

\* Nothing takes back the slot of an embedding that was lost or never answered.
KeepsSlot(r) == Embedding(r, "executing") \/ request[r].outcome = "slot lost"

\* Every request gets an answer, an error or a stream to read, although
\* others keep arriving and the queue timers never fire, unless an embedding
\* keeps its slot for ever.
RequestSettles ==
  (\A r \in Requests : []<>~KeepsSlot(r)) =>
    \A r \in Requests :
      request[r].pc \in Waiting \cup InAttempt ~> request[r].pc \in {"done"} \cup Streaming
=============================================================================
