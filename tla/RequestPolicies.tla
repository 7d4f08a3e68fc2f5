---------------------------- MODULE RequestPolicies ----------------------------
(***************************************************************************)
(* The requests of one signed subject on their way through authentication, *)
(* session resolution and the gateway policies: rate limiter, budget       *)
(* enforcer, loop detector in block mode and response cache, bound in that *)
(* order.  The model execution below them is one step (ModelExecution has  *)
(* it in detail), so is a database statement.  Prices are one unit per     *)
(* answer, times are ticks of one UTC day.                                 *)
(***************************************************************************)
EXTENDS Naturals, Sequences, FiniteSets, SequencesExt

CONSTANTS
    Requests,
    Tokens,         \* bearer tokens that arrive, see Accepted
    Subject,        \* "user" or "agent": the kind of the subject
    Prompt,         \* the content of each request
    Streaming,      \* requests with stream: true
    Explicit,       \* requests that name a session
    Answers,        \* texts a model may answer
    Limits,         \* [rpm, budget, expires] an operator may set
    DefaultRpm, Window, Ttl, IdleTime, SessionTimeout, CacheTtl, CacheSize,
    MinAnswers, LoopWindow,
    StreamLength,   \* events of a whole stream
    None,
    MaxClock,       \* bound on the ticks
    MaxActive,      \* bound on the requests in progress together
    MaxEdits        \* bound on the operator's requests

ASSUME SubjectAssumption == Subject \in {"user", "agent"}
ASSUME RequestsAssumption ==
    IsFiniteSet(Requests) /\ Streaming \subseteq Requests /\ Explicit \subseteq Requests
ASSUME TimesAssumption ==
    {DefaultRpm, Window, Ttl, IdleTime, SessionTimeout, CacheTtl, CacheSize, MinAnswers,
     LoopWindow, StreamLength, MaxClock, MaxActive, MaxEdits} \subseteq Nat
\* With a TTL of zero every request reads the spend anew.
ASSUME TtlAssumption == Ttl # 0

\* A row of api_keys.
Rows == [status : {"active", "revoked"}, rpm : Nat, budget : Nat \cup {None},
         expires : Nat \cup {None}]

ASSUME NoneAssumption == None \notin Nat \cup Rows
ASSUME LimitsAssumption ==
    Limits \subseteq [rpm : Nat, budget : Nat \cup {None}, expires : Nat \cup {None}]

VARIABLES
    clock,
    key,        \* the subject's api_keys row or None
    sessions,   \* sessions rows of the subject: [explicit, n, last]
    windows,    \* _windows: times of the admissions still counted
    spend,      \* SpendCache entry: [total, fetchedAt, access] or None
    ledger,     \* audit_logs rows with a cost: the ticks they were inserted at
    observed,   \* loop detector: what it kept of the answers, per session key
    cache,      \* response cache, least recently used first
    request,    \* per request: where it is and what it has read
    operator,   \* "idle", or "revoke" between its two statements
    edits,
    admitted,   \* history: when the rate limiter let each request pass
    lastReset   \* history: when the spend was last reset by hand

vars == <<clock, key, sessions, windows, spend, ledger, observed, cache, request,
          operator, edits, admitted, lastReset>>

(* --------------------------- authentication ----------------------------- *)

\* parseInboundApiKeyToken and verifySignedSubject: user keys come wrapped, agent keys
\* raw; one delimiter, canonical base64url, a known subject shape, a valid signature.
Accepted(t) ==
    /\ t.delimiters = 1 /\ t.canonical
    /\ t.subject \in {"user", "agent"}
    /\ t.wrapped <=> t.subject = "user"
    /\ t.signed

\* create(): the row of a subject seen for the first time.
DefaultRow == [status |-> "active", rpm |-> DefaultRpm, budget |-> None, expires |-> None]

Denies(row) == \/ row = None
               \/ row.status = "revoked"
               \/ row.expires # None /\ row.expires <= clock

NewRequest == [pc |-> "new", auth |-> None, session |-> None, sum |-> 0,
               answer |-> None, sent |-> 0, hit |-> FALSE]
At(r, pc) == request[r].pc = pc
Set(r, s) == request' = [request EXCEPT ![r] = s]
Goto(r, pc) == Set(r, [request[r] EXCEPT !.pc = pc])
\* An answered or refused request; its session stays as history.
Finish(r) == Set(r, [NewRequest EXCEPT !.pc = "done", !.session = request[r].session])
Authenticated(r, row) ==
    IF Denies(row) THEN Finish(r)
    ELSE Set(r, [request[r] EXCEPT !.auth = row,
                    !.pc = IF r \in Explicit THEN "findSession" ELSE "implicitSession"])

Active == {r \in Requests : request[r].pc \notin {"new", "done"}}

\* Legacy identity headers and unacceptable tokens are refused before the database;
\* upsertSignedSubjectKey finds the row, else inserts it, else (UNIQUE) finds it again.
Arrive(r) ==
    /\ At(r, "new") /\ Cardinality(Active) < MaxActive
    /\ \E t \in Tokens, legacyHeader \in BOOLEAN :
        IF legacyHeader \/ ~Accepted(t) \/ t.subject # Subject THEN Finish(r)
        ELSE IF key = None THEN Goto(r, "insertKey") ELSE Authenticated(r, key)
    /\ UNCHANGED <<clock, key, sessions, windows, spend, ledger, observed, cache, admitted,
                   operator, edits, lastReset>>

\* Mutant: INSERT OR REPLACE.
InsertKeyReplacing(r) ==
    /\ At(r, "insertKey")
    /\ key' = DefaultRow /\ Authenticated(r, DefaultRow)
    /\ UNCHANGED <<clock, sessions, windows, spend, ledger, observed, cache, admitted,
                   operator, edits, lastReset>>

InsertKey(r) ==
    /\ At(r, "insertKey")
    /\ IF key = None
       THEN key' = DefaultRow /\ Authenticated(r, DefaultRow)
       ELSE key' = key /\ Goto(r, "rereadKey")
    /\ UNCHANGED <<clock, sessions, windows, spend, ledger, observed, cache, admitted,
                   operator, edits, lastReset>>

RereadKey(r) ==
    /\ At(r, "rereadKey")
    /\ Authenticated(r, key)
    /\ UNCHANGED <<clock, key, sessions, windows, spend, ledger, observed, cache, admitted,
                   operator, edits, lastReset>>

(* ------------------------------- sessions ------------------------------- *)

InSession(r, s) == Set(r, [request[r] EXCEPT !.session = [explicit |-> s.explicit, n |-> s.n],
                                             !.pc = "touchSession"])
Latest(S) == CHOOSE s \in S : \A t \in S : s.last >= t.last
RowsOf(explicit) == {s \in sessions : s.explicit = explicit}

\* findByExplicitId, then create: two statements; an insert that loses fails the request.
FindSession(r) ==
    /\ At(r, "findSession")
    /\ IF RowsOf(TRUE) = {} THEN Goto(r, "createSession") ELSE InSession(r, Latest(RowsOf(TRUE)))
    /\ UNCHANGED <<clock, key, sessions, windows, spend, ledger, observed, cache, admitted,
                   operator, edits, lastReset>>

\* Mutant: the next sequence number, as for implicit sessions.
CreateSessionNumbered(r) ==
    /\ At(r, "createSession")
    /\ LET s == [explicit |-> TRUE, n |-> Cardinality(RowsOf(TRUE)) + 1, last |-> clock]
       IN  sessions' = sessions \cup {s} /\ InSession(r, s)
    /\ UNCHANGED <<clock, key, windows, spend, ledger, observed, cache, admitted,
                   operator, edits, lastReset>>

CreateSession(r) ==
    /\ At(r, "createSession")
    /\ LET s == [explicit |-> TRUE, n |-> 1, last |-> clock]
       IN  IF RowsOf(TRUE) = {}
           THEN sessions' = sessions \cup {s} /\ InSession(r, s)
           ELSE sessions' = sessions /\ Finish(r)
    /\ UNCHANGED <<clock, key, windows, spend, ledger, observed, cache, admitted,
                   operator, edits, lastReset>>

\* findOrCreateImplicit holds BEGIN IMMEDIATE for the whole of it.
FindOrCreateImplicit(r) ==
    /\ At(r, "implicitSession")
    /\ LET live == {s \in RowsOf(FALSE) : s.last + SessionTimeout > clock}
           s == [explicit |-> FALSE, n |-> Cardinality(RowsOf(FALSE)) + 1, last |-> clock]
       IN  IF live # {}
           THEN sessions' = sessions /\ InSession(r, Latest(live))
           ELSE sessions' = sessions \cup {s} /\ InSession(r, s)
    /\ UNCHANGED <<clock, key, windows, spend, ledger, observed, cache, admitted,
                   operator, edits, lastReset>>

\* updateActivity by id, whether or not the session is still live.
Refreshed(own) == {IF s.explicit = own.explicit /\ s.n = own.n
                   THEN [s EXCEPT !.last = clock] ELSE s : s \in sessions}

(* ---------------- the policies, in the order they are bound -------------- *)

\* The times from the first one that ends its window after the time given.
From(times, end) ==
    LET counted == {i \in DOMAIN times : times[i] + Window > end}
    IN  IF counted = {} THEN << >> ELSE SubSeq(times, Min(counted), Len(times))

\* Mutant: timestamps leave the window one tick early.
CountedEarly(times) == From(times, clock + 1)
\* Timestamps are shifted out while the first is at or before the cutoff.
Counted(times) == From(times, clock)

\* The length is checked and the time pushed without an await between them.
WithinRate(r) == Len(Counted(windows)) < request[r].auth.rpm

\* Mutant: what is used stays fresh.
FreshWhileUsed(entry) == entry # None /\ clock < entry.access + Ttl
\* An entry older than the TTL reads as null.
Fresh(entry) == entry # None /\ clock < entry.fetchedAt + Ttl

Touched == IF spend = None THEN None ELSE [spend EXCEPT !.access = clock]
WithinBudget(r, total) == total < request[r].auth.budget

\* ctx.session.key: the group key, which all implicit sessions of the subject share.
SessionKey(r) == IF r \in Explicit THEN "explicit" ELSE "implicit"

\* detectLoop: the share of earlier answers in the window like the latest, at least 0.6.
Loops(kept) ==
    LET recent == SubSeq(kept, IF Len(kept) > LoopWindow THEN Len(kept) - LoopWindow + 1
                               ELSE 1, Len(kept))
        latest == Last(recent)
        similar == {i \in 1..(Len(recent) - 1) : recent[i].print = latest.print}
    IN  /\ Len(kept) >= MinAnswers /\ Len(recent) >= MinAnswers
        /\ 10 * Cardinality(similar) >= 6 * (Len(recent) - 1)

CacheKey(r) == [prompt |-> Prompt[r], stream |-> r \in Streaming]
\* The cache has one entry for a key at most: delete() takes it out.
Without(k) ==
    LET at == {i \in DOMAIN cache : cache[i].key = k}
    IN  IF at = {} THEN cache ELSE RemoveAt(cache, Min(at))
Hits(k) == {i \in DOMAIN cache : cache[i].key = k /\ clock <= cache[i].createdAt + CacheTtl}

\* LruCache.set: the newest entry at the end, the oldest dropped beyond the capacity.
Cached(k, answer) ==
    LET all == Append(Without(k), [key |-> k, answer |-> answer, createdAt |-> clock])
    IN  IF Len(all) > CacheSize THEN Tail(all) ELSE all

\* What extractResponseText makes of the answer: of a stream, the JSON of its wrapper,
\* whose only enumerable field is meta.
Fingerprint(r, answer) == IF r \in Streaming THEN "stream" ELSE answer.text

Remembered(kept, o) ==
    LET all == Append(kept, o)
    IN  IF Len(all) > 2 * LoopWindow THEN SubSeq(all, Len(all) - LoopWindow + 1, Len(all))
        ELSE all

\* The way back up the policies: the detector keeps the answer; the budget finds no cost
\* to record, since neither finalizeDirectResult's envelope nor a stream carries one.
Answered(r, answer, hit) ==
    /\ Set(r, [request[r] EXCEPT !.pc = IF r \in Streaming THEN "streaming" ELSE "audit",
                                 !.answer = answer, !.hit = hit])
    /\ observed' = [observed EXCEPT ![SessionKey(r)] =
                        Remembered(@, [print |-> Fingerprint(r, answer), text |-> answer.text])]

\* Below rate limiter and budget, with no await: the loop detector in block mode and the
\* cache, where a hit moves to the recent end and an expired entry is deleted.
Onward(r) ==
    LET k == CacheKey(r)
        hit == cache[Min(Hits(k))]
    IN  IF Loops(observed[SessionKey(r)]) THEN Finish(r) /\ UNCHANGED <<cache, observed>>
        ELSE IF Hits(k) = {}
        THEN cache' = Without(k) /\ Goto(r, "execute") /\ observed' = observed
        ELSE cache' = Append(Without(k), hit) /\ Answered(r, hit.answer, TRUE)

Refuse(r) == Finish(r) /\ UNCHANGED <<cache, observed>>

\* Without a limit the cached spend is not even read; a stale one is read anew.
Budgeted(r) ==
    \/ /\ request[r].auth.budget = None
       /\ spend' = spend /\ Onward(r)
    \/ /\ request[r].auth.budget # None
       /\ spend' = Touched
       /\ IF ~Fresh(spend) THEN Goto(r, "readSpend") /\ UNCHANGED <<cache, observed>>
          ELSE IF WithinBudget(r, spend.total) THEN Onward(r) ELSE Refuse(r)

\* From the session's update to the first await below it nothing else runs.
EnterPolicies(r) ==
    /\ At(r, "touchSession")
    /\ sessions' = Refreshed(request[r].session)
    /\ IF WithinRate(r)
       THEN windows' = Append(Counted(windows), clock) /\ admitted' = [admitted EXCEPT ![r] = clock]
            /\ Budgeted(r)
       ELSE windows' = Counted(windows) /\ Refuse(r) /\ UNCHANGED <<spend, admitted>>
    /\ UNCHANGED <<clock, key, ledger, operator, edits, lastReset>>

\* SpendCache.refresh: the sums of the audit log, then, awaited, the entry.
ReadSpend(r) ==
    /\ At(r, "readSpend")
    /\ Set(r, [request[r] EXCEPT !.sum = Len(ledger), !.pc = "installSpend"])
    /\ UNCHANGED <<clock, key, sessions, windows, spend, ledger, observed, cache, admitted,
                   operator, edits, lastReset>>

InstallSpend(r) ==
    /\ At(r, "installSpend")
    /\ spend' = [total |-> request[r].sum, fetchedAt |-> clock, access |-> clock]
    /\ IF WithinBudget(r, request[r].sum) THEN Onward(r) ELSE Refuse(r)
    /\ UNCHANGED <<clock, key, sessions, windows, ledger, admitted, operator, edits, lastReset>>

\* The model fails or answers; a buffered answer is cached on the way back, a stream when
\* it ends.
Execute(r) ==
    /\ At(r, "execute")
    /\ \/ Refuse(r)
       \/ \E text \in Answers :
            LET answer == [text |-> text, events |-> IF r \in Streaming THEN 0 ELSE StreamLength]
            IN  /\ Answered(r, answer, FALSE)
                /\ cache' = IF r \in Streaming THEN cache ELSE Cached(CacheKey(r), answer)
    /\ UNCHANGED <<clock, key, sessions, windows, spend, ledger, admitted,
                   operator, edits, lastReset>>

StreamEvent(r) ==
    /\ At(r, "streaming") /\ request[r].sent < StreamLength
    /\ Set(r, [request[r] EXCEPT !.sent = @ + 1])
    /\ UNCHANGED <<clock, key, sessions, windows, spend, ledger, observed, cache, admitted,
                   operator, edits, lastReset>>

\* What cacheStreamEvents stores when it completed; a replay is not stored again.
Stored(r) == IF request[r].hit THEN cache
             ELSE Cached(CacheKey(r), [request[r].answer EXCEPT !.events = request[r].sent])

\* Mutant: the finally block caches whatever was collected.
StreamBreaksCached(r) ==
    /\ At(r, "streaming") /\ request[r].sent < StreamLength
    /\ Finish(r) /\ cache' = Stored(r)
    /\ UNCHANGED <<clock, key, sessions, windows, spend, ledger, observed, admitted,
                   operator, edits, lastReset>>

\* A provider error (an error event is thrown by the backend terminal) or a client that
\* leaves: the generator of the cache is returned before it completed.
StreamBreaks(r) ==
    /\ At(r, "streaming") /\ request[r].sent < StreamLength
    /\ Finish(r)
    /\ UNCHANGED <<clock, key, sessions, windows, spend, ledger, observed, cache, admitted,
                   operator, edits, lastReset>>

StreamCompletes(r) ==
    /\ At(r, "streaming") /\ request[r].sent = StreamLength
    /\ cache' = Stored(r) /\ Goto(r, "audit")
    /\ UNCHANGED <<clock, key, sessions, windows, spend, ledger, observed, admitted,
                   operator, edits, lastReset>>

\* The audit row prices the usage of the answer, a cached one as well.  (The rows of
\* refused and failed requests have no cost and are left out.)
WriteAudit(r) ==
    /\ At(r, "audit")
    /\ ledger' = Append(ledger, clock) /\ Finish(r)
    /\ UNCHANGED <<clock, key, sessions, windows, spend, observed, cache, admitted,
                   operator, edits, lastReset>>

(* ----------------------- the operator and the timers -------------------- *)

Edit == operator = "idle" /\ edits < MaxEdits /\ edits' = edits + 1
ByOperator == UNCHANGED <<clock, sessions, windows, ledger, observed, cache, request, admitted>>

\* handleProvisionUserKey: 409 when the subject has a row already.
ProvisionUserKey ==
    /\ Edit /\ key = None /\ Subject = "user"
    /\ \E l \in Limits :
        /\ l.expires # None => l.expires > clock
        /\ key' = [status |-> "active", rpm |-> l.rpm, budget |-> l.budget, expires |-> l.expires]
    /\ ByOperator /\ UNCHANGED <<spend, operator, lastReset>>

\* handleUpdateKey: the status is not among the fields a PATCH may change.
UpdateKey ==
    /\ Edit /\ key # None
    /\ \E l \in Limits :
        key' = [key EXCEPT !.rpm = l.rpm, !.budget = l.budget, !.expires = l.expires]
    /\ ByOperator /\ UNCHANGED <<spend, operator, lastReset>>

\* handleRevokeKey looks the row up, refuses agents, then revokes an active row.
StartRevoke ==
    /\ Edit /\ key # None /\ Subject = "user"
    /\ operator' = "revoke"
    /\ ByOperator /\ UNCHANGED <<key, spend, lastReset>>

Revoke ==
    /\ operator = "revoke" /\ operator' = "idle"
    /\ key' = IF key.status = "active" THEN [key EXCEPT !.status = "revoked"] ELSE key
    /\ ByOperator /\ UNCHANGED <<spend, edits, lastReset>>

\* handleResetDailyBudget zeroes the cached totals until they are read again.
ResetDailyBudget ==
    /\ Edit /\ spend # None
    /\ spend' = [spend EXCEPT !.total = 0, !.access = clock] /\ lastReset' = clock
    /\ ByOperator /\ UNCHANGED <<key, operator>>

\* The spend-cache-cleanup job drops idle entries.
CleanupSpend ==
    /\ spend # None /\ clock >= spend.access + IdleTime
    /\ spend' = None
    /\ UNCHANGED <<clock, key, sessions, windows, ledger, observed, cache, request, admitted,
                   operator, edits, lastReset>>

\* No timer runs between the statement of a refresh and its continuation.
Tick ==
    /\ clock < MaxClock /\ \A r \in Requests : ~At(r, "installSpend")
    /\ clock' = clock + 1
    /\ UNCHANGED <<key, sessions, windows, spend, ledger, observed, cache, request, admitted,
                   operator, edits, lastReset>>

Ended == clock = MaxClock /\ Active = {} /\ operator = "idle" /\ UNCHANGED vars

Init ==
    /\ clock = 0 /\ key = None /\ sessions = {} /\ windows = << >> /\ spend = None
    /\ ledger = << >> /\ cache = << >>
    /\ observed = [k \in {"explicit", "implicit"} |-> << >>]
    /\ request = [r \in Requests |-> NewRequest]
    /\ admitted = [r \in Requests |-> None]
    /\ operator = "idle" /\ edits = 0 /\ lastReset = None

Proceed(r) ==
    \/ Arrive(r) \/ InsertKey(r) \/ RereadKey(r)
    \/ FindSession(r) \/ CreateSession(r) \/ FindOrCreateImplicit(r)
    \/ EnterPolicies(r) \/ ReadSpend(r) \/ InstallSpend(r) \/ Execute(r)
    \/ StreamEvent(r) \/ StreamBreaks(r) \/ StreamCompletes(r) \/ WriteAudit(r)

Operate == ProvisionUserKey \/ UpdateKey \/ StartRevoke \/ Revoke \/ ResetDailyBudget

Next ==
    \/ \E r \in Requests : Proceed(r)
    \/ Operate \/ CleanupSpend \/ Tick \/ Ended

Spec == Init /\ [][Next]_vars

(* ------------------------------ properties ------------------------------ *)

\* A revoked key stays revoked whatever first use, provisioning or edit was under way,
\* and no request is authenticated against a row that is revoked at that moment.
RevokedStaysOut ==
    [][key # None /\ key.status = "revoked" =>
        /\ key' # None /\ key'.status = "revoked"
        /\ \A r \in Requests : request'[r].auth # None => request[r].auth # None]_vars

\* No window of the rate limiter ever holds more admissions than the limit the latest of
\* them was authenticated with, however limits change while requests are under way.
RateHolds ==
    [][\A r \in Requests : admitted'[r] # admitted[r] =>
          Cardinality({q \in Requests : admitted[q] # None /\ admitted[q] + Window > clock})
              < request[r].auth.rpm]_vars

\* A request passes the budget only while what the audit log held one TTL ago was below
\* the limit, unless the operator reset the figure since: the cache lags no more than that.
BudgetLagBounded ==
    [][\A r \in Requests :
        /\ request[r].pc \in {"touchSession", "installSpend"}
        /\ request'[r].pc \in {"execute", "streaming", "audit"}
        /\ request[r].auth.budget # None
        /\ lastReset # None => lastReset + Ttl <= clock
        => Cardinality({i \in DOMAIN ledger : ledger[i] + Ttl <= clock})
                < request[r].auth.budget]_vars

\* The cache replays whole answers only: a stream that broke off is never stored.
WholeAnswersReplayed == \A i \in DOMAIN cache : cache[i].answer.events = StreamLength

\* All requests that name the session are in the same one.
ExplicitSessionIsOne ==
    \A q, r \in Explicit :
        request[q].session # None /\ request[r].session # None
            => request[q].session = request[r].session
===============================================================================
