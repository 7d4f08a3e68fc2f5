-------------------------- MODULE RequestPathProofs --------------------------
(***************************************************************************)
(* What happens to requests on their way in and out, for every value of    *)
(* the constants.                                                          *)
(*                                                                         *)
(* Policies: for any number of requests, any limits and any times, what    *)
(* they keep for a subject holds together while its requests interleave.   *)
(* The cache replays whole answers, the requests of a named session share  *)
(* one, the rate limiter's window covers every admission it must count,    *)
(* and the cached spend lags the audit log by one TTL at most.             *)
(*                                                                         *)
(* Streams: for every finite set of responses, every stream that ends as   *)
(* streams do and every size of the socket's buffer, the audit row tells   *)
(* what the client got, and the leases on the generation are the streams   *)
(* that have not ended.                                                    *)
(***************************************************************************)
EXTENDS RequestPolicies, ResponseStream, FiniteSetTheorems, FunctionTheorems,
        SequenceTheorems, WellFoundedInduction, TLAPS

(* ------------------------------- the types ------------------------------ *)

SessionIds == [explicit : BOOLEAN, n : Nat]
AnswerIds  == [text : Answers, events : Nat]
CacheKeys  == [prompt : {Prompt[r] : r \in Requests}, stream : BOOLEAN]
Entries    == [key : CacheKeys, answer : AnswerIds, createdAt : Nat]
Kept       == [print : Answers \cup {"stream"}, text : Answers]
Spends     == [total : Nat, fetchedAt : Nat, access : Nat]

\* Where a request is authenticated and not yet answered.
Authed == {"findSession", "createSession", "implicitSession", "touchSession", "readSpend",
           "installSpend", "execute"}
Pcs    == Authed \cup {"new", "insertKey", "rereadKey", "streaming", "audit", "done"}

States == [pc : Pcs, auth : Rows \cup {None}, session : SessionIds \cup {None}, sum : Nat,
           answer : AnswerIds \cup {None}, sent : Nat, hit : BOOLEAN]

TypeOK ==
    /\ clock \in Nat /\ key \in Rows \cup {None}
    /\ sessions \subseteq [explicit : BOOLEAN, n : Nat, last : Nat]
    /\ windows \in Seq(Nat) /\ spend \in Spends \cup {None} /\ ledger \in Seq(Nat)
    /\ observed \in [{"explicit", "implicit"} -> Seq(Kept)]
    /\ cache \in Seq(Entries)
    /\ request \in [Requests -> States]
    /\ operator \in {"idle", "revoke"} /\ edits \in Nat
    /\ admitted \in [Requests -> Nat \cup {None}] /\ lastReset \in Nat \cup {None}

(* --------------------------- the invariants ----------------------------- *)

\* The one session that requests which name it can be in.
Named == [explicit |-> TRUE, n |-> 1]

\* What the place of a request says of what it has read.
Proper(r, q) ==
    /\ q \in States
    /\ q.pc \in Authed => q.auth \in Rows
    /\ q.pc = "streaming" => q.answer \in AnswerIds
    /\ q.pc = "implicitSession" => r \notin Explicit
    /\ r \in Explicit => q.session \in {None, Named}

RequestsProper == request \in [Requests -> States] /\ \A r \in Requests : Proper(r, request[r])

\* One row for the named session, and no session used in the future.
SessionsProper ==
    /\ IsFiniteSet(sessions)
    /\ sessions \subseteq [explicit : BOOLEAN, n : Nat, last : Nat]
    /\ \A s \in sessions : s.last <= clock /\ (s.explicit => s.n = 1)
    /\ \A s, t \in sessions : s.explicit /\ t.explicit => s = t

\* The cache holds whole answers only.
WholeEntries == {e \in Entries : e.answer.events = StreamLength}
CacheWhole == cache \in Seq(WholeEntries)

\* The admissions the limiter still has to count, each at a place of its own
\* in the window.
Live == {r \in Requests : admitted[r] # None /\ admitted[r] + Window > clock}
Places(f) ==
    /\ \A r \in Live : f[r] \in DOMAIN windows /\ windows[f[r]] = admitted[r]
    /\ \A q, r \in Live : f[q] = f[r] => q = r
WindowCovers == \E f \in [Requests -> Nat] : Places(f)

\* The cached figure counts what the audit log held before it was fetched,
\* unless it was reset by hand since.
Before(t) == {i \in DOMAIN ledger : ledger[i] < t}
SpendCovers ==
    /\ \A r \in Requests :
          request[r].pc = "installSpend" => request[r].sum >= Cardinality(Before(clock))
    /\ spend # None =>
          /\ spend.fetchedAt <= clock
          /\ (lastReset = None \/ lastReset < spend.fetchedAt)
                => spend.total >= Cardinality(Before(spend.fetchedAt))
    /\ lastReset # None => lastReset <= clock

IInv == TypeOK /\ RequestsProper /\ SessionsProper /\ CacheWhole /\ WindowCovers /\ SpendCovers

(* ------------------------- lemmas about operators ----------------------- *)

\* A set of numbers has a least one.
LEMMA LeastNumber ==
    ASSUME NEW S \in SUBSET Nat, S # {}
    PROVE  Min(S) \in S /\ \A n \in S : Min(S) <= n
<1>1. PICK x \in S : \A y \in S : <<y, x>> \notin OpToRel(<, Nat)
    BY NatLessThanWellFounded, WFMin
<1>2. \A y \in S : x <= y
    <2>. TAKE y \in S
    <2>1. <<y, x>> \notin OpToRel(<, Nat)
        BY <1>1
    <2>2. x \in Nat /\ y \in Nat
        OBVIOUS
    <2>. QED  BY <2>1, <2>2 DEF OpToRel
<1>. QED  BY <1>1, <1>2 DEF Min

\* delete() leaves entries of the cache.
LEMMA WithoutType ==
    ASSUME NEW E, cache \in Seq(E), NEW k
    PROVE  Without(k) \in Seq(E)
<1>. DEFINE at == {i \in DOMAIN cache : cache[i].key = k}
<1>1. CASE at = {}
    BY <1>1 DEF Without
<1>2. CASE at # {}
    <2>1. Len(cache) \in Nat /\ DOMAIN cache = 1 .. Len(cache)
        BY LenProperties
    <2>2. Min(at) \in at
        <3>1. at \in SUBSET Nat
            BY <2>1
        <3>. QED  BY <1>2, <3>1, LeastNumber
    <2>. DEFINE m == Min(at)
    <2>3. m \in 1 .. Len(cache)
        BY <2>1, <2>2
    <2>. HIDE DEF m
    <2>4. \A i \in 1 .. Len(cache) : cache[i] \in E
        BY ElementOfSeq
    <2>5. SubSeq(cache, 1, m - 1) \in Seq(E)
        BY <2>1, <2>3, <2>4, SubSeqProperties
    <2>6. SubSeq(cache, m + 1, Len(cache)) \in Seq(E)
        BY <2>1, <2>3, <2>4, SubSeqProperties
    <2>7. RemoveAt(cache, m) \in Seq(E)
        BY <2>5, <2>6, ConcatProperties DEF RemoveAt
    <2>. QED  BY <1>2, <2>7 DEF Without, m
<1>. QED  BY <1>1, <1>2

\* set() stores the entry it is given and drops others.
LEMMA CachedType ==
    ASSUME NEW E, cache \in Seq(E), NEW k, NEW answer,
           [key |-> k, answer |-> answer, createdAt |-> clock] \in E
    PROVE  Cached(k, answer) \in Seq(E)
<1>. DEFINE all == Append(Without(k), [key |-> k, answer |-> answer, createdAt |-> clock])
<1>1. all \in Seq(E) /\ all # << >>
    BY WithoutType, AppendProperties
<1>2. Tail(all) \in Seq(E)
    BY <1>1, HeadTailProperties
<1>. QED  BY <1>1, <1>2 DEF Cached

\* A hit is an entry of the cache.
LEMMA HitInCache ==
    ASSUME NEW E, cache \in Seq(E), NEW k, Hits(k) # {}
    PROVE  cache[Min(Hits(k))] \in E
<1>1. Hits(k) \subseteq 1 .. Len(cache) /\ Len(cache) \in Nat
    BY LenProperties DEF Hits
<1>2. Min(Hits(k)) \in 1 .. Len(cache)
    BY <1>1, LeastNumber
<1>. QED  BY <1>2, ElementOfSeq

\* The most recently used of some sessions is one of them.
LEMMA LatestIsOne ==
    ASSUME SessionsProper, clock \in Nat, NEW S \in SUBSET sessions, S # {}
    PROVE  Latest(S) \in S
<1>. DEFINE ages == {clock - s.last : s \in S}
<1>1. \A s \in S : s.last \in Nat /\ clock - s.last \in Nat
    BY DEF SessionsProper
<1>2. ages \in SUBSET Nat /\ ages # {}
    BY <1>1
<1>3. PICK s \in S : clock - s.last = Min(ages)
    BY <1>2, LeastNumber
<1>4. \A t \in S : s.last >= t.last
    <2>. TAKE t \in S
    <2>1. Min(ages) <= clock - t.last
        BY <1>2, LeastNumber
    <2>. QED  BY <1>1, <1>3, <2>1
<1>. QED  BY <1>4 DEF Latest

(* ------------------------ what a step does to a request ----------------- *)

\* The step takes request r to q, which is one of the places given.
Takes(r, q, pcs) == Proper(r, q) /\ q.pc \in pcs /\ request' = [request EXCEPT ![r] = q]

\* A request that was proper stays so, and the others do.
LEMMA TakesProper ==
    ASSUME RequestsProper, NEW r \in Requests, NEW q, NEW pcs, Takes(r, q, pcs)
    PROVE  RequestsProper'
<1>1. \A x \in Requests : request'[x] = IF x = r THEN q ELSE request[x]
    BY DEF Takes, RequestsProper
<1>2. request' \in [Requests -> States]
    BY DEF Takes, Proper, RequestsProper
<1>3. \A x \in Requests : Proper(x, request'[x])
    BY <1>1 DEF Takes, RequestsProper
<1>. QED  BY <1>2, <1>3 DEF RequestsProper

\* An answered or refused request keeps its session only.
LEMMA FinishTakes ==
    ASSUME RequestsProper, NEW r \in Requests, Finish(r)
    PROVE  \E q : Takes(r, q, {"done"})
<1>. DEFINE q == [NewRequest EXCEPT !.pc = "done", !.session = request[r].session]
<1>1. Proper(r, request[r])
    BY DEF RequestsProper
<1>2. NewRequest \in States
    BY DEF NewRequest, States, Pcs
<1>a. q \in States /\ q.pc = "done" /\ q.session = request[r].session
    BY <1>1, <1>2 DEF Proper, States, Pcs
<1>. HIDE DEF q
<1>3. Proper(r, q)
    BY <1>1, <1>a DEF Proper, Authed
<1>4. request' = [request EXCEPT ![r] = q]
    BY DEF Finish, Set, q
<1>. QED  BY <1>a, <1>3, <1>4 DEF Takes

\* A request goes on to a place for which it has read what it needs.
LEMMA GotoTakes ==
    ASSUME RequestsProper, NEW r \in Requests, NEW pc \in Pcs \ {"implicitSession"},
           Goto(r, pc), pc \in Authed => request[r].auth \in Rows,
           pc = "streaming" => request[r].answer \in AnswerIds
    PROVE  \E q : Takes(r, q, {pc})
<1>. DEFINE q == [request[r] EXCEPT !.pc = pc]
<1>1. Proper(r, request[r])
    BY DEF RequestsProper
<1>2. /\ q \in States /\ q.pc = pc /\ q.auth = request[r].auth
      /\ q.answer = request[r].answer /\ q.session = request[r].session
    BY <1>1 DEF Proper, States
<1>. HIDE DEF q
<1>3. Proper(r, q)
    BY <1>1, <1>2 DEF Proper
<1>4. request' = [request EXCEPT ![r] = q]
    BY DEF Goto, Set, q
<1>. QED  BY <1>2, <1>3, <1>4 DEF Takes

\* Authentication lets a request in with the row it read, or refuses it.
LEMMA AuthenticatedTakes ==
    ASSUME RequestsProper, NEW r \in Requests, NEW row \in Rows \cup {None},
           Authenticated(r, row)
    PROVE  \E q : Takes(r, q, {"done", "findSession", "implicitSession"})
<1>1. CASE Denies(row)
    <2>1. PICK q : Takes(r, q, {"done"})
        BY <1>1, FinishTakes DEF Authenticated
    <2>. QED  BY <2>1 DEF Takes
<1>2. CASE ~Denies(row)
    <2>. DEFINE pc == IF r \in Explicit THEN "findSession" ELSE "implicitSession"
                q  == [request[r] EXCEPT !.auth = row, !.pc = pc]
    <2>1. Proper(r, request[r])
        BY DEF RequestsProper
    <2>2. row \in Rows
        BY <1>2 DEF Denies
    <2>3. pc \in {"findSession", "implicitSession"} /\ (pc = "implicitSession" => r \notin Explicit)
        OBVIOUS
    <2>4. pc \in Pcs
        BY <2>3 DEF Pcs, Authed
    <2>5. request' = [request EXCEPT ![r] = q]
        BY <1>2 DEF Authenticated, Set
    <2>. HIDE DEF pc
    <2>6. q \in States /\ q.pc = pc /\ q.auth = row /\ q.session = request[r].session
        BY <2>1, <2>2, <2>4 DEF Proper, States
    <2>. HIDE DEF q
    <2>7. Proper(r, q)
        BY <2>1, <2>2, <2>3, <2>6 DEF Proper
    <2>. QED  BY <2>3, <2>5, <2>6, <2>7 DEF Takes
<1>. QED  BY <1>1, <1>2

\* A session is found: a named one is the one row there is.
LEMMA InSessionTakes ==
    ASSUME RequestsProper, NEW r \in Requests, request[r].auth \in Rows,
           NEW s \in [explicit : BOOLEAN, n : Nat, last : Nat], InSession(r, s),
           r \in Explicit => s.explicit = TRUE /\ s.n = 1
    PROVE  \E q : Takes(r, q, {"touchSession"})
<1>. DEFINE id == [explicit |-> s.explicit, n |-> s.n]
            q  == [request[r] EXCEPT !.session = id, !.pc = "touchSession"]
<1>1. Proper(r, request[r])
    BY DEF RequestsProper
<1>2. id \in SessionIds /\ (r \in Explicit => id = Named)
    BY DEF SessionIds, Named
<1>3. request' = [request EXCEPT ![r] = q]
    BY DEF InSession, Set
<1>. HIDE DEF id
<1>4. /\ q \in States /\ q.pc = "touchSession" /\ q.auth = request[r].auth
      /\ q.session = id
    BY <1>1, <1>2 DEF Proper, States, Pcs, Authed
<1>. HIDE DEF q
<1>5. Proper(r, q)
    BY <1>1, <1>2, <1>4 DEF Proper
<1>. QED  BY <1>3, <1>4, <1>5 DEF Takes

\* An answer goes back up the policies; the loop detector keeps it.
LEMMA AnsweredTakes ==
    ASSUME TypeOK, RequestsProper, NEW r \in Requests, NEW answer \in AnswerIds,
           NEW hit \in BOOLEAN, Answered(r, answer, hit)
    PROVE  /\ \E q : Takes(r, q, {"streaming", "audit"})
           /\ observed' \in [{"explicit", "implicit"} -> Seq(Kept)]
<1>. DEFINE pc == IF r \in Streaming THEN "streaming" ELSE "audit"
            q  == [request[r] EXCEPT !.pc = pc, !.answer = answer, !.hit = hit]
<1>1. Proper(r, request[r])
    BY DEF RequestsProper
<1>2. pc \in {"streaming", "audit"}
    OBVIOUS
<1>3. request' = [request EXCEPT ![r] = q]
    BY DEF Answered, Set
<1>. HIDE DEF pc
<1>4. q \in States /\ q.pc = pc /\ q.answer = answer /\ q.session = request[r].session
    BY <1>1, <1>2 DEF Proper, States, Pcs
<1>. HIDE DEF q
<1>5. Proper(r, q)
    BY <1>1, <1>2, <1>4 DEF Proper, Authed
<1>6. \E z : Takes(r, z, {"streaming", "audit"})
    BY <1>2, <1>3, <1>4, <1>5 DEF Takes
<1>. DEFINE o == [print |-> Fingerprint(r, answer), text |-> answer.text]
<1>7. o \in Kept
    BY DEF Kept, Fingerprint, AnswerIds
<1>. HIDE DEF o
<1>8. ASSUME NEW kept \in Seq(Kept)
      PROVE  Remembered(kept, o) \in Seq(Kept)
    <2>. DEFINE all == Append(kept, o)
    <2>1. all \in Seq(Kept)
        BY <1>7, AppendProperties
    <2>2. LoopWindow \in Nat /\ Len(all) \in Nat
        BY <2>1, TimesAssumption, LenProperties
    <2>3. \A i \in 1 .. Len(all) : all[i] \in Kept
        BY <2>1, ElementOfSeq
    <2>. HIDE DEF all
    <2>4. ASSUME Len(all) > 2 * LoopWindow
          PROVE  SubSeq(all, Len(all) - LoopWindow + 1, Len(all)) \in Seq(Kept)
        <3>1. \A i \in Len(all) - LoopWindow + 1 .. Len(all) : all[i] \in Kept
            BY <2>2, <2>3, <2>4
        <3>2. Len(all) - LoopWindow + 1 \in Int /\ Len(all) \in Int
            BY <2>2
        <3>. QED  BY <3>1, <3>2, SubSeqProperties
    <2>. QED  BY <2>1, <2>4 DEF Remembered, all
<1>9. observed' = [observed EXCEPT ![SessionKey(r)] = Remembered(@, o)]
    BY DEF Answered, o
<1>10. SessionKey(r) \in {"explicit", "implicit"}
    BY DEF SessionKey
<1>11. observed' \in [{"explicit", "implicit"} -> Seq(Kept)]
    BY <1>8, <1>9, <1>10 DEF TypeOK
<1>. QED  BY <1>6, <1>11

(* ------------------------- what stays as it was ------------------------- *)

\* The types follow from those of the parts.
LEMMA TypesOfParts ==
    ASSUME RequestsProper', SessionsProper', CacheWhole',
           clock' \in Nat, key' \in Rows \cup {None}, windows' \in Seq(Nat),
           spend' \in Spends \cup {None}, ledger' \in Seq(Nat),
           observed' \in [{"explicit", "implicit"} -> Seq(Kept)],
           operator' \in {"idle", "revoke"}, edits' \in Nat,
           admitted' \in [Requests -> Nat \cup {None}], lastReset' \in Nat \cup {None}
    PROVE  TypeOK'
<1>1. WholeEntries \subseteq Entries
    BY DEF WholeEntries
<1>2. cache' \in Seq(Entries)
    BY <1>1, SeqMonotonic DEF CacheWhole
<1>. QED  BY <1>2 DEF TypeOK, RequestsProper, SessionsProper

\* Nobody is let in and no window is looked at: the window covers what it did.
LEMMA WindowKept ==
    ASSUME WindowCovers, UNCHANGED <<clock, windows, admitted>>
    PROVE  WindowCovers'
BY DEF WindowCovers, Places, Live

\* A request that does not come to the end of a refresh leaves the figures alone,
\* although it may look at the entry.
LEMMA SpendKept ==
    ASSUME TypeOK, RequestsProper, SpendCovers, NEW r \in Requests, NEW q, NEW pcs,
           Takes(r, q, pcs), "installSpend" \notin pcs,
           UNCHANGED <<clock, ledger, lastReset>>,
           spend' = spend \/ spend' = Touched
    PROVE  SpendCovers'
<1>1. \A t : Before(t)' = Before(t)
    BY DEF Before
<1>2. ASSUME NEW x \in Requests, request'[x].pc = "installSpend"
      PROVE  request'[x] = request[x]
    BY <1>2 DEF Takes, RequestsProper
<1>3. spend' = spend \/ (spend # None /\ spend'.total = spend.total
                                     /\ spend'.fetchedAt = spend.fetchedAt)
    BY DEF TypeOK, Touched, Spends
<1>4. spend = None => spend' = None
    BY DEF Touched
<1>. QED  BY <1>1, <1>2, <1>3, <1>4 DEF SpendCovers

\* A request that only goes on, past the key, its session, the model or the
\* events of its stream.
LEMMA GoesOn ==
    ASSUME IInv, NEW r \in Requests, NEW q, NEW pcs, Takes(r, q, pcs),
           "installSpend" \notin pcs,
           UNCHANGED <<clock, windows, spend, ledger, admitted, operator, edits, lastReset>>,
           key' \in Rows \cup {None}, SessionsProper', CacheWhole',
           observed' \in [{"explicit", "implicit"} -> Seq(Kept)]
    PROVE  IInv'
<1>1. RequestsProper'
    BY TakesProper DEF IInv
<1>2. TypeOK'
    BY <1>1, TypesOfParts DEF IInv, TypeOK
<1>3. WindowCovers'
    BY WindowKept DEF IInv
<1>4. SpendCovers'
    BY SpendKept DEF IInv
<1>. QED  BY <1>1, <1>2, <1>3, <1>4 DEF IInv

\* The sessions are what they were.
LEMMA SessionsKept ==
    ASSUME SessionsProper, UNCHANGED <<clock, sessions>>
    PROVE  SessionsProper'
BY DEF SessionsProper

\* The cache is what it was.
LEMMA CacheKept ==
    ASSUME CacheWhole, UNCHANGED cache
    PROVE  CacheWhole'
BY DEF CacheWhole

\* The row of a subject seen for the first time.
LEMMA DefaultRowType == DefaultRow \in Rows
BY TimesAssumption DEF DefaultRow, Rows

(* ---------------------------- authentication ---------------------------- *)

\* Authentication, whatever the order of two first uses.
LEMMA AuthenticationStep ==
    ASSUME IInv, NEW r \in Requests, Arrive(r) \/ InsertKey(r) \/ RereadKey(r)
    PROVE  IInv'
<1>1. key \in Rows \cup {None}
    BY DEF IInv, TypeOK
<1>2. /\ UNCHANGED <<clock, sessions, windows, spend, ledger, observed, cache, admitted,
                     operator, edits, lastReset>>
      /\ key' \in Rows \cup {None}
    BY <1>1, DefaultRowType DEF Arrive, InsertKey, RereadKey
<1>3. \E row \in Rows \cup {None} :
        \/ Finish(r) \/ Goto(r, "insertKey") \/ Goto(r, "rereadKey") \/ Authenticated(r, row)
    BY <1>1, DefaultRowType DEF Arrive, InsertKey, RereadKey
<1>4. RequestsProper
    BY DEF IInv
<1>5. \E q : Takes(r, q, Pcs \ {"installSpend"})
    <2>1. CASE Finish(r)
        BY <2>1, <1>4, FinishTakes DEF Takes, Pcs, Authed
    <2>2. CASE Goto(r, "insertKey")
        <3>1. \E q : Takes(r, q, {"insertKey"})
            BY <2>2, <1>4, GotoTakes DEF Pcs, Authed
        <3>. QED  BY <3>1 DEF Takes, Pcs, Authed
    <2>3. CASE Goto(r, "rereadKey")
        <3>1. \E q : Takes(r, q, {"rereadKey"})
            BY <2>3, <1>4, GotoTakes DEF Pcs, Authed
        <3>. QED  BY <3>1 DEF Takes, Pcs, Authed
    <2>4. CASE \E row \in Rows \cup {None} : Authenticated(r, row)
        <3>1. \E q : Takes(r, q, {"done", "findSession", "implicitSession"})
            BY <2>4, <1>4, AuthenticatedTakes
        <3>. QED  BY <3>1 DEF Takes, Pcs, Authed
    <2>. QED  BY <2>1, <2>2, <2>3, <2>4, <1>3
<1>6. SessionsProper' /\ CacheWhole'
    BY <1>2, SessionsKept, CacheKept DEF IInv
<1>7. observed' \in [{"explicit", "implicit"} -> Seq(Kept)]
    BY <1>2 DEF IInv, TypeOK
<1>. QED  BY <1>2, <1>5, <1>6, <1>7, GoesOn

(* ------------------------------- sessions ------------------------------- *)

\* A row that is inserted when there is none of its kind, or not a named one.
LEMMA SessionInserted ==
    ASSUME SessionsProper, clock \in Nat, UNCHANGED clock, NEW explicit \in BOOLEAN,
           NEW n \in Nat, explicit => n = 1 /\ RowsOf(TRUE) = {},
           sessions' = sessions \cup {[explicit |-> explicit, n |-> n, last |-> clock]}
    PROVE  SessionsProper'
<1>1. IsFiniteSet(sessions')
    BY FS_AddElement DEF SessionsProper
<1>2. ASSUME NEW s \in sessions, s.explicit
      PROVE  RowsOf(TRUE) # {}
    <2>1. s.explicit \in BOOLEAN
        BY DEF SessionsProper
    <2>2. s.explicit = TRUE
        BY <1>2, <2>1
    <2>. QED  BY <2>2 DEF RowsOf
<1>. DEFINE new == [explicit |-> explicit, n |-> n, last |-> clock]
<1>3. /\ new \in [explicit : BOOLEAN, n : Nat, last : Nat]
      /\ new.last = clock /\ new.n = n /\ new.explicit = explicit
    OBVIOUS
<1>4. sessions' = sessions \cup {new}
    OBVIOUS
<1>. HIDE DEF new
<1>5. sessions' \subseteq [explicit : BOOLEAN, n : Nat, last : Nat]
    BY <1>3, <1>4 DEF SessionsProper
<1>6. ASSUME NEW s \in sessions'
      PROVE  s.last <= clock /\ (s.explicit => s.n = 1)
    <2>1. CASE s = new
        <3>1. explicit => n = 1
            OBVIOUS
        <3>2. CASE explicit = TRUE
            BY <2>1, <1>3, <3>1, <3>2
        <3>3. CASE explicit = FALSE
            BY <2>1, <1>3, <3>3
        <3>. QED  BY <3>2, <3>3
    <2>2. CASE s \in sessions
        BY <2>2 DEF SessionsProper
    <2>. QED  BY <2>1, <2>2, <1>4
<1>7. ASSUME NEW s \in sessions', NEW t \in sessions', s.explicit /\ t.explicit
      PROVE  s = t
    <2>1. CASE s = new \/ t = new
        <3>1. explicit
            BY <2>1, <1>3, <1>7
        <3>2. \A x \in sessions : ~x.explicit
            BY <3>1, <1>2
        <3>. QED  BY <3>2, <1>4, <1>7
    <2>2. CASE s # new /\ t # new
        BY <2>2, <1>4, <1>7 DEF SessionsProper
    <2>. QED  BY <2>1, <2>2
<1>. QED  BY <1>1, <1>5, <1>6, <1>7 DEF SessionsProper

\* One more than there are is a number.
LEMMA OneMore ==
    ASSUME NEW S, IsFiniteSet(S)
    PROVE  Cardinality(S) + 1 \in Nat
<1>1. Cardinality(S) \in Nat
    BY FS_CardinalityType
<1>. QED  BY <1>1

\* The number an implicit session gets.
LEMMA ImplicitNumber ==
    ASSUME SessionsProper
    PROVE  Cardinality(RowsOf(FALSE)) + 1 \in Nat
<1>1. RowsOf(FALSE) \in SUBSET sessions /\ IsFiniteSet(sessions)
    BY DEF SessionsProper, RowsOf
<1>2. IsFiniteSet(RowsOf(FALSE))
    BY <1>1, FS_Subset
<1>. QED  BY <1>2, OneMore

\* A request looks up its session or makes one.
LEMMA SessionStep ==
    ASSUME IInv, NEW r \in Requests,
           FindSession(r) \/ CreateSession(r) \/ FindOrCreateImplicit(r)
    PROVE  IInv'
<1>1. /\ UNCHANGED <<clock, key, windows, spend, ledger, observed, cache, admitted,
                     operator, edits, lastReset>>
      /\ key' \in Rows \cup {None} /\ clock \in Nat
      /\ observed' \in [{"explicit", "implicit"} -> Seq(Kept)]
    BY DEF IInv, TypeOK, FindSession, CreateSession, FindOrCreateImplicit
<1>2. RequestsProper /\ SessionsProper /\ CacheWhole'
    BY <1>1, CacheKept DEF IInv
<1>3. Proper(r, request[r]) /\ request[r].auth \in Rows
    BY <1>2 DEF RequestsProper, Proper, FindSession, CreateSession, FindOrCreateImplicit, At,
       Authed
<1>4. SessionsProper' /\ \E q : Takes(r, q, {"done", "createSession", "touchSession"})
    <2>1. CASE FindSession(r)
        <3>1. CASE RowsOf(TRUE) = {}
            <4>1. Goto(r, "createSession")
                BY <2>1, <3>1 DEF FindSession
            <4>2. \E q : Takes(r, q, {"createSession"})
                BY <4>1, <1>2, <1>3, GotoTakes DEF Pcs, Authed
            <4>. QED  BY <2>1, <1>1, <1>2, <4>2, SessionsKept DEF FindSession, Takes
        <3>2. CASE RowsOf(TRUE) # {}
            <4>1. Latest(RowsOf(TRUE)) \in RowsOf(TRUE)
                BY <1>1, <1>2, <3>2, LatestIsOne DEF RowsOf
            <4>. DEFINE s == Latest(RowsOf(TRUE))
            <4>2. s \in [explicit : BOOLEAN, n : Nat, last : Nat] /\ s.explicit = TRUE /\ s.n = 1
                BY <4>1, <1>2 DEF RowsOf, SessionsProper
            <4>3. InSession(r, s)
                BY <2>1, <3>2 DEF FindSession
            <4>. HIDE DEF s
            <4>4. \E q : Takes(r, q, {"touchSession"})
                BY <4>2, <4>3, <1>2, <1>3, InSessionTakes
            <4>. QED  BY <2>1, <1>1, <1>2, <4>4, SessionsKept DEF FindSession, Takes
        <3>. QED  BY <3>1, <3>2
    <2>2. CASE CreateSession(r)
        <3>. DEFINE s == [explicit |-> TRUE, n |-> 1, last |-> clock]
        <3>1. CASE RowsOf(TRUE) = {}
            <4>1. sessions' = sessions \cup {s} /\ InSession(r, s)
                BY <2>2, <3>1 DEF CreateSession
            <4>2. SessionsProper'
                BY <4>1, <3>1, <1>1, <1>2, SessionInserted
            <4>3. s \in [explicit : BOOLEAN, n : Nat, last : Nat] /\ s.explicit = TRUE /\ s.n = 1
                BY <1>1
            <4>. HIDE DEF s
            <4>4. \E q : Takes(r, q, {"touchSession"})
                BY <4>1, <4>3, <1>2, <1>3, InSessionTakes
            <4>. QED  BY <4>2, <4>4 DEF Takes
        <3>2. CASE RowsOf(TRUE) # {}
            <4>1. Finish(r) /\ UNCHANGED sessions
                BY <2>2, <3>2 DEF CreateSession
            <4>2. \E q : Takes(r, q, {"done"})
                BY <4>1, <1>2, FinishTakes
            <4>. QED  BY <4>1, <4>2, <1>1, <1>2, SessionsKept DEF Takes
        <3>. QED  BY <3>1, <3>2
    <2>3. CASE FindOrCreateImplicit(r)
        <3>. DEFINE live == {s \in RowsOf(FALSE) : s.last + SessionTimeout > clock}
                    n == Cardinality(RowsOf(FALSE)) + 1
                    s == [explicit |-> FALSE, n |-> n, last |-> clock]
        <3>0. r \notin Explicit
            BY <2>3, <1>3 DEF FindOrCreateImplicit, At, Proper
        <3>1. CASE live # {}
            <4>. DEFINE t == Latest(live)
            <4>1. UNCHANGED sessions /\ InSession(r, t)
                BY <2>3, <3>1 DEF FindOrCreateImplicit
            <4>2. live \in SUBSET sessions
                BY DEF RowsOf
            <4>3. t \in live
                BY <1>1, <1>2, <3>1, <4>2, LatestIsOne
            <4>4. t \in [explicit : BOOLEAN, n : Nat, last : Nat]
                BY <4>2, <4>3, <1>2 DEF SessionsProper
            <4>. HIDE DEF t
            <4>5. \E q : Takes(r, q, {"touchSession"})
                BY <4>1, <4>4, <3>0, <1>2, <1>3, InSessionTakes
            <4>. QED  BY <4>1, <4>5, <1>1, <1>2, SessionsKept DEF Takes
        <3>2. CASE live = {}
            <4>1. sessions' = sessions \cup {s} /\ InSession(r, s)
                BY <2>3, <3>2 DEF FindOrCreateImplicit
            <4>2. n \in Nat
                BY <1>2, ImplicitNumber
            <4>. HIDE DEF n
            <4>3. SessionsProper'
                BY <4>1, <4>2, <1>1, <1>2, SessionInserted
            <4>4. s \in [explicit : BOOLEAN, n : Nat, last : Nat]
                BY <1>1, <4>2
            <4>. HIDE DEF s
            <4>5. \E q : Takes(r, q, {"touchSession"})
                BY <4>1, <4>4, <3>0, <1>2, <1>3, InSessionTakes
            <4>. QED  BY <4>3, <4>5 DEF Takes
        <3>. QED  BY <3>1, <3>2
    <2>. QED  BY <2>1, <2>2, <2>3
<1>. QED  BY <1>1, <1>2, <1>4, GoesOn

(* ----------------------------- the policies ----------------------------- *)

\* The loop detector and the cache: refused, answered from the cache, or on to
\* the model.
LEMMA OnwardTakes ==
    ASSUME TypeOK, RequestsProper, CacheWhole, NEW r \in Requests, request[r].auth \in Rows,
           Onward(r)
    PROVE  /\ \E q : Takes(r, q, {"done", "execute", "streaming", "audit"})
           /\ CacheWhole'
           /\ observed' \in [{"explicit", "implicit"} -> Seq(Kept)]
<1>. DEFINE k == CacheKey(r)
            hit == cache[Min(Hits(k))]
<1>0. observed \in [{"explicit", "implicit"} -> Seq(Kept)]
    BY DEF TypeOK
<1>1. CASE Loops(observed[SessionKey(r)])
    <2>1. Finish(r) /\ UNCHANGED <<cache, observed>>
        BY <1>1 DEF Onward
    <2>2. \E q : Takes(r, q, {"done"})
        BY <2>1, FinishTakes
    <2>. QED  BY <2>1, <2>2, <1>0, CacheKept DEF Takes
<1>2. CASE ~Loops(observed[SessionKey(r)]) /\ Hits(k) = {}
    <2>1. cache' = Without(k) /\ Goto(r, "execute") /\ observed' = observed
        BY <1>2 DEF Onward
    <2>2. \E q : Takes(r, q, {"execute"})
        BY <2>1, GotoTakes DEF Pcs, Authed
    <2>3. CacheWhole'
        BY <2>1, WithoutType DEF CacheWhole
    <2>. QED  BY <2>1, <2>2, <2>3, <1>0 DEF Takes
<1>3. CASE ~Loops(observed[SessionKey(r)]) /\ Hits(k) # {}
    <2>1. cache' = Append(Without(k), hit) /\ Answered(r, hit.answer, TRUE)
        BY <1>3 DEF Onward
    <2>2. hit \in WholeEntries
        BY <1>3, HitInCache DEF CacheWhole
    <2>3. hit.answer \in AnswerIds
        BY <2>2 DEF WholeEntries, Entries
    <2>4. /\ \E q : Takes(r, q, {"streaming", "audit"})
          /\ observed' \in [{"explicit", "implicit"} -> Seq(Kept)]
        BY <2>1, <2>3, AnsweredTakes
    <2>. HIDE DEF k, hit
    <2>5. CacheWhole'
        BY <2>1, <2>2, WithoutType, AppendProperties DEF CacheWhole
    <2>. QED  BY <2>4, <2>5 DEF Takes
<1>. QED  BY <1>1, <1>2, <1>3

\* A policy refuses the request.
LEMMA RefuseTakes ==
    ASSUME TypeOK, RequestsProper, CacheWhole, NEW r \in Requests, Refuse(r)
    PROVE  /\ \E q : Takes(r, q, {"done"})
           /\ CacheWhole'
           /\ observed' \in [{"explicit", "implicit"} -> Seq(Kept)]
<1>1. \E q : Takes(r, q, {"done"})
    BY FinishTakes DEF Refuse
<1>. QED  BY <1>1, CacheKept DEF Refuse, TypeOK

\* The budget lets the request on, refuses it, or reads the audit log first.
LEMMA BudgetedTakes ==
    ASSUME TypeOK, RequestsProper, CacheWhole, NEW r \in Requests, request[r].auth \in Rows,
           Budgeted(r)
    PROVE  /\ \E q : Takes(r, q, {"done", "readSpend", "execute", "streaming", "audit"})
           /\ CacheWhole'
           /\ observed' \in [{"explicit", "implicit"} -> Seq(Kept)]
           /\ spend' = spend \/ spend' = Touched
<1>1. CASE Onward(r)
    BY <1>1, OnwardTakes DEF Budgeted, Takes
<1>2. CASE Refuse(r)
    BY <1>2, RefuseTakes DEF Budgeted, Takes
<1>3. CASE Goto(r, "readSpend") /\ UNCHANGED <<cache, observed>>
    <2>1. \E q : Takes(r, q, {"readSpend"})
        BY <1>3, GotoTakes DEF Pcs, Authed
    <2>. QED  BY <2>1, <1>3, CacheKept DEF Budgeted, Takes, TypeOK
<1>. QED  BY <1>1, <1>2, <1>3 DEF Budgeted

\* The window after the cutoff, and where its times were.
LEMMA CountedProperties ==
    ASSUME TypeOK
    PROVE  /\ Counted(windows) \in Seq(Nat)
           /\ \E d \in Nat :
                /\ Len(Counted(windows)) = Len(windows) - d
                /\ \A i \in DOMAIN windows : windows[i] + Window > clock
                      => i - d \in 1 .. Len(Counted(windows)) /\ Counted(windows)[i - d] = windows[i]
<1>. DEFINE counted == {i \in DOMAIN windows : windows[i] + Window > clock}
            m == Min(counted)
            n == Len(windows)
<1>1. windows \in Seq(Nat) /\ n \in Nat /\ DOMAIN windows = 1 .. n
    BY LenProperties DEF TypeOK
<1>2. CASE counted = {}
    <2>1. Counted(windows) = << >>
        BY <1>2 DEF Counted, From
    <2>2. Len(Counted(windows)) = n - n
        BY <2>1, <1>1, EmptySeq
    <2>. QED  BY <1>1, <1>2, <2>1, <2>2, EmptySeq
<1>3. CASE counted # {}
    <2>1. Counted(windows) = SubSeq(windows, m, n)
        BY <1>3 DEF Counted, From
    <2>2. counted \in SUBSET Nat
        BY <1>1
    <2>3. m \in counted /\ \A i \in counted : m <= i
        BY <1>3, <2>2, LeastNumber
    <2>4. m \in 1 .. n
        BY <1>1, <2>3
    <2>. HIDE DEF m
    <2>5. \A i \in m .. n : windows[i] \in Nat
        BY <1>1, <2>4, ElementOfSeq
    <2>6. /\ SubSeq(windows, m, n) \in Seq(Nat)
          /\ Len(SubSeq(windows, m, n)) = n - m + 1
          /\ \A i \in 1 .. n - m + 1 : SubSeq(windows, m, n)[i] = windows[m + i - 1]
        BY <1>1, <2>4, <2>5, SubSeqProperties
    <2>7. m - 1 \in Nat /\ Len(Counted(windows)) = n - (m - 1)
        BY <1>1, <2>1, <2>4, <2>6
    <2>8. ASSUME NEW i \in counted
          PROVE  /\ i - (m - 1) \in 1 .. Len(Counted(windows))
                 /\ Counted(windows)[i - (m - 1)] = windows[i]
        <3>1. i \in 1 .. n /\ m <= i
            BY <1>1, <2>3
        <3>2. i - (m - 1) \in 1 .. n - m + 1 /\ m + (i - (m - 1)) - 1 = i
            BY <1>1, <2>4, <3>1
        <3>. QED  BY <3>2, <2>1, <2>6
    <2>. QED  BY <2>1, <2>6, <2>7, <2>8
<1>. QED  BY <1>2, <1>3

\* The places left in the window, after the cutoff and perhaps a new time.
LEMMA WindowMoves ==
    ASSUME TypeOK, WindowCovers, NEW r \in Requests, UNCHANGED clock,
           \/ windows' = Counted(windows) /\ UNCHANGED admitted
           \/ windows' = Append(Counted(windows), clock)
                /\ admitted' = [admitted EXCEPT ![r] = clock]
    PROVE  WindowCovers' /\ windows' \in Seq(Nat)
<1>. DEFINE w == Counted(windows)
<1>1. PICK f \in [Requests -> Nat] : Places(f)
    BY DEF WindowCovers
<1>2. /\ w \in Seq(Nat) /\ Len(w) \in Nat
      /\ \E d \in Nat :
           \A i \in DOMAIN windows : windows[i] + Window > clock
                => i - d \in 1 .. Len(w) /\ w[i - d] = windows[i]
    BY CountedProperties, LenProperties
<1>3. PICK d \in Nat : \A i \in DOMAIN windows : windows[i] + Window > clock
                           => i - d \in 1 .. Len(w) /\ w[i - d] = windows[i]
    BY <1>2
<1>. HIDE DEF w
<1>4. clock \in Nat
    BY DEF TypeOK
<1>5. \A q \in Live : f[q] - d \in 1 .. Len(w) /\ w[f[q] - d] = admitted[q]
    BY <1>1, <1>3 DEF Places, Live
<1>6. \A p, q \in Live : f[p] - d = f[q] - d => p = q
    <2>. SUFFICES ASSUME NEW p \in Live, NEW q \in Live, f[p] - d = f[q] - d
                  PROVE  p = q
        OBVIOUS
    <2>1. f[p] \in Nat /\ f[q] \in Nat
        BY <1>1 DEF Live
    <2>2. f[p] = f[q]
        BY <2>1
    <2>. QED  BY <2>2, <1>1 DEF Places
<1>7. CASE windows' = w /\ UNCHANGED admitted
    <2>1. PICK g \in [Requests -> Nat] : \A q \in Live : g[q] = f[q] - d
        <3>. DEFINE h == [q \in Requests |-> IF q \in Live THEN f[q] - d ELSE 0]
        <3>1. h \in [Requests -> Nat] /\ \A q \in Live : h[q] = f[q] - d
            BY <1>5 DEF Live
        <3>. QED  BY <3>1
    <2>2. Live' = Live
        BY <1>7 DEF Live
    <2>3. DOMAIN windows' = 1 .. Len(w)
        BY <1>2, <1>7, LenProperties
    <2>4. ASSUME NEW q \in Live'
          PROVE  g[q] \in DOMAIN windows' /\ windows'[g[q]] = admitted'[q]
        <3>1. g[q] = f[q] - d /\ f[q] - d \in 1 .. Len(w) /\ w[f[q] - d] = admitted[q]
            BY <1>5, <2>1, <2>2
        <3>. QED  BY <3>1, <2>3, <1>7
    <2>5. \A p, q \in Live' : g[p] = g[q] => p = q
        BY <1>6, <2>1, <2>2
    <2>6. Places(g)'
        BY <2>4, <2>5 DEF Places
    <2>. QED  BY <2>1, <2>6, <1>2, <1>7 DEF WindowCovers
<1>8. CASE windows' = Append(w, clock) /\ admitted' = [admitted EXCEPT ![r] = clock]
    <2>1. PICK g \in [Requests -> Nat] :
             g[r] = Len(w) + 1 /\ \A q \in Live : q # r => g[q] = f[q] - d
        <3>. DEFINE h == [q \in Requests |-> IF q = r THEN Len(w) + 1
                                            ELSE IF q \in Live THEN f[q] - d ELSE 0]
        <3>1. /\ h \in [Requests -> Nat] /\ h[r] = Len(w) + 1
              /\ \A q \in Live : q # r => h[q] = f[q] - d
            BY <1>2, <1>5 DEF Live
        <3>. QED  BY <3>1
    <2>2. /\ \A q \in Live' : q = r \/ q \in Live
          /\ \A q \in Live : q # r => admitted'[q] = admitted[q]
          /\ admitted'[r] = clock
        BY <1>8 DEF Live, TypeOK
    <2>3. /\ windows' \in Seq(Nat) /\ Len(windows') = Len(w) + 1
          /\ windows'[Len(w) + 1] = clock
          /\ \A i \in 1 .. Len(w) : windows'[i] = w[i]
        BY <1>2, <1>4, <1>8, AppendProperties
    <2>4. DOMAIN windows' = 1 .. Len(w) + 1
        BY <2>3, LenProperties
    <2>5. ASSUME NEW q \in Live'
          PROVE  g[q] \in DOMAIN windows' /\ windows'[g[q]] = admitted'[q]
        <3>1. CASE q = r
            BY <3>1, <1>2, <2>1, <2>2, <2>3, <2>4
        <3>2. CASE q # r
            <4>1. g[q] = f[q] - d /\ f[q] - d \in 1 .. Len(w) /\ w[f[q] - d] = admitted[q]
                BY <3>2, <1>5, <2>1, <2>2
            <4>. HIDE DEF Len
            <4>. QED  BY <4>1, <3>2, <1>2, <2>2, <2>3, <2>4
        <3>. QED  BY <3>1, <3>2
    <2>6. ASSUME NEW p \in Live', NEW q \in Live', g[p] = g[q]
          PROVE  p = q
        <3>1. CASE p # r /\ q # r
            BY <3>1, <1>6, <2>1, <2>2, <2>6
        <3>2. ASSUME NEW x \in Live', x # r
              PROVE  g[x] # g[r]
            <4>1. g[x] \in 1 .. Len(w)
                BY <3>2, <1>5, <2>1, <2>2
            <4>. QED  BY <4>1, <1>2, <2>1
        <3>3. CASE p = r \/ q = r
            BY <3>2, <3>3, <2>6
        <3>. QED  BY <3>1, <3>3
    <2>7. Places(g)'
        BY <2>5, <2>6 DEF Places
    <2>. QED  BY <2>1, <2>3, <2>7 DEF WindowCovers
<1>. QED  BY <1>7, <1>8 DEF w

\* What the limiter compares with the limit is at least what it must count.
LEMMA WindowBound ==
    ASSUME TypeOK, WindowCovers
    PROVE  /\ Cardinality(Live) \in Nat /\ Len(Counted(windows)) \in Nat
           /\ Cardinality(Live) <= Len(Counted(windows))
<1>. DEFINE w == Counted(windows)
<1>1. PICK f \in [Requests -> Nat] : Places(f)
    BY DEF WindowCovers
<1>2. w \in Seq(Nat) /\ Len(w) \in Nat
    BY CountedProperties, LenProperties
<1>3. PICK d \in Nat : \A i \in DOMAIN windows : windows[i] + Window > clock
                           => i - d \in 1 .. Len(w) /\ w[i - d] = windows[i]
    BY CountedProperties
<1>. HIDE DEF w
<1>. DEFINE n == Len(w)
            g == [q \in Live |-> f[q] - d]
<1>4. \A q \in Live : f[q] \in Nat /\ f[q] - d \in 1 .. n
    BY <1>1, <1>3 DEF Places, Live
<1>5. \A p, q \in Live : f[p] = f[q] => p = q
    BY <1>1 DEF Places
<1>6. n \in Nat
    BY <1>2
<1>. HIDE DEF n
<1>7. g \in [Live -> 1 .. n]
    BY <1>4
<1>8. \A p, q \in Live : g[p] = g[q] => p = q
    BY <1>4, <1>5
<1>. HIDE DEF g
<1>9. g \in Injection(Live, 1 .. n)
    BY <1>7, <1>8 DEF Injection, IsInjective
<1>10. IsFiniteSet(1 .. n) /\ Cardinality(1 .. n) = n
    BY <1>6, FS_Interval
<1>11. Cardinality(Live) <= n
    BY <1>9, <1>10, FS_Injection
<1>12. Cardinality(Live) \in Nat
    BY <1>9, <1>10, FS_Injection, FS_CardinalityType
<1>. QED  BY <1>6, <1>11, <1>12 DEF n, w

\* The session that is used is still as it was, but for its time.
LEMMA SessionUsed ==
    ASSUME SessionsProper, clock \in Nat, UNCHANGED clock, NEW own, sessions' = Refreshed(own)
    PROVE  SessionsProper'
<1>. DEFINE New(s) == IF s.explicit = own.explicit /\ s.n = own.n
                      THEN [s EXCEPT !.last = clock] ELSE s
            f == [s \in sessions |-> New(s)]
<1>1. sessions' = {New(s) : s \in sessions}
    BY DEF Refreshed
<1>2. ASSUME NEW s \in sessions
      PROVE  /\ New(s) \in [explicit : BOOLEAN, n : Nat, last : Nat]
             /\ New(s).explicit = s.explicit /\ New(s).n = s.n
             /\ New(s).last <= clock
    BY DEF SessionsProper
<1>3. IsFiniteSet(sessions')
    <2>1. \A t \in sessions' : \E s \in sessions : f[s] = t
        BY <1>1
    <2>2. f \in [sessions -> sessions']
        BY <1>1
    <2>3. f \in Surjection(sessions, sessions')
        BY <2>1, <2>2 DEF Surjection
    <2>. HIDE DEF f
    <2>. QED  BY <2>3, FS_Surjection DEF SessionsProper
<1>. HIDE DEF New
<1>4. \A t \in sessions' : \E s \in sessions : t = New(s)
    BY <1>1
<1>5. sessions' \subseteq [explicit : BOOLEAN, n : Nat, last : Nat]
    BY <1>2, <1>4
<1>6. ASSUME NEW t \in sessions'
      PROVE  t.last <= clock /\ (t.explicit => t.n = 1)
    <2>1. PICK s \in sessions : t = New(s)
        BY <1>4
    <2>2. s.explicit => s.n = 1
        BY DEF SessionsProper
    <2>. QED  BY <2>1, <2>2, <1>2
<1>7. ASSUME NEW t \in sessions', NEW u \in sessions', t.explicit /\ u.explicit
      PROVE  t = u
    <2>1. PICK s \in sessions, x \in sessions : t = New(s) /\ u = New(x)
        BY <1>4
    <2>2. s.explicit /\ x.explicit
        BY <2>1, <1>2, <1>7
    <2>3. s = x
        BY <2>2 DEF SessionsProper
    <2>. QED  BY <2>1, <2>3
<1>. QED  BY <1>3, <1>5, <1>6, <1>7 DEF SessionsProper

\* From the session's update to the first await below it.
LEMMA EnterPoliciesStep ==
    ASSUME IInv, NEW r \in Requests, EnterPolicies(r)
    PROVE  IInv'
<1>1. /\ UNCHANGED <<clock, key, ledger, operator, edits, lastReset>>
      /\ TypeOK /\ RequestsProper /\ CacheWhole /\ clock \in Nat
      /\ request[r].auth \in Rows
    BY DEF EnterPolicies, IInv, TypeOK, RequestsProper, Proper, At, Authed
<1>2. SessionsProper'
    BY <1>1, SessionUsed DEF EnterPolicies, IInv
<1>3. /\ WindowCovers' /\ windows' \in Seq(Nat)
      /\ admitted' \in [Requests -> Nat \cup {None}]
      /\ \E q : Takes(r, q, {"done", "readSpend", "execute", "streaming", "audit"})
      /\ CacheWhole'
      /\ observed' \in [{"explicit", "implicit"} -> Seq(Kept)]
      /\ spend' = spend \/ spend' = Touched
    <2>1. CASE WithinRate(r)
        <3>1. windows' = Append(Counted(windows), clock) /\ admitted' = [admitted EXCEPT ![r] = clock]
            BY <2>1 DEF EnterPolicies
        <3>2. Budgeted(r)
            BY <2>1 DEF EnterPolicies
        <3>3. WindowCovers' /\ windows' \in Seq(Nat)
            BY <1>1, <3>1, WindowMoves DEF IInv
        <3>4. admitted' \in [Requests -> Nat \cup {None}]
            BY <1>1, <3>1 DEF TypeOK
        <3>. QED  BY <1>1, <3>2, <3>3, <3>4, BudgetedTakes
    <2>2. CASE ~WithinRate(r)
        <3>1. windows' = Counted(windows) /\ Refuse(r) /\ UNCHANGED <<spend, admitted>>
            BY <2>2 DEF EnterPolicies
        <3>2. WindowCovers' /\ windows' \in Seq(Nat)
            BY <1>1, <3>1, WindowMoves DEF IInv
        <3>. QED  BY <1>1, <3>1, <3>2, RefuseTakes DEF Takes, TypeOK
    <2>. QED  BY <2>1, <2>2
<1>4. PICK q : Takes(r, q, {"done", "readSpend", "execute", "streaming", "audit"})
    BY <1>3
<1>5. RequestsProper'
    BY <1>1, <1>4, TakesProper
<1>6. SpendCovers'
    BY <1>1, <1>3, <1>4, SpendKept DEF IInv
<1>7. spend' \in Spends \cup {None}
    BY <1>1, <1>3 DEF TypeOK, Touched, Spends
<1>8. TypeOK'
    BY <1>1, <1>2, <1>3, <1>5, <1>7, TypesOfParts DEF TypeOK
<1>. QED  BY <1>2, <1>3, <1>5, <1>6, <1>8 DEF IInv

\* The numbers up to a length, and some of them.
LEMMA PartOfInterval ==
    ASSUME NEW n \in Nat, NEW S \in SUBSET (1 .. n)
    PROVE  IsFiniteSet(S) /\ Cardinality(S) \in Nat /\ Cardinality(S) <= n
<1>1. 1 \in Int /\ n \in Int
    OBVIOUS
<1>2. IsFiniteSet(1 .. n) /\ Cardinality(1 .. n) = n
    BY <1>1, FS_Interval
<1>3. IsFiniteSet(S) /\ Cardinality(S) <= Cardinality(1 .. n)
    BY <1>2, FS_Subset
<1>4. Cardinality(S) \in Nat
    BY <1>3, FS_CardinalityType
<1>. QED  BY <1>2, <1>3, <1>4

\* The rows before a tick are some of the rows.
LEMMA BeforeBound ==
    ASSUME TypeOK, NEW t
    PROVE  /\ IsFiniteSet(Before(t)) /\ Cardinality(Before(t)) \in Nat
           /\ Cardinality(Before(t)) <= Len(ledger)
<1>1. Len(ledger) \in Nat /\ DOMAIN ledger = 1 .. Len(ledger)
    BY LenProperties DEF TypeOK
<1>2. Before(t) \in SUBSET (1 .. Len(ledger))
    BY <1>1 DEF Before
<1>. QED  BY <1>1, <1>2, PartOfInterval

\* The sum of the audit log covers what was there before this tick.
LEMMA ReadSpendStep ==
    ASSUME IInv, NEW r \in Requests, ReadSpend(r)
    PROVE  IInv'
<1>. DEFINE q == [request[r] EXCEPT !.sum = Len(ledger), !.pc = "installSpend"]
<1>1. /\ UNCHANGED <<clock, key, sessions, windows, spend, ledger, observed, cache, admitted,
                     operator, edits, lastReset>>
      /\ request' = [request EXCEPT ![r] = q]
    BY DEF ReadSpend, Set
<1>2. Proper(r, request[r]) /\ request[r].auth \in Rows
    BY DEF IInv, RequestsProper, Proper, ReadSpend, At, Authed
<1>3. Len(ledger) \in Nat /\ DOMAIN ledger = 1 .. Len(ledger)
    BY LenProperties DEF IInv, TypeOK
<1>4. /\ q \in States /\ q.pc = "installSpend" /\ q.auth = request[r].auth
      /\ q.session = request[r].session /\ q.sum = Len(ledger)
    BY <1>2, <1>3 DEF Proper, States, Pcs, Authed
<1>. HIDE DEF q
<1>5. Proper(r, q)
    BY <1>2, <1>4 DEF Proper
<1>6. RequestsProper'
    BY <1>1, <1>4, <1>5, TakesProper DEF Takes, IInv
<1>7. SessionsProper' /\ CacheWhole' /\ WindowCovers'
    BY <1>1, SessionsKept, CacheKept, WindowKept DEF IInv
<1>8. TypeOK'
    BY <1>1, <1>6, <1>7, TypesOfParts DEF IInv, TypeOK
<1>9. Cardinality(Before(clock)) \in Nat /\ Cardinality(Before(clock)) <= Len(ledger)
    BY BeforeBound DEF IInv
<1>10. SpendCovers'
    <2>1. \A t : Before(t)' = Before(t)
        BY <1>1 DEF Before
    <2>2. ASSUME NEW x \in Requests, request'[x].pc = "installSpend"
          PROVE  request'[x].sum >= Cardinality(Before(clock))
        <3>1. CASE x = r
            <4>1. request'[x] = q
                BY <3>1, <1>1 DEF IInv, RequestsProper
            <4>. QED  BY <4>1, <1>3, <1>4, <1>9
        <3>2. CASE x # r
            <4>1. request'[x] = request[x]
                BY <3>2, <1>1 DEF IInv, RequestsProper
            <4>. QED  BY <4>1, <2>2 DEF IInv, SpendCovers
        <3>. QED  BY <3>1, <3>2
    <2>. QED  BY <1>1, <2>1, <2>2 DEF IInv, SpendCovers
<1>. QED  BY <1>6, <1>7, <1>8, <1>10 DEF IInv

\* The entry that is installed covers what the audit log held before this tick.
LEMMA InstallSpendStep ==
    ASSUME IInv, NEW r \in Requests, InstallSpend(r)
    PROVE  IInv'
<1>1. /\ UNCHANGED <<clock, key, sessions, windows, ledger, admitted, operator, edits, lastReset>>
      /\ spend' = [total |-> request[r].sum, fetchedAt |-> clock, access |-> clock]
      /\ Onward(r) \/ Refuse(r)
    BY DEF InstallSpend
<1>2. /\ TypeOK /\ RequestsProper /\ CacheWhole /\ clock \in Nat
      /\ request[r].auth \in Rows /\ request[r].pc = "installSpend" /\ request[r].sum \in Nat
    BY DEF IInv, TypeOK, RequestsProper, Proper, InstallSpend, At, Authed, States
<1>3. /\ \E q : Takes(r, q, {"done", "execute", "streaming", "audit"})
      /\ CacheWhole'
      /\ observed' \in [{"explicit", "implicit"} -> Seq(Kept)]
    BY <1>1, <1>2, OnwardTakes, RefuseTakes DEF Takes
<1>4. PICK q : Takes(r, q, {"done", "execute", "streaming", "audit"})
    BY <1>3
<1>5. RequestsProper' /\ SessionsProper' /\ WindowCovers'
    BY <1>1, <1>2, <1>4, TakesProper, SessionsKept, WindowKept DEF IInv
<1>6. spend' \in Spends /\ spend'.total = request[r].sum /\ spend'.fetchedAt = clock
    BY <1>1, <1>2 DEF Spends
<1>7. TypeOK'
    BY <1>1, <1>2, <1>3, <1>5, <1>6, TypesOfParts DEF TypeOK
<1>8. SpendCovers'
    <2>1. \A t : Before(t)' = Before(t)
        BY <1>1 DEF Before
    <2>2. ASSUME NEW x \in Requests, request'[x].pc = "installSpend"
          PROVE  request'[x] = request[x]
        BY <2>2, <1>4 DEF Takes, RequestsProper, IInv
    <2>3. request[r].sum >= Cardinality(Before(clock))
        BY <1>2 DEF IInv, SpendCovers
    <2>. QED  BY <1>1, <1>2, <1>6, <2>1, <2>2, <2>3 DEF IInv, SpendCovers
<1>. QED  BY <1>3, <1>5, <1>7, <1>8 DEF IInv
(* ---------------------- the model and its answers ----------------------- *)

\* A stored answer is whole, whether it was buffered or streamed to its end.
LEMMA StoresWhole ==
    ASSUME CacheWhole, clock \in Nat, NEW r \in Requests, NEW answer \in AnswerIds,
           answer.events = StreamLength
    PROVE  Cached(CacheKey(r), answer) \in Seq(WholeEntries)
<1>. DEFINE k == CacheKey(r)
            e == [key |-> k, answer |-> answer, createdAt |-> clock]
<1>1. k \in CacheKeys
    BY DEF CacheKey, CacheKeys
<1>. HIDE DEF k
<1>2. e \in WholeEntries
    BY <1>1 DEF WholeEntries, Entries
<1>. QED  BY <1>2, CachedType DEF CacheWhole, k

\* The model answers, or fails.
LEMMA ExecuteStep ==
    ASSUME IInv, NEW r \in Requests, Execute(r)
    PROVE  IInv'
<1>1. /\ UNCHANGED <<clock, key, sessions, windows, spend, ledger, admitted,
                     operator, edits, lastReset>>
      /\ key' \in Rows \cup {None} /\ clock \in Nat
      /\ TypeOK /\ RequestsProper /\ CacheWhole /\ SessionsProper'
    BY SessionsKept DEF IInv, TypeOK, Execute
<1>2. CASE Refuse(r)
    BY <1>1, <1>2, RefuseTakes, GoesOn
<1>3. ASSUME NEW text \in Answers, NEW n \in Nat, r \notin Streaming => n = StreamLength,
             Answered(r, [text |-> text, events |-> n], FALSE),
             cache' = IF r \in Streaming THEN cache
                      ELSE Cached(CacheKey(r), [text |-> text, events |-> n])
      PROVE  IInv'
    <2>. DEFINE answer == [text |-> text, events |-> n]
    <2>1. answer \in AnswerIds /\ answer.events = n
        BY DEF AnswerIds
    <2>2. Answered(r, answer, FALSE)
        BY <1>3
    <2>3. cache' = IF r \in Streaming THEN cache ELSE Cached(CacheKey(r), answer)
        BY <1>3
    <2>. HIDE DEF answer
    <2>4. /\ \E q : Takes(r, q, {"streaming", "audit"})
          /\ observed' \in [{"explicit", "implicit"} -> Seq(Kept)]
        BY <1>1, <2>1, <2>2, AnsweredTakes
    <2>5. CacheWhole'
        <3>1. CASE r \in Streaming
            BY <3>1, <2>3, <1>1, CacheKept
        <3>2. CASE r \notin Streaming
            <4>1. cache' \in Seq(WholeEntries)
                BY <3>2, <1>1, <1>3, <2>1, <2>3, StoresWhole
            <4>. QED  BY <4>1 DEF CacheWhole
        <3>. QED  BY <3>1, <3>2
    <2>. QED  BY <1>1, <2>4, <2>5, GoesOn
<1>4. StreamLength \in Nat
    BY TimesAssumption
<1>. QED  BY <1>2, <1>3, <1>4 DEF Execute

\* A stream sends an event, breaks off or ends; only a whole one is stored.
LEMMA StreamStep ==
    ASSUME IInv, NEW r \in Requests, StreamEvent(r) \/ StreamBreaks(r) \/ StreamCompletes(r)
    PROVE  IInv'
<1>1. /\ UNCHANGED <<clock, key, sessions, windows, spend, ledger, observed, admitted,
                     operator, edits, lastReset>>
      /\ key' \in Rows \cup {None} /\ clock \in Nat
      /\ RequestsProper /\ CacheWhole /\ SessionsProper'
      /\ observed' \in [{"explicit", "implicit"} -> Seq(Kept)]
    BY SessionsKept DEF IInv, TypeOK, StreamEvent, StreamBreaks, StreamCompletes
<1>2. Proper(r, request[r]) /\ request[r].pc = "streaming" /\ request[r].answer \in AnswerIds
    BY <1>1 DEF RequestsProper, Proper, StreamEvent, StreamBreaks, StreamCompletes, At
<1>3. CASE StreamEvent(r)
    <2>. DEFINE q == [request[r] EXCEPT !.sent = @ + 1]
    <2>1. request' = [request EXCEPT ![r] = q]
        BY <1>3 DEF StreamEvent, Set
    <2>2. /\ q \in States /\ q.pc = "streaming" /\ q.auth = request[r].auth
          /\ q.answer = request[r].answer /\ q.session = request[r].session
        BY <1>2 DEF Proper, States
    <2>. HIDE DEF q
    <2>3. Proper(r, q)
        BY <1>2, <2>2 DEF Proper
    <2>4. Takes(r, q, {"streaming"})
        BY <2>1, <2>2, <2>3 DEF Takes
    <2>. QED  BY <1>1, <1>3, <2>4, CacheKept, GoesOn DEF StreamEvent
<1>4. CASE StreamBreaks(r)
    <2>1. \E q : Takes(r, q, {"done"})
        BY <1>1, <1>4, FinishTakes DEF StreamBreaks
    <2>. QED  BY <1>1, <1>4, <2>1, CacheKept, GoesOn DEF StreamBreaks
<1>5. CASE StreamCompletes(r)
    <2>1. cache' = Stored(r) /\ Goto(r, "audit") /\ request[r].sent = StreamLength
        BY <1>5 DEF StreamCompletes
    <2>2. \E q : Takes(r, q, {"audit"})
        BY <1>1, <2>1, GotoTakes DEF Pcs, Authed
    <2>. DEFINE answer == [request[r].answer EXCEPT !.events = request[r].sent]
    <2>3. request[r].sent \in Nat
        BY <1>2 DEF Proper, States
    <2>4. answer \in AnswerIds /\ answer.events = StreamLength
        BY <1>2, <2>1, <2>3 DEF AnswerIds
    <2>5. cache' = IF request[r].hit THEN cache ELSE Cached(CacheKey(r), answer)
        BY <2>1 DEF Stored
    <2>. HIDE DEF answer
    <2>6. Cached(CacheKey(r), answer) \in Seq(WholeEntries)
        BY <1>1, <2>4, StoresWhole
    <2>7. CacheWhole'
        BY <1>1, <2>5, <2>6 DEF CacheWhole
    <2>. QED  BY <1>1, <2>2, <2>7, GoesOn
<1>. QED  BY <1>3, <1>4, <1>5

\* A row of the audit log is of this tick, so no figure has missed it.
LEMMA WriteAuditStep ==
    ASSUME IInv, NEW r \in Requests, WriteAudit(r)
    PROVE  IInv'
<1>1. /\ UNCHANGED <<clock, key, sessions, windows, spend, observed, cache, admitted,
                     operator, edits, lastReset>>
      /\ ledger' = Append(ledger, clock) /\ Finish(r)
      /\ TypeOK /\ RequestsProper /\ SpendCovers
    BY DEF WriteAudit, IInv
<1>2. clock \in Nat /\ ledger \in Seq(Nat) /\ spend \in Spends \cup {None}
    BY <1>1 DEF TypeOK
<1>3. SessionsProper' /\ CacheWhole' /\ WindowCovers'
    BY <1>1, SessionsKept, CacheKept, WindowKept DEF IInv
<1>4. PICK q : Takes(r, q, {"done"})
    BY <1>1, FinishTakes
<1>5. RequestsProper'
    BY <1>1, <1>4, TakesProper
<1>. DEFINE n == Len(ledger)
<1>6. /\ ledger' \in Seq(Nat) /\ Len(ledger') = n + 1 /\ ledger'[n + 1] = clock
      /\ \A i \in 1 .. n : ledger'[i] = ledger[i]
    BY <1>1, <1>2, AppendProperties
<1>7. n \in Nat /\ DOMAIN ledger = 1 .. n /\ DOMAIN ledger' = 1 .. n + 1
    BY <1>2, <1>6, LenProperties
<1>8. TypeOK'
    BY <1>1, <1>3, <1>5, <1>6, TypesOfParts DEF TypeOK
<1>. HIDE DEF n
<1>9. ASSUME NEW t \in Nat, t <= clock
      PROVE  Before(t)' = Before(t)
    <2>1. \A i \in 1 .. n + 1 : ledger'[i] < t <=> i \in 1 .. n /\ ledger[i] < t
        <3>. TAKE i \in 1 .. n + 1
        <3>1. CASE i = n + 1
            BY <3>1, <1>2, <1>6, <1>7, <1>9
        <3>2. CASE i # n + 1
            BY <3>2, <1>6, <1>7
        <3>. QED  BY <3>1, <3>2
    <2>2. \A i : i \in 1 .. n => i \in 1 .. n + 1
        BY <1>7
    <2>. QED  BY <2>1, <2>2, <1>7 DEF Before
<1>10. ASSUME NEW x \in Requests, request'[x].pc = "installSpend"
       PROVE  request'[x] = request[x]
    BY <1>1, <1>4, <1>10 DEF Takes, RequestsProper
<1>11. spend # None => spend.fetchedAt \in Nat /\ spend.fetchedAt <= clock
    BY <1>1, <1>2 DEF SpendCovers, Spends
<1>12. Before(clock)' = Before(clock)
    <2>1. clock <= clock
        BY <1>2
    <2>2. \A t \in Nat : t <= clock => {i \in DOMAIN ledger' : ledger'[i] < t} = Before(t)
        BY <1>9 DEF Before
    <2>. QED  BY <2>1, <2>2, <1>1, <1>2 DEF Before
<1>13. SpendCovers'
    <2>1. ASSUME NEW x \in Requests, request'[x].pc = "installSpend"
          PROVE  request'[x].sum >= Cardinality(Before(clock)')
        BY <1>1, <1>10, <1>12, <2>1 DEF SpendCovers
    <2>2. ASSUME spend # None, lastReset = None \/ lastReset < spend.fetchedAt
          PROVE  spend.total >= Cardinality({i \in DOMAIN ledger' : ledger'[i] < spend.fetchedAt})
        <3>1. {i \in DOMAIN ledger' : ledger'[i] < spend.fetchedAt} = Before(spend.fetchedAt)
            BY <1>9, <1>11, <2>2 DEF Before
        <3>. QED  BY <3>1, <2>2, <1>1 DEF SpendCovers
    <2>. QED  BY <1>1, <2>1, <2>2 DEF SpendCovers, Before
<1>. QED  BY <1>3, <1>5, <1>8, <1>13 DEF IInv

(* ------------------------- operator and timers -------------------------- *)

\* Whoever is about to revoke a key has seen its row, and rows stay.
RevokeKnows == operator = "revoke" => key # None

\* The operator's requests touch the row and the cached figure only.
LEMMA OperateStep ==
    ASSUME IInv, RevokeKnows, Operate
    PROVE  IInv'
<1>1. /\ UNCHANGED <<clock, sessions, windows, ledger, observed, cache, request, admitted>>
      /\ TypeOK /\ RequestsProper'
    BY DEF Operate, ProvisionUserKey, UpdateKey, StartRevoke, Revoke, ResetDailyBudget,
       ByOperator, IInv, RequestsProper, Proper
<1>2. SessionsProper' /\ CacheWhole' /\ WindowCovers'
    BY <1>1, SessionsKept, CacheKept, WindowKept DEF IInv
<1>3. operator' \in {"idle", "revoke"} /\ edits' \in Nat
    <2>1. operator' \in {operator, "idle", "revoke"}
        BY DEF Operate, ProvisionUserKey, UpdateKey, StartRevoke, Revoke, ResetDailyBudget
    <2>2. edits' = edits \/ edits' = edits + 1
        BY DEF Operate, ProvisionUserKey, UpdateKey, StartRevoke, Revoke, ResetDailyBudget, Edit
    <2>. QED  BY <1>1, <2>1, <2>2 DEF TypeOK
<1>4. key' \in Rows \cup {None}
    <2>1. CASE ProvisionUserKey
        BY <2>1, LimitsAssumption DEF ProvisionUserKey, Rows
    <2>2. CASE UpdateKey
        <3>1. PICK l \in Limits :
                key' = [key EXCEPT !.rpm = l.rpm, !.budget = l.budget, !.expires = l.expires]
            BY <2>2 DEF UpdateKey
        <3>2. key \in Rows
            BY <2>2, <1>1 DEF UpdateKey, TypeOK
        <3>3. l.rpm \in Nat /\ l.budget \in Nat \cup {None} /\ l.expires \in Nat \cup {None}
            BY LimitsAssumption
        <3>. QED  BY <3>1, <3>2, <3>3 DEF Rows
    <2>3. CASE Revoke
        <3>1. key \in Rows
            BY <2>3, <1>1 DEF Revoke, RevokeKnows, TypeOK
        <3>. QED  BY <2>3, <3>1 DEF Revoke, Rows
    <2>4. CASE StartRevoke \/ ResetDailyBudget
        BY <2>4, <1>1 DEF StartRevoke, ResetDailyBudget, TypeOK
    <2>. QED  BY <2>1, <2>2, <2>3, <2>4 DEF Operate
<1>5. /\ spend' \in Spends \cup {None} /\ lastReset' \in Nat \cup {None}
      /\ SpendCovers'
    <2>1. CASE ResetDailyBudget
        <3>1. spend # None /\ spend' = [spend EXCEPT !.total = 0, !.access = clock] /\ lastReset' = clock
            BY <2>1 DEF ResetDailyBudget
        <3>2. spend \in Spends /\ clock \in Nat
            BY <3>1, <1>1 DEF TypeOK
        <3>3. spend' \in Spends /\ spend'.fetchedAt = spend.fetchedAt
            BY <3>1, <3>2 DEF Spends
        <3>4. spend.fetchedAt \in Nat /\ spend.fetchedAt <= clock
            BY <3>1, <3>2 DEF IInv, SpendCovers, Spends
        <3>5. ~ (lastReset' = None \/ lastReset' < spend.fetchedAt)
            BY <3>1, <3>2, <3>4, NoneAssumption
        <3>6. Before(clock)' = Before(clock)
            BY <1>1 DEF Before
        <3>. QED  BY <1>1, <3>1, <3>2, <3>3, <3>4, <3>5, <3>6 DEF IInv, SpendCovers
    <2>2. CASE ~ ResetDailyBudget
        <3>1. UNCHANGED <<spend, lastReset>>
            BY <2>2 DEF Operate, ProvisionUserKey, UpdateKey, StartRevoke, Revoke
        <3>2. \A t : Before(t)' = Before(t)
            BY <1>1 DEF Before
        <3>. QED  BY <3>1, <3>2, <1>1 DEF IInv, SpendCovers, TypeOK
    <2>. QED  BY <2>1, <2>2
<1>6. TypeOK'
    BY <1>1, <1>2, <1>3, <1>4, <1>5, TypesOfParts DEF TypeOK
<1>. QED  BY <1>1, <1>2, <1>5, <1>6 DEF IInv

\* An idle entry is dropped.
LEMMA CleanupStep ==
    ASSUME IInv, CleanupSpend
    PROVE  IInv'
<1>1. /\ UNCHANGED <<clock, key, sessions, windows, ledger, observed, cache, request, admitted,
                     operator, edits, lastReset>>
      /\ spend' = None /\ TypeOK /\ RequestsProper'
    BY DEF CleanupSpend, IInv, RequestsProper, Proper
<1>2. SessionsProper' /\ CacheWhole' /\ WindowCovers'
    BY <1>1, SessionsKept, CacheKept, WindowKept DEF IInv
<1>3. Before(clock)' = Before(clock)
    BY <1>1 DEF Before
<1>4. SpendCovers'
    BY <1>1, <1>3 DEF IInv, SpendCovers
<1>5. TypeOK'
    BY <1>1, <1>2, TypesOfParts DEF TypeOK
<1>. QED  BY <1>1, <1>2, <1>4, <1>5 DEF IInv

\* Time passes while no refresh is between its statement and its continuation.
LEMMA TickStep ==
    ASSUME IInv, Tick
    PROVE  IInv'
<1>1. /\ UNCHANGED <<key, sessions, windows, spend, ledger, observed, cache, request, admitted,
                     operator, edits, lastReset>>
      /\ clock' = clock + 1 /\ clock \in Nat
      /\ \A r \in Requests : request[r].pc # "installSpend"
      /\ TypeOK /\ RequestsProper'
    BY DEF Tick, IInv, RequestsProper, Proper, At, TypeOK
<1>2. CacheWhole'
    BY <1>1, CacheKept DEF IInv
<1>3. SessionsProper'
    <2>1. \A s \in sessions : s.last \in Nat /\ s.last <= clock
        BY DEF IInv, SessionsProper
    <2>2. \A s \in sessions : s.last <= clock + 1
        BY <2>1, <1>1
    <2>. QED  BY <1>1, <2>2 DEF IInv, SessionsProper
<1>4. WindowCovers'
    <2>1. Live' \subseteq Live
        <3>1. \A r \in Requests : admitted[r] # None => admitted[r] \in Nat
            BY <1>1 DEF TypeOK
        <3>2. \A r \in Requests : admitted[r] # None /\ admitted[r] + Window > clock + 1
                                      => admitted[r] + Window > clock
            BY <1>1, <3>1, TimesAssumption
        <3>. QED  BY <1>1, <3>2 DEF Live
    <2>2. PICK f \in [Requests -> Nat] : Places(f)
        BY DEF IInv, WindowCovers
    <2>3. Places(f)'
        BY <1>1, <2>1, <2>2 DEF Places
    <2>. QED  BY <2>2, <2>3 DEF WindowCovers
<1>5. SpendCovers'
    <2>1. spend # None => spend.fetchedAt \in Nat /\ spend.fetchedAt <= clock
        BY <1>1 DEF IInv, SpendCovers, TypeOK, Spends
    <2>2. lastReset # None => lastReset \in Nat /\ lastReset <= clock
        BY <1>1 DEF IInv, SpendCovers, TypeOK
    <2>3. spend # None => spend.fetchedAt <= clock + 1
        BY <1>1, <2>1
    <2>4. lastReset # None => lastReset <= clock + 1
        BY <1>1, <2>2
    <2>5. Before(spend.fetchedAt)' = Before(spend.fetchedAt)
        BY <1>1 DEF Before
    <2>. QED  BY <1>1, <2>3, <2>4, <2>5 DEF IInv, SpendCovers
<1>6. TypeOK'
    BY <1>1, <1>2, <1>3, TypesOfParts DEF TypeOK
<1>. QED  BY <1>1, <1>2, <1>3, <1>4, <1>5, <1>6 DEF IInv
(* ---------------------------- the theorems ------------------------------ *)

\* A subject that has not been seen.
LEMMA InitHolds == Init => IInv /\ RevokeKnows
<1>. SUFFICES ASSUME Init PROVE IInv /\ RevokeKnows
    OBVIOUS
<1>1. NewRequest \in States
    BY DEF NewRequest, States, Pcs
<1>2. NewRequest.pc = "new" /\ NewRequest.session = None
    BY DEF NewRequest
<1>. HIDE DEF NewRequest
<1>3. RequestsProper
    BY <1>1, <1>2 DEF Init, RequestsProper, Proper, Authed
<1>4. SessionsProper
    BY FS_EmptySet DEF Init, SessionsProper
<1>5. CacheWhole
    BY DEF Init, CacheWhole
<1>6. WindowCovers
    <2>1. Live = {}
        BY DEF Init, Live
    <2>2. [r \in Requests |-> 0] \in [Requests -> Nat]
        OBVIOUS
    <2>. QED  BY <2>1, <2>2 DEF WindowCovers, Places
<1>7. SpendCovers
    BY <1>2 DEF Init, SpendCovers
<1>8. TypeOK
    BY <1>3 DEF Init, TypeOK, RequestsProper
<1>. QED  BY <1>3, <1>4, <1>5, <1>6, <1>7, <1>8 DEF IInv, RevokeKnows, Init

\* A row stays once it is there; only an operator who saw it goes on to revoke it.
LEMMA RevokeKnowsStep == TypeOK /\ RevokeKnows /\ [Next]_vars => RevokeKnows'
<1>. SUFFICES ASSUME TypeOK, RevokeKnows, [Next]_vars PROVE RevokeKnows'
    OBVIOUS
<1>1. CASE \E r \in Requests : InsertKey(r)
    BY <1>1, DefaultRowType, NoneAssumption DEF InsertKey, RevokeKnows
<1>2. CASE \E r \in Requests : Proceed(r) /\ ~InsertKey(r)
    BY <1>2 DEF Proceed, Arrive, RereadKey, FindSession, CreateSession, FindOrCreateImplicit,
       EnterPolicies, ReadSpend, InstallSpend, Execute, StreamEvent, StreamBreaks,
       StreamCompletes, WriteAudit, RevokeKnows
<1>3. CASE ProvisionUserKey
    BY <1>3 DEF ProvisionUserKey, Edit, RevokeKnows
<1>4. CASE UpdateKey
    BY <1>4 DEF UpdateKey, Edit, RevokeKnows
<1>5. CASE StartRevoke \/ Revoke \/ ResetDailyBudget
    BY <1>5 DEF StartRevoke, Revoke, ResetDailyBudget, Edit, RevokeKnows
<1>6. CASE CleanupSpend \/ Tick \/ UNCHANGED vars
    BY <1>6 DEF CleanupSpend, Tick, vars, RevokeKnows
<1>. QED  BY <1>1, <1>2, <1>3, <1>4, <1>5, <1>6 DEF Next, Operate, Ended, Proceed

\* Every step keeps the invariants.
LEMMA StepKeeps == IInv /\ RevokeKnows /\ [Next]_vars => IInv' /\ RevokeKnows'
<1>. SUFFICES ASSUME IInv, RevokeKnows, [Next]_vars PROVE IInv'
    BY RevokeKnowsStep DEF IInv
<1>1. CASE \E r \in Requests : Proceed(r)
    BY <1>1, AuthenticationStep, SessionStep, EnterPoliciesStep, ReadSpendStep,
       InstallSpendStep, ExecuteStep, StreamStep, WriteAuditStep DEF Proceed
<1>2. CASE Operate
    BY <1>2, OperateStep
<1>3. CASE CleanupSpend
    BY <1>3, CleanupStep
<1>4. CASE Tick
    BY <1>4, TickStep
<1>5. CASE UNCHANGED vars
    BY <1>5 DEF vars, IInv, TypeOK, RequestsProper, Proper, SessionsProper, CacheWhole,
       WindowCovers, Places, Live, SpendCovers, Before
<1>. QED  BY <1>1, <1>2, <1>3, <1>4, <1>5 DEF Next, Ended

\* The invariants hold of every behaviour.
LEMMA Invariants == Spec => [](IInv /\ RevokeKnows)
<1>. DEFINE Both == IInv /\ RevokeKnows
<1>1. Init => Both
    BY InitHolds
<1>2. Both /\ [Next]_vars => Both'
    BY StepKeeps
<1>. HIDE DEF Both
<1>3. Spec => []Both
    BY <1>1, <1>2, PTL DEF Spec
<1>. QED  BY <1>3 DEF Both

\* Every variable has its type, whatever requests, limits and times there are.
THEOREM TypeCorrect == Spec => []TypeOK
<1>1. IInv /\ RevokeKnows => TypeOK
    BY DEF IInv
<1>. QED  BY <1>1, Invariants, PTL

\* The cache replays whole answers only.
THEOREM WholeReplayed == Spec => []WholeAnswersReplayed
<1>1. IInv /\ RevokeKnows => WholeAnswersReplayed
    <2>. SUFFICES ASSUME CacheWhole, NEW i \in DOMAIN cache
                  PROVE  cache[i].answer.events = StreamLength
        BY DEF IInv, WholeAnswersReplayed
    <2>1. i \in 1 .. Len(cache)
        BY LenProperties DEF CacheWhole
    <2>2. cache[i] \in WholeEntries
        BY <2>1, ElementOfSeq DEF CacheWhole
    <2>. QED  BY <2>2 DEF WholeEntries
<1>. QED  BY <1>1, Invariants, PTL

\* All requests that name the session are in the same one.
THEOREM OneNamedSession == Spec => []ExplicitSessionIsOne
<1>1. IInv /\ RevokeKnows => ExplicitSessionIsOne
    BY RequestsAssumption DEF IInv, RequestsProper, Proper, ExplicitSessionIsOne
<1>. QED  BY <1>1, Invariants, PTL

\* A limiter lets a request pass while its window holds fewer admissions than the limit.
LEMMA RateStep ==
    ASSUME IInv, [Next]_vars, NEW r \in Requests, admitted'[r] # admitted[r]
    PROVE  Cardinality({q \in Requests : admitted[q] # None /\ admitted[q] + Window > clock})
              < request[r].auth.rpm
<1>1. PICK x \in Requests : EnterPolicies(x)
    BY DEF Next, Proceed, Arrive, InsertKey, RereadKey, FindSession, CreateSession,
       FindOrCreateImplicit, ReadSpend, InstallSpend, Execute, StreamEvent, StreamBreaks,
       StreamCompletes, WriteAudit, Operate, ProvisionUserKey, UpdateKey, StartRevoke, Revoke,
       ResetDailyBudget, ByOperator, CleanupSpend, Tick, Ended, vars
<1>2. WithinRate(x) /\ admitted' = [admitted EXCEPT ![x] = clock]
    BY <1>1 DEF EnterPolicies
<1>3. x = r
    BY <1>2 DEF IInv, TypeOK
<1>4. request[r].auth.rpm \in Nat
    BY <1>1, <1>3 DEF EnterPolicies, At, IInv, RequestsProper, Proper, Authed, Rows
<1>5. /\ Cardinality(Live) \in Nat /\ Len(Counted(windows)) \in Nat
      /\ Cardinality(Live) <= Len(Counted(windows))
    BY WindowBound DEF IInv
<1>6. Len(Counted(windows)) < request[r].auth.rpm
    BY <1>2, <1>3 DEF WithinRate
<1>. HIDE DEF Len
<1>7. Cardinality(Live) < request[r].auth.rpm
    BY <1>4, <1>5, <1>6
<1>. QED  BY <1>7 DEF Live

\* No window of the rate limiter holds more admissions than the limit allows.
THEOREM RateKept == Spec => RateHolds
<1>. DEFINE Both == IInv /\ RevokeKnows
            A == \A r \in Requests : admitted'[r] # admitted[r] =>
                    Cardinality({q \in Requests : admitted[q] # None /\ admitted[q] + Window > clock})
                        < request[r].auth.rpm
<1>1. Both /\ [Next]_vars => A
    BY RateStep
<1>2. Spec => []Both
    BY Invariants
<1>. HIDE DEF Both, A
<1>3. Spec => [][A]_vars
    BY <1>1, <1>2, PTL DEF Spec
<1>. QED  BY <1>3 DEF RateHolds, A
\* The other requests are where they were.
MovesOnly(r) == \A x \in Requests : x # r => request'[x] = request[x]

\* A request only moves itself.
LEMMA ProceedMoves ==
    ASSUME RequestsProper, NEW r \in Requests, Proceed(r)
    PROVE  MovesOnly(r)
<1>1. ASSUME NEW q, Set(r, q)
      PROVE  MovesOnly(r)
    BY <1>1 DEF Set, MovesOnly, RequestsProper
<1>2. Finish(r) => MovesOnly(r)
    BY <1>1 DEF Finish
<1>3. \A pc : Goto(r, pc) => MovesOnly(r)
    BY <1>1 DEF Goto
<1>4. \A row : Authenticated(r, row) => MovesOnly(r)
    BY <1>1, <1>2 DEF Authenticated
<1>5. \A s : InSession(r, s) => MovesOnly(r)
    BY <1>1 DEF InSession
<1>6. \A answer, hit : Answered(r, answer, hit) => MovesOnly(r)
    BY <1>1 DEF Answered
<1>7. Onward(r) => MovesOnly(r)
    BY <1>2, <1>3, <1>6 DEF Onward
<1>8. Budgeted(r) \/ Refuse(r) => MovesOnly(r)
    BY <1>2, <1>3, <1>7 DEF Budgeted, Refuse
<1>9. CASE Arrive(r) \/ InsertKey(r) \/ RereadKey(r)
    BY <1>9, <1>2, <1>3, <1>4 DEF Arrive, InsertKey, RereadKey
<1>10. CASE FindSession(r) \/ CreateSession(r) \/ FindOrCreateImplicit(r)
    BY <1>10, <1>2, <1>3, <1>5 DEF FindSession, CreateSession, FindOrCreateImplicit
<1>11. CASE EnterPolicies(r) \/ InstallSpend(r)
    BY <1>11, <1>7, <1>8 DEF EnterPolicies, InstallSpend
<1>12. CASE ReadSpend(r) \/ StreamEvent(r)
    BY <1>12, <1>1 DEF ReadSpend, StreamEvent
<1>13. CASE Execute(r)
    BY <1>13, <1>6, <1>8 DEF Execute
<1>14. CASE StreamBreaks(r) \/ StreamCompletes(r) \/ WriteAudit(r)
    BY <1>14, <1>2, <1>3 DEF StreamBreaks, StreamCompletes, WriteAudit
<1>. QED  BY <1>9, <1>10, <1>11, <1>12, <1>13, <1>14 DEF Proceed

\* The rows that are a TTL old.
Old == {i \in DOMAIN ledger : ledger[i] + Ttl <= clock}

\* A figure that is not older than a TTL counts the rows that are.
LEMMA OldIsCounted ==
    ASSUME TypeOK, NEW t \in Nat, clock < t + Ttl, NEW total \in Nat,
           total >= Cardinality(Before(t))
    PROVE  Cardinality(Old) \in Nat /\ Cardinality(Old) <= total
<1>1. clock \in Nat /\ Ttl \in Nat /\ \A i \in DOMAIN ledger : ledger[i] \in Nat
    BY TimesAssumption, ElementOfSeq, LenProperties DEF TypeOK
<1>2. \A i \in DOMAIN ledger : ledger[i] + Ttl <= clock => ledger[i] < t
    BY <1>1
<1>3. Old \subseteq Before(t)
    BY <1>2 DEF Old, Before
<1>4. IsFiniteSet(Before(t)) /\ Cardinality(Before(t)) \in Nat
    BY BeforeBound
<1>5. Cardinality(Old) <= Cardinality(Before(t)) /\ Cardinality(Old) \in Nat
    BY <1>3, <1>4, FS_Subset, FS_CardinalityType
<1>. QED  BY <1>4, <1>5

\* A request that passes the budget is below its limit by a figure of that kind.
LEMMA BudgetStep ==
    ASSUME IInv, [Next]_vars, NEW r \in Requests,
           request[r].pc \in {"touchSession", "installSpend"},
           request'[r].pc \in {"execute", "streaming", "audit"},
           request[r].auth.budget # None,
           lastReset # None => lastReset + Ttl <= clock
    PROVE  Cardinality(Old) < request[r].auth.budget
<1>1. /\ TypeOK /\ RequestsProper /\ SpendCovers /\ clock \in Nat /\ Ttl \in Nat /\ Ttl >= 1
      /\ lastReset \in Nat \cup {None}
    <2>1. Ttl \in Nat
        BY TimesAssumption
    <2>2. Ttl >= 1
        BY <2>1, TtlAssumption
    <2>. QED  BY <2>1, <2>2 DEF IInv, TypeOK
<1>2. Proper(r, request[r]) /\ request[r].auth \in Rows
    BY <1>1 DEF RequestsProper, Proper, Authed
<1>3. request[r].auth.budget \in Nat
    BY <1>2 DEF Rows
<1>4. request'[r] # request[r]
    OBVIOUS
<1>5. PICK x \in Requests : Proceed(x)
    BY <1>4 DEF Next, Operate, ProvisionUserKey, UpdateKey, StartRevoke, Revoke,
       ResetDailyBudget, ByOperator, CleanupSpend, Tick, Ended, vars
<1>6. x = r
    BY <1>1, <1>4, <1>5, ProceedMoves DEF MovesOnly
<1>7. EnterPolicies(r) \/ InstallSpend(r)
    BY <1>5, <1>6 DEF Proceed, At, Arrive, InsertKey, RereadKey, FindSession, CreateSession,
       FindOrCreateImplicit, ReadSpend, Execute, StreamEvent, StreamBreaks, StreamCompletes,
       WriteAudit
<1>8. ASSUME Refuse(r) \/ Goto(r, "readSpend")
      PROVE  FALSE
    <2>1. \E q : Takes(r, q, {"done", "readSpend"})
        <3>1. CASE Refuse(r)
            <4>1. \E q : Takes(r, q, {"done"})
                BY <3>1, <1>1, FinishTakes DEF Refuse
            <4>. QED  BY <4>1 DEF Takes
        <3>2. CASE Goto(r, "readSpend")
            <4>1. \E q : Takes(r, q, {"readSpend"})
                BY <3>2, <1>1, <1>2, GotoTakes DEF Pcs, Authed
            <4>. QED  BY <4>1 DEF Takes
        <3>. QED  BY <1>8, <3>1, <3>2
    <2>. QED  BY <2>1, <1>1 DEF Takes, RequestsProper
<1>9. CASE EnterPolicies(r)
    <2>1. Budgeted(r)
        BY <1>9, <1>8 DEF EnterPolicies
    <2>2. Fresh(spend) /\ WithinBudget(r, spend.total)
        BY <2>1, <1>8 DEF Budgeted
    <2>3. spend # None /\ clock < spend.fetchedAt + Ttl /\ spend.total < request[r].auth.budget
        BY <2>2 DEF Fresh, WithinBudget
    <2>4. spend.total \in Nat /\ spend.fetchedAt \in Nat
        BY <2>3, <1>1 DEF TypeOK, Spends
    <2>5. lastReset = None \/ lastReset < spend.fetchedAt
        BY <2>3, <2>4, <1>1
    <2>6. spend.total >= Cardinality(Before(spend.fetchedAt))
        BY <2>3, <2>5, <1>1 DEF SpendCovers
    <2>7. Cardinality(Old) \in Nat /\ Cardinality(Old) <= spend.total
        BY <2>3, <2>4, <2>6, <1>1, OldIsCounted
    <2>. QED  BY <2>3, <2>4, <2>7, <1>3
<1>10. CASE InstallSpend(r)
    <2>1. WithinBudget(r, request[r].sum) /\ request[r].pc = "installSpend"
        BY <1>10, <1>8 DEF InstallSpend, At
    <2>2. request[r].sum \in Nat /\ request[r].sum < request[r].auth.budget
        BY <2>1, <1>2 DEF WithinBudget, Proper, States
    <2>3. request[r].sum >= Cardinality(Before(clock))
        BY <2>1, <1>1 DEF SpendCovers
    <2>4. clock < clock + Ttl
        BY <1>1
    <2>5. Cardinality(Old) \in Nat /\ Cardinality(Old) <= request[r].sum
        BY <2>2, <2>3, <2>4, <1>1, OldIsCounted
    <2>. QED  BY <2>2, <2>5, <1>3
<1>. QED  BY <1>7, <1>9, <1>10

\* The budget lags the audit log by one TTL at most.
THEOREM BudgetLag == Spec => BudgetLagBounded
<1>. DEFINE Both == IInv /\ RevokeKnows
            A == \A r \in Requests :
                    /\ request[r].pc \in {"touchSession", "installSpend"}
                    /\ request'[r].pc \in {"execute", "streaming", "audit"}
                    /\ request[r].auth.budget # None
                    /\ lastReset # None => lastReset + Ttl <= clock
                    => Cardinality({i \in DOMAIN ledger : ledger[i] + Ttl <= clock})
                            < request[r].auth.budget
<1>1. Both /\ [Next]_vars => A
    BY BudgetStep DEF Old
<1>2. Spec => []Both
    BY Invariants
<1>. HIDE DEF Both, A
<1>3. Spec => [][A]_vars
    BY <1>1, <1>2, PTL DEF Spec
<1>. QED  BY <1>3 DEF BudgetLagBounded, A

\* No step authenticates a request while the row is revoked, nor brings the row back.
LEMMA RevokedStep ==
    ASSUME IInv, [Next]_vars, key # None, key.status = "revoked"
    PROVE  /\ key' # None /\ key'.status = "revoked"
           /\ \A r \in Requests : request'[r].auth # None => request[r].auth # None
<1>. DEFINE NoneIn == \A r \in Requests : request'[r].auth # None => request[r].auth # None
<1>1. key \in Rows /\ RequestsProper /\ Denies(key)
    BY DEF IInv, TypeOK, Denies
<1>2. /\ \A r \in Requests : request[r] \in States
      /\ request \in [Requests -> States]
    BY <1>1 DEF RequestsProper
<1>3. ASSUME NEW r \in Requests, NEW q, Set(r, q), q.auth # None => request[r].auth # None
      PROVE  NoneIn
    BY <1>2, <1>3 DEF Set
<1>4. ASSUME NEW r \in Requests, Finish(r)
      PROVE  NoneIn
    <2>1. PICK q : q = [NewRequest EXCEPT !.pc = "done", !.session = request[r].session]
        OBVIOUS
    <2>2. q.auth = None
        BY <2>1 DEF NewRequest
    <2>. QED  BY <1>4, <2>1, <2>2, <1>3 DEF Finish
<1>5. ASSUME NEW r \in Requests, NEW pc, Goto(r, pc)
      PROVE  NoneIn
    <2>1. PICK q : q = [request[r] EXCEPT !.pc = pc]
        OBVIOUS
    <2>2. q.auth = request[r].auth
        BY <2>1, <1>2 DEF States
    <2>. QED  BY <1>5, <2>1, <2>2, <1>3 DEF Goto
<1>6. ASSUME NEW r \in Requests, NEW s, InSession(r, s)
      PROVE  NoneIn
    <2>1. PICK q : q = [request[r] EXCEPT !.session = [explicit |-> s.explicit, n |-> s.n],
                                          !.pc = "touchSession"]
        OBVIOUS
    <2>2. q.auth = request[r].auth
        BY <2>1, <1>2 DEF States
    <2>. QED  BY <1>6, <2>1, <2>2, <1>3 DEF InSession
<1>7. ASSUME NEW r \in Requests, NEW answer, NEW hit, Answered(r, answer, hit)
      PROVE  NoneIn
    <2>1. PICK q : q = [request[r] EXCEPT !.pc = IF r \in Streaming THEN "streaming" ELSE "audit",
                                          !.answer = answer, !.hit = hit]
        OBVIOUS
    <2>2. q.auth = request[r].auth
        BY <2>1, <1>2 DEF States
    <2>. QED  BY <1>7, <2>1, <2>2, <1>3 DEF Answered
<1>8. ASSUME NEW r \in Requests, Onward(r) \/ Refuse(r) \/ Budgeted(r)
      PROVE  NoneIn
    BY <1>8, <1>4, <1>5, <1>7 DEF Onward, Refuse, Budgeted
<1>9. ASSUME NEW r \in Requests, Proceed(r)
      PROVE  key' = key /\ NoneIn
    <2>1. CASE Arrive(r) \/ InsertKey(r) \/ RereadKey(r)
        BY <2>1, <1>1, <1>4, <1>5 DEF Arrive, InsertKey, RereadKey, Authenticated
    <2>2. CASE FindSession(r) \/ CreateSession(r) \/ FindOrCreateImplicit(r)
        BY <2>2, <1>4, <1>5, <1>6 DEF FindSession, CreateSession, FindOrCreateImplicit
    <2>3. CASE EnterPolicies(r) \/ InstallSpend(r)
        BY <2>3, <1>8 DEF EnterPolicies, InstallSpend
    <2>4. CASE ReadSpend(r)
        <3>1. PICK q : q = [request[r] EXCEPT !.sum = Len(ledger), !.pc = "installSpend"]
            OBVIOUS
        <3>2. q.auth = request[r].auth
            BY <3>1, <1>2 DEF States
        <3>. QED  BY <2>4, <3>1, <3>2, <1>3 DEF ReadSpend
    <2>5. CASE StreamEvent(r)
        <3>1. PICK q : q = [request[r] EXCEPT !.sent = @ + 1]
            OBVIOUS
        <3>2. q.auth = request[r].auth
            BY <3>1, <1>2 DEF States
        <3>. QED  BY <2>5, <3>1, <3>2, <1>3 DEF StreamEvent
    <2>6. CASE Execute(r)
        BY <2>6, <1>7, <1>8 DEF Execute
    <2>7. CASE StreamBreaks(r) \/ StreamCompletes(r) \/ WriteAudit(r)
        BY <2>7, <1>4, <1>5 DEF StreamBreaks, StreamCompletes, WriteAudit
    <2>. QED  BY <1>9, <2>1, <2>2, <2>3, <2>4, <2>5, <2>6, <2>7 DEF Proceed
<1>10. ASSUME UpdateKey
       PROVE  key' \in Rows /\ key'.status = "revoked" /\ UNCHANGED request
    <2>1. PICK l \in Limits :
            key' = [key EXCEPT !.rpm = l.rpm, !.budget = l.budget, !.expires = l.expires]
        BY <1>10 DEF UpdateKey
    <2>2. l.rpm \in Nat /\ l.budget \in Nat \cup {None} /\ l.expires \in Nat \cup {None}
        BY LimitsAssumption
    <2>. QED  BY <1>1, <1>10, <2>1, <2>2 DEF UpdateKey, ByOperator, Rows
<1>11. ASSUME ~ UpdateKey, ~ \E r \in Requests : Proceed(r)
       PROVE  UNCHANGED <<key, request>>
    BY <1>11 DEF Next, Operate, ProvisionUserKey, StartRevoke, Revoke, ResetDailyBudget,
       ByOperator, CleanupSpend, Tick, Ended, vars
<1>12. None \notin Rows
    BY NoneAssumption
<1>. QED  BY <1>9, <1>10, <1>11, <1>12

\* A revoked key stays revoked, and no request is authenticated against it.
THEOREM RevokedKeysOut == Spec => RevokedStaysOut
<1>. DEFINE Both == IInv /\ RevokeKnows
            A == key # None /\ key.status = "revoked" =>
                    /\ key' # None /\ key'.status = "revoked"
                    /\ \A r \in Requests : request'[r].auth # None => request[r].auth # None
<1>1. Both /\ [Next]_vars => A
    BY RevokedStep
<1>2. Spec => []Both
    BY Invariants
<1>. HIDE DEF Both, A
<1>3. Spec => [][A]_vars
    BY <1>1, <1>2, PTL DEF Spec
<1>. QED  BY <1>3 DEF RevokedStaysOut, A

-----------------------------------------------------------------------------
(* The streamed responses. *)

HandlerType ==
  [pc : {"dispatching", "reading", "draining", "auditing", "boundary", "finished"},
   error : {"none", "stream", "other"}, captured : BOOLEAN, sawClose : BOOLEAN,
   audit : Seq({"succeeded", "aborted", "failed"}), lost : BOOLEAN]

SocketType ==
  [client : {"connected", "gone"}, buffer : Int, needDrain : BOOLEAN, headers : BOOLEAN,
   ended : BOOLEAN, frames : Seq({"delta", "done", "error"})]

StreamStates == {"none", "unread", "open", "closed"}

Readings == Events \cup {"end"}

\* What a handler's row says of its outcome, if it was written.
Told(h, o) ==
  \/ h.audit = <<>> /\ h.lost
  \/ h.error # "none" /\ h.audit = <<"failed">>
  \/ h.error = "none" /\ h.sawClose /\ h.audit = <<"aborted">>
  \/ h.error = "none" /\ ~h.sawClose /\ h.audit = <<"succeeded">> /\ Delivered(o)

(***************************************************************************)
(* A handler h, its socket o, its stream st with the readings sc to come.  *)
(* The heart of it: a handler that reads on after the last frame without   *)
(* having seen an error or the client leave has written the final one, and *)
(* a final frame is out only if no error was seen.  It holds because a     *)
(* client that left unseen leaves the handler waiting.                     *)
(***************************************************************************)
Consistent(h, o, st, sc) ==
  /\ h \in HandlerType /\ o \in SocketType /\ st \in StreamStates /\ sc \in Seq(Readings)
  /\ sc # <<>> => sc[Len(sc)] = "end"
  /\ h.sawClose => o.client = "gone"
  /\ Delivered(o) => sc = <<>> /\ ~h.captured /\ h.error = "none"
  /\ h.pc \in {"dispatching", "reading", "draining", "auditing"} => h.audit = <<>>
  /\ h.pc \in {"dispatching", "reading", "draining"} =>
       h.error = "none" /\ (sc # <<>> \/ st = "none" => ~h.captured)
  /\ h.pc = "dispatching" => st \in {"none", "unread"} /\ (st = "unread" => sc # <<>>) /\ o.frames = <<>>
  /\ h.pc \in {"reading", "draining"} => st \in {"unread", "open", "closed"} /\ (st = "closed" => sc = <<>>)
  /\ h.pc = "reading" /\ sc = <<>> /\ ~h.captured /\ ~h.sawClose => Delivered(o)
  /\ h.pc = "draining" /\ sc = <<>> /\ ~h.captured /\ o.client = "connected" => Delivered(o)
  /\ h.pc = "auditing" /\ h.error = "none" /\ ~h.sawClose => Delivered(o)
  /\ h.pc = "boundary" => h.error # "none" /\ Told(h, o)
  /\ h.pc = "finished" => Told(h, o)

Unended == {s \in Responses : stream[s] \in {"unread", "open"}}

\* The leases are the streams that have not ended.
LeasesCounted == inflight = Cardinality(Unended)

\* The inductive invariant: each response is consistent, and the leases are counted.
StreamInv ==
  /\ handler \in [Responses -> HandlerType] /\ socket \in [Responses -> SocketType]
  /\ stream \in [Responses -> StreamStates] /\ script \in [Responses -> Seq(Readings)]
  /\ \A s \in Responses : Consistent(handler[s], socket[s], stream[s], script[s])
  /\ LeasesCounted

-----------------------------------------------------------------------------
\* A step of one response; the others are as they were.
LEMMA StepOfOne ==
  ASSUME StreamInv, NEW s \in Responses, NEW h, NEW o, NEW st, NEW sc,
         handler' = [handler EXCEPT ![s] = h], socket' = [socket EXCEPT ![s] = o],
         stream' = [stream EXCEPT ![s] = st], script' = [script EXCEPT ![s] = sc],
         Consistent(h, o, st, sc), LeasesCounted'
  PROVE  StreamInv'
<1>1. /\ handler' = [x \in Responses |-> IF x = s THEN h ELSE handler[x]]
      /\ socket' = [x \in Responses |-> IF x = s THEN o ELSE socket[x]]
      /\ stream' = [x \in Responses |-> IF x = s THEN st ELSE stream[x]]
      /\ script' = [x \in Responses |-> IF x = s THEN sc ELSE script[x]]
  BY DEF StreamInv
<1>2. \A x \in Responses : Consistent(handler'[x], socket'[x], stream'[x], script'[x])
  <2>1. SUFFICES ASSUME NEW x \in Responses
                 PROVE  Consistent(handler'[x], socket'[x], stream'[x], script'[x])
    OBVIOUS
  <2>2. CASE x = s
    BY <1>1, <2>2
  <2>3. CASE x # s
    BY <1>1, <2>3 DEF StreamInv
  <2>. QED  BY <2>2, <2>3
<1>3. h \in HandlerType /\ o \in SocketType /\ st \in StreamStates /\ sc \in Seq(Readings)
  BY DEF Consistent
<1>4. /\ handler' \in [Responses -> HandlerType] /\ socket' \in [Responses -> SocketType]
      /\ stream' \in [Responses -> StreamStates] /\ script' \in [Responses -> Seq(Readings)]
  BY <1>3 DEF StreamInv
<1>. QED  BY <1>2, <1>4 DEF StreamInv

\* What the invariant says of one response.
LEMMA OfOne ==
  ASSUME StreamInv, NEW s \in Responses
  PROVE  /\ Consistent(handler[s], socket[s], stream[s], script[s])
         /\ handler[s] \in HandlerType /\ socket[s] \in SocketType
         /\ stream[s] \in StreamStates /\ script[s] \in Seq(Readings)
BY DEF StreamInv, Consistent

\* A step of the handler and the socket alone.
LEMMA StepOfHandler ==
  ASSUME StreamInv, NEW s \in Responses, NEW h, NEW o,
         handler' = [handler EXCEPT ![s] = h], socket' = [socket EXCEPT ![s] = o],
         UNCHANGED <<inflight, stream, script>>,
         Consistent(h, o, stream[s], script[s])
  PROVE  StreamInv'
<1>1. PICK st \in StreamStates : st = stream[s]
  BY OfOne
<1>2. PICK sc \in Seq(Readings) : sc = script[s]
  BY OfOne
<1>3. stream' = [stream EXCEPT ![s] = st] /\ script' = [script EXCEPT ![s] = sc]
  BY <1>1, <1>2 DEF StreamInv
<1>4. LeasesCounted'
  <2>1. Unended' = Unended
    BY DEF Unended
  <2>. QED  BY <2>1 DEF StreamInv, LeasesCounted
<1>5. Consistent(h, o, st, sc)
  BY <1>1, <1>2
<1>. QED  BY <1>3, <1>4, <1>5, StepOfOne

-----------------------------------------------------------------------------
\* The client leaves: from then on every row but "succeeded" is true.
LEMMA DisconnectStep ==
  ASSUME StreamInv, NEW s \in Responses, Disconnect(s)
  PROVE  StreamInv'
<1>. DEFINE o == [socket[s] EXCEPT !.client = "gone"]
            h == IF handler[s].pc \in {"reading", "draining"}
                 THEN [handler[s] EXCEPT !.sawClose = TRUE] ELSE handler[s]
<1>1. /\ socket' = [socket EXCEPT ![s] = o] /\ handler' = [handler EXCEPT ![s] = h]
      /\ UNCHANGED <<inflight, stream, script>>
  BY DEF Disconnect, StreamInv
<1>2. /\ o \in SocketType /\ o.client = "gone" /\ o.frames = socket[s].frames
  BY OfOne DEF SocketType
<1>3. /\ h \in HandlerType /\ h.pc = handler[s].pc /\ h.error = handler[s].error
      /\ h.captured = handler[s].captured /\ h.audit = handler[s].audit /\ h.lost = handler[s].lost
      /\ handler[s].sawClose => h.sawClose
      /\ h.pc \in {"reading", "draining"} => h.sawClose
      /\ h.pc \notin {"reading", "draining"} => h.sawClose = handler[s].sawClose
  BY OfOne DEF HandlerType
<1>. HIDE DEF o, h
<1>4. Delivered(socket[s]) <=> Delivered(o)
  BY <1>2 DEF Delivered
<1>5. Consistent(h, o, stream[s], script[s])
  BY <1>2, <1>3, <1>4, OfOne DEF Consistent, Told
<1>. QED  BY <1>1, <1>5, StepOfHandler

\* A frame leaves the buffer: the handler it wakes has a client.
LEMMA FlushStep ==
  ASSUME StreamInv, NEW s \in Responses, Flush(s)
  PROVE  StreamInv'
<1>. DEFINE empty == socket[s].buffer = 1
            woken == empty /\ socket[s].needDrain /\ handler[s].pc = "draining"
            o == [socket[s] EXCEPT !.buffer = socket[s].buffer - 1,
                                   !.needDrain = socket[s].needDrain /\ ~empty]
            h == IF woken THEN [handler[s] EXCEPT !.pc = "reading"] ELSE handler[s]
<1>1. /\ socket' = [socket EXCEPT ![s] = o] /\ handler' = [handler EXCEPT ![s] = h]
      /\ socket[s].client = "connected" /\ UNCHANGED <<inflight, stream, script>>
  BY DEF Flush, StreamInv
<1>2. /\ o \in SocketType /\ o.client = "connected" /\ o.frames = socket[s].frames
  <2>1. socket[s].buffer - 1 \in Int /\ (socket[s].needDrain /\ ~empty) \in BOOLEAN
    BY OfOne DEF SocketType
  <2>. QED  BY <1>1, <2>1, OfOne DEF SocketType
<1>3. /\ h \in HandlerType /\ h.error = handler[s].error
      /\ h.captured = handler[s].captured /\ h.audit = handler[s].audit /\ h.lost = handler[s].lost
      /\ h.sawClose = handler[s].sawClose
      /\ h.pc = handler[s].pc \/ (handler[s].pc = "draining" /\ h.pc = "reading")
  BY OfOne DEF HandlerType
<1>. HIDE DEF o, h
<1>4. Delivered(socket[s]) <=> Delivered(o)
  BY <1>2 DEF Delivered
<1>5. Consistent(h, o, stream[s], script[s])
  BY <1>1, <1>2, <1>3, <1>4, OfOne DEF Consistent, Told
<1>. QED  BY <1>1, <1>5, StepOfHandler

-----------------------------------------------------------------------------
\* A stream stays within the ended or the unended: its lease is kept.
LEMMA LeaseKept ==
  ASSUME StreamInv, NEW s \in Responses, NEW st, stream' = [stream EXCEPT ![s] = st],
         st \in {"unread", "open"} <=> stream[s] \in {"unread", "open"}, inflight' = inflight
  PROVE  LeasesCounted'
<1>1. stream' = [x \in Responses |-> IF x = s THEN st ELSE stream[x]]
  BY DEF StreamInv
<1>2. Unended' = Unended
  BY <1>1 DEF Unended
<1>. QED  BY <1>2 DEF StreamInv, LeasesCounted

\* A stream begins: one lease more.
LEMMA LeaseOpens ==
  ASSUME StreamInv, NEW s \in Responses, stream' = [stream EXCEPT ![s] = "unread"],
         stream[s] = "none", inflight' = inflight + 1
  PROVE  LeasesCounted'
<1>1. stream' = [x \in Responses |-> IF x = s THEN "unread" ELSE stream[x]]
  BY DEF StreamInv
<1>2. Unended' = Unended \cup {s} /\ s \notin Unended
  BY <1>1 DEF Unended
<1>3. IsFiniteSet(Unended)
  BY FS_Subset, StreamAssumption DEF Unended, StreamAssumption
<1>4. Cardinality(Unended') = Cardinality(Unended) + 1
  BY <1>2, <1>3, FS_AddElement
<1>. QED  BY <1>4 DEF StreamInv, LeasesCounted

\* A stream ends: one lease less.
LEMMA LeaseEnds ==
  ASSUME StreamInv, NEW s \in Responses, stream' = [stream EXCEPT ![s] = "closed"],
         stream[s] \in {"unread", "open"}, inflight' = inflight - 1
  PROVE  LeasesCounted'
<1>1. stream' = [x \in Responses |-> IF x = s THEN "closed" ELSE stream[x]]
  BY DEF StreamInv
<1>2. Unended' = Unended \ {s} /\ s \in Unended
  BY <1>1 DEF Unended
<1>3. IsFiniteSet(Unended)
  BY FS_Subset, StreamAssumption DEF Unended, StreamAssumption
<1>4. Cardinality(Unended') = Cardinality(Unended) - 1
  BY <1>2, <1>3, FS_RemoveElement
<1>. QED  BY <1>4 DEF StreamInv, LeasesCounted

\* A stream is closed, now or before: its lease is released once.
LEMMA StreamCloses ==
  ASSUME StreamInv, NEW s \in Responses, CloseStream(s), stream[s] \in {"unread", "open", "closed"}
  PROVE  LeasesCounted'
<1>1. CASE stream[s] = "closed"
  BY <1>1, LeaseKept DEF CloseStream
<1>2. CASE stream[s] # "closed"
  BY <1>2, LeaseEnds DEF CloseStream
<1>. QED  BY <1>1, <1>2

-----------------------------------------------------------------------------
\* A provider's stream arrives, with events still to come.
LEMMA ReceiveStreamStep ==
  ASSUME StreamInv, NEW s \in Responses, ReceiveStream(s)
  PROVE  StreamInv'
<1>1. PICK events \in Scripts : script' = [script EXCEPT ![s] = WithEnd(events)]
  BY DEF ReceiveStream
<1>. DEFINE all == WithEnd(events)
<1>2. all \in Seq(Readings) /\ all # <<>> /\ all[Len(all)] = "end"
  <2>1. events \in Seq(Events)
    BY StreamAssumption DEF StreamAssumption
  <2>2. events \in Seq(Readings)
    BY <2>1 DEF Readings
  <2>. QED  BY <2>2 DEF Readings, WithEnd
<1>. HIDE DEF all
<1>3. PICK h \in HandlerType : h = handler[s]
  BY OfOne
<1>4. PICK o \in SocketType : o = socket[s]
  BY OfOne
<1>5. handler' = [handler EXCEPT ![s] = h] /\ socket' = [socket EXCEPT ![s] = o]
  BY <1>3, <1>4 DEF ReceiveStream, StreamInv
<1>6. Consistent(h, o, "unread", all)
  <2>1. ~Delivered(o)
    BY <1>4, OfOne DEF Consistent, ReceiveStream, Delivered
  <2>. QED  BY <1>2, <1>3, <1>4, <2>1, OfOne DEF Consistent, ReceiveStream, StreamStates
<1>7. LeasesCounted'
  BY LeaseOpens DEF ReceiveStream
<1>8. stream' = [stream EXCEPT ![s] = "unread"]
  BY DEF ReceiveStream
<1>. QED  BY <1>1, <1>5, <1>6, <1>7, <1>8, StepOfOne DEF all

\* The dispatch fails: the error is set, and the row will say so.
LEMMA DispatchFailsStep ==
  ASSUME StreamInv, NEW s \in Responses, DispatchFails(s)
  PROVE  StreamInv'
<1>. DEFINE h == [handler[s] EXCEPT !.pc = "auditing", !.error = "other"]
            o == socket[s]
<1>1. /\ handler' = [handler EXCEPT ![s] = h] /\ socket' = [socket EXCEPT ![s] = o]
      /\ UNCHANGED <<inflight, stream, script>>
  BY DEF DispatchFails, StreamInv
<1>2. /\ h \in HandlerType /\ h.pc = "auditing" /\ h.error = "other"
      /\ h.audit = handler[s].audit /\ h.sawClose = handler[s].sawClose
  BY OfOne DEF HandlerType
<1>. HIDE DEF h
<1>3. handler[s].pc = "dispatching" /\ ~Delivered(o)
  BY OfOne DEF DispatchFails, Consistent, Delivered
<1>4. Consistent(h, o, stream[s], script[s])
  BY <1>2, <1>3, OfOne DEF Consistent
<1>. QED  BY <1>1, <1>4, StepOfHandler

\* The headers go out; the stream has not been read, so events are to come.
LEMMA StartSseStep ==
  ASSUME StreamInv, NEW s \in Responses, StartSse(s)
  PROVE  StreamInv'
<1>. DEFINE h == [handler[s] EXCEPT !.pc = "reading"]
            o == [socket[s] EXCEPT !.headers = TRUE]
<1>1. /\ handler' = [handler EXCEPT ![s] = h] /\ socket' = [socket EXCEPT ![s] = o]
      /\ UNCHANGED <<inflight, stream, script>>
  BY DEF StartSse, StreamInv
<1>2. /\ h \in HandlerType /\ h.pc = "reading" /\ h.audit = handler[s].audit
      /\ h.sawClose = handler[s].sawClose /\ h.error = handler[s].error /\ h.captured = handler[s].captured
  BY OfOne DEF HandlerType
<1>3. o \in SocketType /\ o.client = socket[s].client /\ o.frames = socket[s].frames
  BY OfOne DEF SocketType
<1>. HIDE DEF h, o
<1>4. handler[s].pc = "dispatching" /\ stream[s] = "unread" /\ ~Delivered(o)
  BY <1>3, OfOne DEF StartSse, Consistent, Delivered
<1>5. Consistent(h, o, stream[s], script[s])
  BY <1>2, <1>3, <1>4, OfOne DEF Consistent
<1>. QED  BY <1>1, <1>5, StepOfHandler

\* The answer ends: with an error, seen aborted, or with its final frame out.
LEMMA EndStep ==
  ASSUME StreamInv, NEW s \in Responses, NEW error \in {"none", "stream"},
         handler[s].pc = "reading", EndResponse(s, error),
         error = "none" /\ ~handler[s].sawClose => Delivered(socket[s]),
         error # "none" => ~Delivered(socket[s])
  PROVE  StreamInv'
<1>. DEFINE h == [handler[s] EXCEPT !.pc = "auditing", !.error = error]
            o == [socket[s] EXCEPT !.ended = TRUE]
<1>1. /\ handler' = [handler EXCEPT ![s] = h] /\ socket' = [socket EXCEPT ![s] = o]
      /\ stream' = [stream EXCEPT ![s] = "closed"] /\ script' = [script EXCEPT ![s] = <<>>]
  BY DEF EndResponse, CloseStream, StreamInv
<1>2. /\ h \in HandlerType /\ h.pc = "auditing" /\ h.error = error
      /\ h.audit = handler[s].audit /\ h.sawClose = handler[s].sawClose
      /\ h.captured = handler[s].captured
  BY OfOne DEF HandlerType
<1>3. o \in SocketType /\ o.client = socket[s].client /\ o.frames = socket[s].frames
  BY OfOne DEF SocketType
<1>. HIDE DEF h, o
<1>4. Delivered(socket[s]) <=> Delivered(o)
  BY <1>3 DEF Delivered
<1>5. Consistent(h, o, "closed", <<>>)
  BY <1>2, <1>3, <1>4, OfOne DEF Consistent, StreamStates
<1>6. stream[s] \in {"unread", "open", "closed"}
  BY OfOne DEF Consistent
<1>7. LeasesCounted'
  BY <1>6, StreamCloses DEF EndResponse
<1>. QED  BY <1>1, <1>5, <1>7, StepOfOne

\* The loop ran to its end: the last frame is out unless an error was seen.
LEMMA FinishStreamStep ==
  ASSUME StreamInv, NEW s \in Responses, FinishStream(s)
  PROVE  StreamInv'
<1>1. handler[s].pc = "reading" /\ script[s] = <<>>
  BY DEF FinishStream
<1>2. CASE handler[s].captured
  <2>1. EndResponse(s, "stream") /\ ~Delivered(socket[s])
    BY <1>2, OfOne DEF FinishStream, Consistent
  <2>. QED  BY <1>1, <2>1, EndStep
<1>3. CASE ~handler[s].captured
  <2>1. EndResponse(s, "none")
    BY <1>3 DEF FinishStream
  <2>2. ~handler[s].sawClose => Delivered(socket[s])
    BY <1>1, <1>3, OfOne DEF Consistent
  <2>. QED  BY <1>1, <2>1, <2>2, EndStep
<1>. QED  BY <1>2, <1>3

\* The stream throws: an error.
LEMMA StreamThrowsStep ==
  ASSUME StreamInv, NEW s \in Responses, StreamThrows(s)
  PROVE  StreamInv'
<1>1. handler[s].pc = "reading" /\ EndResponse(s, "stream") /\ ~Delivered(socket[s])
  BY OfOne DEF StreamThrows, Consistent
<1>. QED  BY <1>1, EndStep

-----------------------------------------------------------------------------
\* The tail of a sequence is one and ends as the sequence does; if it is
\* empty, the sequence was one element.
LEMMA TailOf ==
  ASSUME NEW S, NEW q \in Seq(S), q # <<>>
  PROVE  /\ Tail(q) \in Seq(S)
         /\ Tail(q) # <<>> => Tail(q)[Len(Tail(q))] = q[Len(q)]
         /\ Tail(q) = <<>> => q[Len(q)] = Head(q)
<1>1. /\ Len(q) \in Nat \ {0} /\ Tail(q) \in Seq(S) /\ Len(Tail(q)) = Len(q) - 1
      /\ \A i \in 1 .. Len(Tail(q)) : Tail(q)[i] = q[i + 1]
  BY HeadTailProperties, LenProperties
<1>2. ASSUME Tail(q) # <<>>  PROVE Tail(q)[Len(Tail(q))] = q[Len(q)]
  <2>1. Len(Tail(q)) # 0
    BY <1>1, <1>2, EmptySeq
  <2>. QED  BY <1>1, <2>1
<1>3. ASSUME Tail(q) = <<>>  PROVE q[Len(q)] = Head(q)
  <2>. DEFINE n == Len(q)
              m == Len(Tail(q))
  <2>1. n \in Nat /\ m = n - 1 /\ m = 0
    BY <1>1, <1>3, EmptySeq
  <2>. HIDE DEF n, m
  <2>2. n = 1
    BY <2>1
  <2>. USE DEF n
  <2>. QED  BY <2>2
<1>. QED  BY <1>1, <1>2, <1>3

\* The handler h and the socket o that a write of a frame leaves.
Written(s, frame, h, o) ==
  /\ handler' = [handler EXCEPT ![s] = h] /\ socket' = [socket EXCEPT ![s] = o]
  /\ h.pc \in {"reading", "draining"} /\ (o.client = "gone" => h.pc = "draining")
  /\ h.error = handler[s].error /\ h.audit = handler[s].audit
  /\ h.sawClose = handler[s].sawClose
  /\ h.captured = (handler[s].captured \/ frame = "error")
  /\ o.client = socket[s].client
  /\ o.frames = IF o.client = "connected" THEN Append(socket[s].frames, frame) ELSE socket[s].frames

\* What a write does to the handler and the socket.
LEMMA WriteEffect ==
  ASSUME StreamInv, NEW s \in Responses, NEW frame \in {"delta", "done", "error"}, Write(s, frame)
  PROVE  \E h \in HandlerType, o \in SocketType : Written(s, frame, h, o)
<1>. DEFINE gone == socket[s].client = "gone"
            full == socket[s].buffer + 1 >= HighWater
            pc   == IF gone \/ full THEN "draining" ELSE "reading"
            capt == handler[s].captured \/ frame = "error"
            more == socket[s].buffer + 1
            out  == Append(socket[s].frames, frame)
            h    == [handler[s] EXCEPT !.pc = pc, !.captured = capt]
            told == [socket[s] EXCEPT !.buffer = more, !.needDrain = full, !.frames = out]
            o    == IF gone THEN socket[s] ELSE told
<1>1. handler' = [handler EXCEPT ![s] = h] /\ socket' = [socket EXCEPT ![s] = o]
  BY DEF Write, StreamInv
<1>2. pc \in {"reading", "draining"} /\ (gone => pc = "draining") /\ capt \in BOOLEAN
  BY OfOne DEF HandlerType
<1>3. more \in Int /\ full \in BOOLEAN /\ out \in Seq({"delta", "done", "error"})
  BY OfOne DEF SocketType
<1>. HIDE DEF pc, capt, more, full, out
<1>4. /\ h \in HandlerType /\ h.pc = pc /\ h.captured = capt /\ h.error = handler[s].error
      /\ h.audit = handler[s].audit /\ h.sawClose = handler[s].sawClose
  BY <1>2, OfOne DEF HandlerType
<1>5. told \in SocketType /\ told.client = socket[s].client /\ told.frames = out
  BY <1>3, OfOne DEF SocketType
<1>. HIDE DEF h, told
<1>6. /\ o \in SocketType /\ o.client = socket[s].client
      /\ o.frames = IF o.client = "connected" THEN out ELSE socket[s].frames
  BY <1>5, OfOne DEF SocketType
<1>7. (o.client = "gone" => h.pc = "draining") /\ h.captured = (handler[s].captured \/ frame = "error")
  BY <1>2, <1>4, <1>6 DEF capt
<1>8. o.frames = IF o.client = "connected" THEN Append(socket[s].frames, frame) ELSE socket[s].frames
  BY <1>6 DEF out
<1>. HIDE DEF o
<1>9. Written(s, frame, h, o)
  BY <1>1, <1>2, <1>4, <1>6, <1>7, <1>8 DEF Written
<1>. QED  BY <1>4, <1>6, <1>9

\* After a write the final frame is out if it was written to a client that is
\* there, and only then.
LEMMA WriteDelivers ==
  ASSUME StreamInv, NEW s \in Responses, NEW frame \in {"delta", "done", "error"},
         NEW h \in HandlerType, NEW o \in SocketType, Written(s, frame, h, o), ~Delivered(socket[s])
  PROVE  Delivered(o) <=> o.client = "connected" /\ frame = "done"
<1>1. socket[s].frames \in Seq({"delta", "done", "error"})
  BY OfOne DEF SocketType
<1>2. CASE o.client = "connected"
  BY <1>1, <1>2 DEF Written, Delivered
<1>3. CASE o.client # "connected"
  BY <1>3 DEF Written, Delivered
<1>. QED  BY <1>2, <1>3

\* A frame is written.  What remains of the readings still ends with the end;
\* nothing remains only if the frame was the final one or an error.
LEMMA WriteStep ==
  ASSUME StreamInv, NEW s \in Responses, ReadEvent(s), ~handler[s].sawClose
  PROVE  StreamInv'
<1>. DEFINE event == Head(script[s])
<1>1. /\ handler[s].pc = "reading" /\ script[s] # <<>> /\ event \in {"delta", "done", "errorEvent"}
      /\ stream[s] \in {"unread", "open"} /\ handler[s].audit = <<>>
      /\ script[s][Len(script[s])] = "end" /\ ~Delivered(socket[s])
  <2>1. event \in Readings /\ event \notin {"throw", "end"}
    BY OfOne DEF ReadEvent
  <2>. QED  BY <2>1, OfOne DEF ReadEvent, Consistent, Events, Readings
<1>2. PICK frame \in {"delta", "done", "error"} : frame = FrameOf(event)
  BY <1>1 DEF FrameOf
<1>3. Write(s, frame)
  BY <1>2 DEF ReadEvent
<1>4. PICK h \in HandlerType, o \in SocketType : Written(s, frame, h, o)
  BY <1>3, WriteEffect
<1>5. PICK sc \in Seq(Readings) : (event = "delta" => sc = Tail(script[s])) /\ (event # "delta" => sc = <<>>)
  <2>1. Tail(script[s]) \in Seq(Readings) /\ <<>> \in Seq(Readings)
    BY <1>1, OfOne, TailOf, EmptySeq
  <2>2. CASE event = "delta"
    BY <2>1, <2>2, Zenon
  <2>3. CASE event # "delta"
    BY <2>1, <2>3, Zenon
  <2>. QED  BY <2>2, <2>3
<1>6. stream' = [stream EXCEPT ![s] = "open"] /\ script' = [script EXCEPT ![s] = sc] /\ inflight' = inflight
  BY <1>5 DEF ReadEvent, StreamInv
<1>7. sc # <<>> => sc[Len(sc)] = "end"
  BY <1>1, <1>5, OfOne, TailOf
<1>8. sc = <<>> <=> event # "delta"
  BY <1>1, <1>5, OfOne, TailOf
<1>9. Delivered(o) <=> o.client = "connected" /\ frame = "done"
  BY <1>1, <1>4, WriteDelivers
<1>10. h.captured = (handler[s].captured \/ frame = "error") /\ (frame = "done" <=> event = "done")
       /\ (frame = "error" <=> event = "errorEvent")
  BY <1>1, <1>2, <1>4 DEF FrameOf, Written
<1>11. o.client \in {"connected", "gone"}
  BY DEF SocketType
<1>12. ~handler[s].captured /\ h.error = "none"
  BY <1>1, <1>4, OfOne DEF Consistent, Written
<1>13. Consistent(h, o, "open", sc)
  BY <1>1, <1>4, <1>7, <1>8, <1>9, <1>10, <1>11, <1>12 DEF Consistent, StreamStates, Written
<1>14. LeasesCounted'
  BY <1>1, <1>6, LeaseKept
<1>. QED  BY <1>4, <1>6, <1>13, <1>14, StepOfOne DEF Written

\* A turn of the loop: a frame is written, or a client seen gone ends it.
LEMMA ReadEventStep ==
  ASSUME StreamInv, NEW s \in Responses, ReadEvent(s)
  PROVE  StreamInv'
<1>1. CASE ~handler[s].sawClose
  BY <1>1, WriteStep
<1>2. CASE handler[s].sawClose
  <2>1. PICK error \in {"none", "stream"} : EndResponse(s, error)
    BY <1>2 DEF ReadEvent
  <2>2. handler[s].pc = "reading" /\ ~Delivered(socket[s])
    BY OfOne DEF ReadEvent, Consistent
  <2>. QED  BY <1>2, <2>1, <2>2, EndStep
<1>. QED  BY <1>1, <1>2

\* The source is exhausted: the lease is released, a final frame is written.
LEMMA SourceEndsStep ==
  ASSUME StreamInv, NEW s \in Responses, SourceEnds(s)
  PROVE  StreamInv'
<1>1. /\ handler[s].pc = "reading" /\ script[s] # <<>> /\ handler[s].audit = <<>>
      /\ stream[s] \in {"unread", "open"} /\ ~Delivered(socket[s])
  BY OfOne DEF SourceEnds, Consistent
<1>2. CASE handler[s].sawClose
  BY <1>1, <1>2, EndStep DEF SourceEnds
<1>3. CASE ~handler[s].sawClose
  <2>1. Write(s, "done") /\ CloseStream(s)
    BY <1>3 DEF SourceEnds
  <2>2. PICK h \in HandlerType, o \in SocketType : Written(s, "done", h, o)
    BY <2>1, WriteEffect
  <2>3. Delivered(o) <=> o.client = "connected"
    BY <1>1, <2>2, WriteDelivers
  <2>4. h.captured = handler[s].captured
    BY <2>2, OfOne DEF Written, HandlerType
  <2>5. ~handler[s].captured /\ h.error = "none"
    BY <1>1, <2>2, OfOne DEF Consistent, Written
  <2>6. Consistent(h, o, "closed", <<>>)
    BY <1>1, <1>3, <2>2, <2>3, <2>4, <2>5 DEF Consistent, StreamStates, Written, SocketType
  <2>7. LeasesCounted'
    BY <1>1, <2>1, StreamCloses
  <2>8. stream' = [stream EXCEPT ![s] = "closed"] /\ script' = [script EXCEPT ![s] = <<>>]
    BY <2>1 DEF CloseStream
  <2>. QED  BY <2>2, <2>6, <2>7, <2>8, StepOfOne DEF Written
<1>. QED  BY <1>2, <1>3

\* The row is written, and it is the only one; or the INSERT fails.
LEMMA WriteRowStep ==
  ASSUME StreamInv, NEW s \in Responses, WriteRow(s)
  PROVE  StreamInv'
<1>1. PICK lost \in BOOLEAN :
        handler' = [handler EXCEPT ![s].audit = IF lost THEN @ ELSE Append(@, AuditStatus(s)),
                                   ![s].lost = lost,
                                   ![s].pc = IF handler[s].error = "none" THEN "finished" ELSE "boundary"]
  BY DEF WriteRow
<1>. DEFINE pc  == IF handler[s].error = "none" THEN "finished" ELSE "boundary"
            row == IF lost THEN handler[s].audit ELSE Append(handler[s].audit, AuditStatus(s))
            h   == [handler[s] EXCEPT !.audit = row, !.lost = lost, !.pc = pc]
            o   == socket[s]
<1>2. /\ handler' = [handler EXCEPT ![s] = h] /\ socket' = [socket EXCEPT ![s] = o]
      /\ UNCHANGED <<inflight, stream, script>>
  BY <1>1 DEF WriteRow, StreamInv
<1>3. handler[s].pc = "auditing" /\ handler[s].audit = <<>>
  BY OfOne DEF WriteRow, Consistent
<1>4. AuditStatus(s) \in {"succeeded", "aborted", "failed"}
  BY DEF AuditStatus
<1>5. /\ (lost => row = <<>>) /\ (~lost => row = <<AuditStatus(s)>>)
      /\ row \in Seq({"succeeded", "aborted", "failed"})
  <2>1. CASE lost
    BY <1>3, <2>1
  <2>2. CASE ~lost
    BY <1>3, <1>4, <2>2
  <2>. QED  BY <2>1, <2>2
<1>6. pc \in {"finished", "boundary"} /\ (pc = "finished" <=> handler[s].error = "none")
  OBVIOUS
<1>. HIDE DEF row, pc
<1>7. /\ h \in HandlerType /\ h.pc = pc /\ h.audit = row /\ h.error = handler[s].error
      /\ h.sawClose = handler[s].sawClose /\ h.captured = handler[s].captured /\ h.lost = lost
  BY <1>5, <1>6, OfOne DEF HandlerType
<1>. HIDE DEF h
<1>8. Told(h, o)
  <2>1. CASE lost
    BY <1>5, <1>7, <2>1 DEF Told
  <2>2. CASE ~lost
    <3>1. CASE handler[s].error # "none"
      BY <1>5, <1>7, <2>2, <3>1 DEF AuditStatus, Told
    <3>2. CASE handler[s].error = "none" /\ handler[s].sawClose
      BY <1>5, <1>7, <2>2, <3>2 DEF AuditStatus, Told
    <3>3. CASE handler[s].error = "none" /\ ~handler[s].sawClose
      <4>1. Delivered(socket[s])
        BY <1>3, <3>3, OfOne DEF Consistent
      <4>. QED  BY <1>5, <1>7, <2>2, <3>3, <4>1 DEF AuditStatus, Told
    <3>. QED  BY <3>1, <3>2, <3>3
  <2>. QED  BY <2>1, <2>2
<1>9. Consistent(h, o, stream[s], script[s])
  BY <1>6, <1>7, <1>8, OfOne DEF Consistent
<1>. QED  BY <1>2, <1>9, StepOfHandler

\* The error boundary: the row is written and says the answer failed.
LEMMA BoundaryStep ==
  ASSUME StreamInv, NEW s \in Responses, Boundary(s)
  PROVE  StreamInv'
<1>. DEFINE h    == [handler[s] EXCEPT !.pc = "finished"]
            out  == IF socket[s].client = "gone" THEN socket[s].frames ELSE Append(socket[s].frames, "error")
            body == [socket[s] EXCEPT !.ended = TRUE, !.headers = TRUE, !.frames = out]
            o    == IF socket[s].ended THEN socket[s] ELSE body
<1>1. /\ handler' = [handler EXCEPT ![s] = h] /\ socket' = [socket EXCEPT ![s] = o]
      /\ UNCHANGED <<inflight, stream, script>>
  BY DEF Boundary, StreamInv
<1>2. out \in Seq({"delta", "done", "error"})
  BY OfOne DEF SocketType
<1>. HIDE DEF out
<1>3. body \in SocketType /\ body.client = socket[s].client /\ body.frames = out
  BY <1>2, OfOne DEF SocketType
<1>. HIDE DEF body
<1>4. o \in SocketType /\ o.client = socket[s].client /\ (o = socket[s] \/ o = body)
  BY <1>3, OfOne
<1>5. /\ h \in HandlerType /\ h.pc = "finished" /\ h.error = handler[s].error
      /\ h.audit = handler[s].audit /\ h.sawClose = handler[s].sawClose
      /\ h.captured = handler[s].captured /\ h.lost = handler[s].lost
  BY OfOne DEF HandlerType
<1>6. /\ handler[s].pc = "boundary" /\ handler[s].error # "none" /\ Told(handler[s], socket[s])
      /\ ~Delivered(socket[s])
  BY OfOne DEF Boundary, Consistent
<1>7. ~Delivered(body)
  BY <1>3, <1>6, OfOne DEF out, Delivered, SocketType
<1>. HIDE DEF h, o
<1>8. ~Delivered(o) /\ Told(h, o)
  BY <1>4, <1>5, <1>6, <1>7 DEF Told
<1>9. Consistent(h, o, stream[s], script[s])
  BY <1>4, <1>5, <1>6, <1>8, OfOne DEF Consistent
<1>. QED  BY <1>1, <1>9, StepOfHandler

-----------------------------------------------------------------------------
\* Nothing has been dispatched: no row, no frame, no lease.
LEMMA StreamInitInv == StreamInit => StreamInv
<1>. SUFFICES ASSUME StreamInit  PROVE StreamInv
  OBVIOUS
<1>1. /\ handler \in [Responses -> HandlerType] /\ socket \in [Responses -> SocketType]
      /\ stream \in [Responses -> StreamStates] /\ script \in [Responses -> Seq(Readings)]
  BY DEF StreamInit, HandlerType, SocketType, StreamStates
<1>2. \A s \in Responses : Consistent(handler[s], socket[s], stream[s], script[s])
  <2>1. ASSUME NEW s \in Responses
        PROVE  /\ handler[s].pc = "dispatching" /\ handler[s].audit = <<>> /\ ~handler[s].sawClose
               /\ handler[s].error = "none" /\ ~handler[s].captured /\ socket[s].frames = <<>> /\ stream[s] = "none" /\ script[s] = <<>>
    BY DEF StreamInit
  <2>2. \A s \in Responses : ~Delivered(socket[s])
    BY <2>1 DEF Delivered
  <2>. QED  BY <1>1, <2>1, <2>2 DEF Consistent
<1>3. LeasesCounted
  <2>1. Unended = {}
    BY DEF StreamInit, Unended
  <2>. QED  BY <2>1, FS_EmptySet DEF StreamInit, LeasesCounted
<1>. QED  BY <1>1, <1>2, <1>3 DEF StreamInv

\* Every step preserves the invariant.
LEMMA StreamNextInv == StreamInv /\ [StreamNext]_streamVars => StreamInv'
<1>. SUFFICES ASSUME StreamInv, [StreamNext]_streamVars  PROVE StreamInv'
  OBVIOUS
<1>1. CASE StreamNext
  <2>1. PICK s \in Responses : Disconnect(s) \/ Flush(s) \/ Dispatch(s) \/ Read(s) \/ Close(s)
    BY <1>1 DEF StreamNext
  <2>2. CASE Disconnect(s)
    BY <2>2, DisconnectStep
  <2>3. CASE Flush(s)
    BY <2>3, FlushStep
  <2>4. CASE Dispatch(s)
    BY <2>4, ReceiveStreamStep, DispatchFailsStep, StartSseStep DEF Dispatch
  <2>5. CASE Read(s)
    BY <2>5, ReadEventStep, SourceEndsStep, FinishStreamStep, StreamThrowsStep DEF Read
  <2>6. CASE Close(s)
    BY <2>6, WriteRowStep, BoundaryStep DEF Close
  <2>. QED  BY <2>1, <2>2, <2>3, <2>4, <2>5, <2>6
<1>2. CASE UNCHANGED streamVars
  <2>1. UNCHANGED <<inflight, stream, script, handler, socket>>
    BY <1>2 DEF streamVars
  <2>2. Unended' = Unended
    BY <2>1 DEF Unended
  <2>3. LeasesCounted'
    BY <2>1, <2>2 DEF StreamInv, LeasesCounted
  <2>. QED  BY <2>1, <2>3 DEF StreamInv
<1>. QED  BY <1>1, <1>2

\* The inductive invariant of the streamed answers holds in every reachable
\* state, however clients leave and sockets fill up.
THEOREM ResponseInvariant == StreamSpec => []StreamInv
BY StreamInitInv, StreamNextInv, PTL DEF StreamSpec

\* At most one row per request, missing only if its INSERT failed, and it
\* tells what the client got: auditLogMiddleware reads the error and the abort
\* flag that respondMiddleware leaves.
THEOREM RowTellsOutcome == StreamSpec => []AuditTellsOutcome
<1>1. StreamInv => AuditTellsOutcome
  <2>. SUFFICES ASSUME StreamInv, NEW s \in Responses
                PROVE  /\ Len(handler[s].audit) <= 1
                       /\ handler[s].pc = "finished" => handler[s].audit # <<>> \/ handler[s].lost
                       /\ \A i \in 1 .. Len(handler[s].audit) :
                            /\ handler[s].audit[i] = "succeeded" => Delivered(socket[s])
                            /\ handler[s].audit[i] = "failed"    => ~Delivered(socket[s])
                            /\ handler[s].audit[i] = "aborted"   => socket[s].client = "gone"
    BY DEF AuditTellsOutcome
  <2>1. CASE handler[s].pc \in {"dispatching", "reading", "draining", "auditing"}
    BY <2>1, OfOne DEF Consistent
  <2>2. CASE handler[s].pc \in {"boundary", "finished"}
    <3>1. /\ Told(handler[s], socket[s]) /\ (handler[s].sawClose => socket[s].client = "gone")
          /\ (Delivered(socket[s]) => handler[s].error = "none")
      BY <2>2, OfOne DEF Consistent
    <3>2. CASE handler[s].audit = <<"failed">> /\ handler[s].error # "none"
      BY <3>1, <3>2
    <3>3. CASE handler[s].audit = <<"aborted">> /\ socket[s].client = "gone"
      BY <3>3
    <3>4. CASE handler[s].audit = <<"succeeded">> /\ Delivered(socket[s])
      BY <3>4
    <3>5. CASE handler[s].audit = <<>> /\ handler[s].lost
      BY <3>5
    <3>. QED  BY <3>1, <3>2, <3>3, <3>4, <3>5 DEF Told
  <2>. QED  BY <2>1, <2>2, OfOne DEF HandlerType
<1>. QED  BY <1>1, ResponseInvariant, PTL

\* The in-flight count of the generation is the number of streams that have
\* not ended: releaseAfterStream runs once for each stream that is read.
THEOREM LeasesAreStreams == StreamSpec => []LeasesCounted
<1>1. StreamInv => LeasesCounted
  BY DEF StreamInv
<1>. QED  BY <1>1, ResponseInvariant, PTL
==============================================================================
