------------------------------ MODULE LogFeed ------------------------------
(***************************************************************************)
(* The log page of the dashboard and the feed that keeps it live: the      *)
(* audit log writer inserts a row and then publishes it, the broadcast hub *)
(* sends it over the subscribers' connections, the browser holds a         *)
(* WebSocket or, when that fails, an EventSource, and the page merges what *)
(* arrives with the pages of rows it asks the server for.                  *)
(*                                                                         *)
(* A call of the page is a record that is sent, answered by the server in  *)
(* one step and taken up by the page in another, in any order: what the    *)
(* page reads before an await it reads when the call is sent, what it      *)
(* reads after the await when it takes the answer up.                      *)
(***************************************************************************)
EXTENDS Integers, Sequences, FiniteSets, Bags, SequencesExt, FiniteSetsExt

CONSTANTS
  Logs,        \* the audit log rows, numbered in the order they start
  KeyOf,       \* [Logs -> the API key of a row, or Unknown]
  Unknown,     \* the list id '__unknown__' of rows without an API key
  Recent,      \* the rows inside the time range "day"; "week" has them all
  Before,      \* the tables the page may be opened on
  Hits,        \* the rows answered from the response cache
  Limit,       \* logsLimit, the rows of a page
  None,        \* null
  MaxCalls,    \* bound: calls of the page in flight
  MaxEvents    \* bound: clicks of the operator, lost connections and restarts

ASSUME LogsAssumption ==
  IsFiniteSet(Logs) /\ Logs \subseteq Nat /\ Before \subseteq SUBSET Logs /\ Limit \in Nat

VARIABLES
  auditLogs, publishing, up, subscribers, wire,
  ws, sse, reconnecting, streamMode,
  listening, keys, selectedKey, selectedLogs, logsTotal, logsOffset, sortDir,
  cacheFilter, timeRange, logsLoading, loadSeq, seenIds, calls, events, loadLost

serverVars == <<auditLogs, publishing, up, subscribers, wire>>
feedVars   == <<ws, sse, reconnecting, streamMode>>
queryVars  == <<logsOffset, sortDir, cacheFilter, timeRange>>
pageVars   == <<listening, keys, selectedKey, selectedLogs, logsTotal,
                logsLoading, loadSeq, seenIds, calls, loadLost>>
logVars    == <<serverVars, feedVars, queryVars, pageVars, events>>

Streams == {"ws", "sse"}

-----------------------------------------------------------------------------
(* The server: the queries of the log routes, the writer and the hub.      *)

\* The numbers of a set in their order.
Ascending(S) ==
  [i \in 1 .. Cardinality(S) |-> CHOOSE n \in S : Cardinality({m \in S : m <= n}) = i]

InRange(range) == IF range = "day" THEN auditLogs \cap Recent ELSE auditLogs

\* GET /logs: the rows of a key (of every key when the call names none) in the
\* asked order, one page of them, and how many there are.
Listed(c) ==
  LET found == {l \in InRange(c.range) : c.param = None \/ KeyOf[l] = c.param}
      order == IF c.dir = "desc" THEN Reverse(Ascending(found)) ELSE Ascending(found)
      end   == Min({c.offset + Limit, Len(order)})
  IN  [rows |-> SubSeq(order, c.offset + 1, end), total |-> Len(order)]

\* GET /logs/keys: one summary for each key with rows in the time range.
Summaries(range) ==
  LET ofKey(k) == {l \in InRange(range) : KeyOf[l] = k}
  IN  {[key |-> k, count |-> Cardinality(ofKey(k)), last |-> Max(ofKey(k))] :
         k \in {KeyOf[l] : l \in InRange(range)}}

\* AuditLogWriter.write: the row is in the table before it is published; with
\* subscribers its key is looked up in between.
WriteRow(l) ==
  /\ up /\ l \notin auditLogs
  /\ auditLogs' = auditLogs \cup {l}
  /\ publishing' = IF subscribers = {} THEN publishing ELSE publishing \cup {l}
  /\ UNCHANGED <<up, subscribers, wire, feedVars, queryVars, pageVars, events>>

\* BroadcastHub.publish: the dashboard subscribes without filters, so every
\* subscriber of the moment gets the row.
Publish(l) ==
  /\ l \in publishing
  /\ publishing' = publishing \ {l}
  /\ wire' = [s \in Streams |->
                IF s \in subscribers THEN Append(wire[s], l) ELSE wire[s]]
  /\ UNCHANGED <<auditLogs, up, subscribers, feedVars, queryVars, pageVars, events>>

\* The calls in flight are a bag: two may be alike in everything.
Without(c) == calls (-) SetToBag({c})

Answer(c) == IF c.kind = "keys" THEN [keys |-> Summaries(c.range)] ELSE Listed(c)

Serve(c) ==
  /\ up /\ BagIn(c, calls) /\ c.state = "sent"
  /\ calls' = Without(c) (+) SetToBag({[c EXCEPT !.state = "answered", !.answer = Answer(c)]})
  /\ UNCHANGED <<serverVars, feedVars, queryVars, events, listening, keys, selectedKey,
                 selectedLogs, logsTotal, logsLoading, loadSeq, seenIds, loadLost>>

Event == events < MaxEvents /\ events' = events + 1

\* The hub forgets a subscriber when its connection closes; what was on the
\* wire is lost with it, and the browser notices later.
Detached(s) ==
  /\ subscribers' = subscribers \ s
  /\ wire' = [x \in Streams |-> IF x \in s THEN <<>> ELSE wire[x]]
  /\ ws' = IF "ws" \in s /\ ws = "open" THEN "lost" ELSE ws
  /\ sse' = IF "sse" \in s /\ sse = "open" THEN "lost" ELSE sse
  /\ Event

Disconnect(s) ==
  /\ s \in subscribers
  /\ Detached({s})
  /\ UNCHANGED <<auditLogs, publishing, up, reconnecting, streamMode, queryVars, pageVars>>

\* The gateway stops: its table stays, rows about to be published and calls
\* it has not answered are lost.
GatewayStops ==
  /\ up /\ Detached(Streams)
  /\ up' = FALSE
  /\ publishing' = {}
  /\ LET failed(c) == [c EXCEPT !.state = "failed"]
         sent == {c \in BagToSet(calls) : c.state = "sent"}
     IN  calls' = BagUnion({[d \in {IF c \in sent THEN failed(c) ELSE c} |-> calls[c]]
                             : c \in BagToSet(calls)})
  /\ UNCHANGED <<auditLogs, reconnecting, streamMode, queryVars, listening, keys,
                 selectedKey, selectedLogs, logsTotal, logsLoading, loadSeq, seenIds, loadLost>>

Restart ==
  /\ ~up
  /\ up' = TRUE
  /\ UNCHANGED <<auditLogs, publishing, subscribers, wire, feedVars, queryVars, pageVars, events>>

-----------------------------------------------------------------------------
(* The feed of the browser: connectWs and connectSse.                      *)

Feed(next) == UNCHANGED <<auditLogs, publishing, up, queryVars, pageVars, events>> /\ next

ConnectWs == ws' = IF ws = "none" /\ sse = "none" THEN "opening" ELSE ws

\* new EventSource: an earlier one is closed first.
ConnectSse ==
  /\ sse' = "opening"
  /\ subscribers' = subscribers \ {"sse"}
  /\ wire' = [wire EXCEPT !["sse"] = <<>>]

WsOpen == Feed(
  /\ up /\ ws = "opening"
  /\ ws' = "open"
  /\ subscribers' = subscribers \cup {"ws"}
  /\ streamMode' = "ws"
  /\ UNCHANGED <<wire, sse, reconnecting>>)

\* Four seconds without an answer: the socket is given up, onclose comes later.
OpenTimeout == Feed(
  /\ ws = "opening"
  /\ ws' = "givenUp"
  /\ ConnectSse
  /\ UNCHANGED <<reconnecting, streamMode>>)

\* onclose: a socket that never opened falls back to SSE, one that was open
\* sets the reconnect timer, one given up has been replaced already.
WsRefused == Feed(
  /\ ws = "opening"
  /\ ws' = "none"
  /\ ConnectSse
  /\ UNCHANGED <<reconnecting, streamMode>>)

WsClosed == Feed(
  /\ ws \in {"lost", "givenUp"}
  /\ ws' = "none"
  /\ streamMode' = IF ws = "lost" THEN "" ELSE streamMode
  /\ reconnecting' = (reconnecting \/ ws = "lost")
  /\ UNCHANGED <<subscribers, wire, sse>>)

\* Mutant: the timer's handler does not reset _wsReconnectTimer, so that
\* connectWs finds a timer and returns.
ReconnectTimerKept == Feed(
  /\ reconnecting
  /\ UNCHANGED <<subscribers, wire, ws, sse, streamMode, reconnecting>>)

ReconnectTimer == Feed(
  /\ reconnecting
  /\ reconnecting' = FALSE
  /\ ConnectWs
  /\ UNCHANGED <<subscribers, wire, sse, streamMode>>)

SseOpen == Feed(
  /\ up /\ sse = "opening"
  /\ sse' = "open"
  /\ subscribers' = subscribers \cup {"sse"}
  /\ streamMode' = "sse"
  /\ UNCHANGED <<wire, ws, reconnecting>>)

\* onerror: the browser itself connects again, unless it was answered with
\* something that is no event stream; then it has closed for good.
SseError == Feed(
  /\ sse = "lost" \/ (sse = "opening" /\ ~up)
  /\ sse' \in {"opening", "closed"}
  /\ streamMode' = ""
  /\ UNCHANGED <<subscribers, wire, ws, reconnecting>>)

-----------------------------------------------------------------------------
(* The log page.                                                           *)

FirstKey(ks) ==
  IF ks = {} THEN None
  ELSE (CHOOSE s \in ks : \A t \in ks : t.last <= s.last).key

LogsCall(seq, key, offset, dir, range, then) ==
  [kind |-> "logs", state |-> "sent", answer |-> None, then |-> then, seq |-> seq,
   key |-> key, param |-> IF key = Unknown THEN None ELSE key,
   offset |-> offset, dir |-> dir, range |-> range]

KeysCall(prev, range, then) ==
  [kind |-> "keys", state |-> "sent", answer |-> None, then |-> then,
   prev |-> prev, range |-> range]

\* loadLogs up to its await, from the page's new state; "others" are the calls
\* still in flight.
LoadLogs(others, then) ==
  /\ loadSeq' = loadSeq + 1
  /\ logsLoading' = TRUE
  /\ calls' = others (+) SetToBag(
       {LogsCall(loadSeq + 1, selectedKey', logsOffset', sortDir', timeRange', then)})

\* Mutant: the answer is not compared with the selected key.
AppliesAlways(c) == c.seq <= loadSeq

\* loadLogs after its await: an answer to an older load, or for a key that is
\* no longer selected, is dropped.
Applies(c) == c.seq = loadSeq /\ c.key = selectedKey

\* The load whose end clears the spinner.
Clears(c) == c.kind = "logs" /\ c.seq = loadSeq

TakeLogs(c) ==
  /\ c.kind = "logs" /\ c.state = "answered"
  /\ LET rows  == c.answer.rows
         hits  == Ascending({i \in DOMAIN rows : ~cacheFilter \/ rows[i] \in Hits})
         shown == [i \in DOMAIN hits |-> rows[hits[i]]]
     IN  IF Applies(c)
         THEN /\ selectedLogs' = shown
              /\ seenIds' = seenIds \cup ToSet(shown)
              /\ logsTotal' = c.answer.total
              /\ loadLost' = FALSE
         ELSE UNCHANGED <<selectedLogs, seenIds, logsTotal, loadLost>>
  /\ logsLoading' = (logsLoading /\ ~Clears(c))
  /\ listening' = (listening \/ c.then = "listen")
  /\ calls' = Without(c)
  /\ UNCHANGED <<serverVars, feedVars, queryVars, events, keys, selectedKey, loadSeq>>

\* A call that never gets an answer: loadLogs clears its spinner, what would
\* have followed does not happen. loadLost remembers that the rows on the page
\* may be those of an earlier selection.
TakeFailure(c) ==
  /\ c.state = "failed"
  /\ calls' = Without(c)
  /\ logsLoading' = (logsLoading /\ ~Clears(c))
  /\ loadLost' = (loadLost \/ (c.kind = "logs" /\ c.seq = loadSeq))
  /\ UNCHANGED <<serverVars, feedVars, queryVars, events, listening, keys, selectedKey,
                 selectedLogs, logsTotal, loadSeq, seenIds>>

\* loadKeys after its await, and what its caller does next: the key that was
\* selected when the call was sent is selected again if it is still listed.
\* init goes on to select the first key, onTimeChange to load the rows.
TakeKeys(c) ==
  /\ c.kind = "keys" /\ c.state = "answered"
  /\ keys' = c.answer.keys
  /\ LET listed == {s.key : s \in keys'}
     IN  selectedKey' = IF c.then = "time" /\ c.prev \in listed
                        THEN c.prev ELSE FirstKey(keys')
  /\ logsOffset' = IF c.then = "init" /\ keys' = {} THEN logsOffset ELSE 0
  /\ IF c.then = "init" /\ keys' # {}
     THEN /\ cacheFilter' = FALSE
          /\ sortDir' = "desc"
          /\ selectedLogs' = <<>>
          /\ logsTotal' = (CHOOSE s \in keys' : s.key = selectedKey').count
     ELSE UNCHANGED <<cacheFilter, sortDir, selectedLogs, logsTotal>>
  /\ UNCHANGED timeRange
  /\ LoadLogs(Without(c), IF c.then = "init" THEN "listen" ELSE "")
  /\ UNCHANGED <<serverVars, feedVars, events, listening, seenIds, loadLost>>

\* handleLiveLog: a row seen before is ignored, a new one is counted for its
\* key, which is selected if none was, and shown if its key is selected.
IsNew(l) == l \notin seenIds /\ l \notin ToSet(selectedLogs)

HandleLiveLog(l) ==
  /\ seenIds' = seenIds \cup {l}
  /\ IF IsNew(l)
     THEN LET k     == KeyOf[l]
              known == {s \in keys : s.key = k}
              count == IF known = {} THEN 0 ELSE (CHOOSE s \in known : TRUE).count
              rows  == IF selectedKey = None THEN <<>> ELSE selectedLogs
              total == IF selectedKey = None THEN 0 ELSE logsTotal
          IN  /\ keys' = (keys \ known) \cup {[key |-> k, count |-> count + 1, last |-> l]}
              /\ selectedKey' = IF selectedKey = None THEN k ELSE selectedKey
              /\ logsOffset' = IF selectedKey = None THEN 0 ELSE logsOffset
              /\ IF selectedKey' = k
                 THEN /\ selectedLogs' = SubSeq(<<l>> \o rows, 1, Min({Len(rows) + 1, Limit}))
                      /\ logsTotal' = total + 1
                 ELSE UNCHANGED <<selectedLogs, logsTotal>>
     ELSE UNCHANGED <<keys, selectedKey, selectedLogs, logsTotal, logsOffset>>

\* onmessage: without a listener the event is dispatched to nobody.
Receive(s) ==
  /\ wire[s] # <<>>
  /\ wire' = [wire EXCEPT ![s] = Tail(@)]
  /\ IF listening
     THEN HandleLiveLog(Head(wire[s]))
     ELSE UNCHANGED <<keys, selectedKey, selectedLogs, logsTotal, logsOffset, seenIds>>
  /\ UNCHANGED <<auditLogs, publishing, up, subscribers, feedVars, sortDir, cacheFilter,
                 timeRange, events, listening, logsLoading, loadSeq, calls, loadLost>>

\* A click of the operator; the controls load the rows anew from the first page.
Click ==
  /\ Event
  /\ BagCardinality(calls) < MaxCalls
  /\ UNCHANGED <<serverVars, feedVars, listening, seenIds, loadLost>>

SelectKey(k) ==
  /\ Click
  /\ k \in {s.key : s \in keys} /\ k # selectedKey
  /\ selectedKey' = k
  /\ logsOffset' = 0 /\ cacheFilter' = FALSE /\ sortDir' = "desc"
  /\ selectedLogs' = <<>>
  /\ logsTotal' = (CHOOSE s \in keys : s.key = k).count
  /\ UNCHANGED <<keys, timeRange>>
  /\ LoadLogs(calls, "")

SetSort ==
  /\ Click
  /\ sortDir' = IF sortDir = "desc" THEN "asc" ELSE "desc"
  /\ logsOffset' = 0
  /\ UNCHANGED <<keys, selectedKey, selectedLogs, logsTotal, cacheFilter, timeRange>>
  /\ LoadLogs(calls, "")

SetFilter ==
  /\ Click
  /\ cacheFilter' = ~cacheFilter
  /\ logsOffset' = 0
  /\ UNCHANGED <<keys, selectedKey, selectedLogs, logsTotal, sortDir, timeRange>>
  /\ LoadLogs(calls, "")

TurnPage ==
  /\ Click
  /\ logsTotal > Limit
  /\ logsOffset' \in {o \in {logsOffset - Limit, logsOffset + Limit} :
                      0 <= o /\ (o < logsOffset \/ o < logsTotal)}
  /\ UNCHANGED <<keys, selectedKey, selectedLogs, logsTotal, cacheFilter, sortDir, timeRange>>
  /\ LoadLogs(calls, "")

TimeChange ==
  /\ Click
  /\ timeRange' = IF timeRange = "day" THEN "week" ELSE "day"
  /\ calls' = calls (+) SetToBag({KeysCall(selectedKey, timeRange', "time")})
  /\ UNCHANGED <<keys, selectedKey, selectedLogs, logsTotal, logsOffset, cacheFilter,
                 sortDir, logsLoading, loadSeq>>

-----------------------------------------------------------------------------
\* Alpine calls init by itself and again for x-init: two key lists are asked for.
LogInit ==
  /\ auditLogs \in Before
  /\ publishing = {} /\ up = TRUE /\ subscribers = {}
  /\ wire = [s \in Streams |-> <<>>]
  /\ ws = "opening" /\ sse = "none" /\ reconnecting = FALSE /\ streamMode = ""
  /\ listening = FALSE /\ keys = {} /\ selectedKey = None /\ selectedLogs = <<>>
  /\ logsTotal = 0 /\ logsOffset = 0 /\ sortDir = "desc" /\ cacheFilter = FALSE
  /\ timeRange = "day" /\ logsLoading = FALSE /\ loadSeq = 0 /\ seenIds = {}
  /\ calls = [c \in {KeysCall(None, "day", "init")} |-> 2]
  /\ events = 0 /\ loadLost = FALSE

PageNext ==
  \/ \E c \in BagToSet(calls) : TakeLogs(c) \/ TakeFailure(c) \/ TakeKeys(c)
  \/ \E s \in Streams : Receive(s)

OperatorNext ==
  \/ \E s \in keys : SelectKey(s.key)
  \/ SetSort \/ SetFilter \/ TurnPage \/ TimeChange

FeedNext ==
  WsOpen \/ OpenTimeout \/ WsRefused \/ WsClosed \/ ReconnectTimer \/ SseOpen \/ SseError

ServerNext ==
  \/ \E l \in Logs : WriteRow(l) \/ Publish(l)
  \/ \E c \in BagToSet(calls) : Serve(c)
  \/ \E s \in Streams : Disconnect(s)
  \/ GatewayStops \/ Restart

-----------------------------------------------------------------------------
(* Properties                                                              *)

\* The rows on the page are rows of the key selected on its left, whatever the
\* order in which answers, live rows and key lists arrive: once nothing is
\* loading, and unless the last load was lost. For the list id '__unknown__'
\* the code asks for the rows of all keys, see the README.
RowsBelongToSelection ==
  (~logsLoading /\ ~loadLost /\ selectedKey \notin {None, Unknown})
    => \A l \in ToSet(selectedLogs) : KeyOf[l] = selectedKey
=============================================================================
