-------------------------- MODULE RuntimeSnapshot --------------------------
(***************************************************************************)
(* How configuration reaches requests in soul-gateway: management handlers *)
(* and cascades change SQLite and ask for a refresh, the refresh reads the *)
(* tables and installs an immutable snapshot, a request pins the snapshot  *)
(* it finds at ingress (runtime/registry/snapshot-loader.mjs and           *)
(* runtime-refresh.mjs, management/*-route.mjs, gateway-dispatch.mjs,      *)
(* bind-snapshot.mjs, db/sqlite-db.mjs).                                   *)
(*                                                                         *)
(* SQLite is one connection behind a promise chain: `lock` is that chain,  *)
(* its head holds the connection, a transaction holds it over several      *)
(* steps.  The six SELECTs of a refresh are three here: the edited row     *)
(* (models, aliases, providers and bindings, each changed by single        *)
(* statements), the children of a tier (replaced in a transaction) and the *)
(* cooldowns.  A version number stands for a row's contents.               *)
(***************************************************************************)
EXTENDS Integers, Sequences, FiniteSets

CONSTANTS
  Admins,       \* management requests that may run at once
  Requests,     \* cascade requests
  Models,       \* the cascade's children, in priority order
  Rejected,     \* row versions that fail validateProviderCompositionSnapshot
  MaxCommits,   \* bound: the number of committed changes explored
  MaxReloads    \* bound: the number of backend reloads explored

Children == {Models[i] : i \in 1 .. Len(Models)}
Tables   == {"row", "children", "cooled"}
Half     == -1        \* the children between DELETE and COMMIT

\* Whoever writes and then asks for a refresh: a management handler, or the
\* cooldown a request records for one child.
Writers == Admins \cup (Requests \X Children)

ASSUME SnapshotAssumption ==
  /\ IsFiniteSet(Admins) /\ IsFiniteSet(Requests)
  /\ MaxCommits \in Nat /\ MaxReloads \in Nat /\ Rejected \subseteq 1 .. MaxCommits

VARIABLES
  db,           \* the rows, and how many changes were committed
  saved,        \* the children an open transaction would restore
  lock,         \* the promise chain: jobs [who, op] in order
  loader,       \* what each refresh has read so far
  ready,        \* refreshes whose Promise.all resolved, in that order
  scanning,     \* backend reloads between load() and registerExtension()
  bare,         \* the backend catalog lacks the extensions' backends
  reloads,      \* how many reloads were started
  installed,    \* services.snapshot
  request,      \* what each request pinned and tried
  owed,         \* history: commits a handler has not asked a refresh for yet
  orphaned      \* history: commits whose handler failed before it asked

refreshVars  == <<loader, ready, installed>>
reloadVars   == <<scanning, bare, reloads>>
historyVars  == <<owed, orphaned>>
snapshotVars == <<db, saved, lock, refreshVars, reloadVars, request, historyVars>>

\* Jobs that commit two changes, and jobs that commit one.
TwoStatements == {"insert", "first"}
OneStatement  == {"connect", "inTransaction", "update", "edit", "clear", "create"}
Operations    == TwoStatements \cup OneStatement \cup {"listChildren"} \cup Tables

\* The contents of the database as one read of everything would return them.
Now == [row |-> db.row, children |-> db.children, cooled |-> db.cooled,
        at |-> [t \in Tables |-> db.commits]]

Unread == [row |-> 0, children |-> 0, cooled |-> {}, at |-> [t \in Tables |-> 0]]

NoRequest == [pc |-> "idle", pinned |-> {}, tried |-> {}]

\* Boot loads the snapshot before the server listens.
SnapshotInit ==
  /\ db        = [row |-> 0, children |-> 0, cooled |-> {}, commits |-> 0]
  /\ saved     = 0
  /\ lock      = <<>>
  /\ loader    = [w \in Writers |-> Unread]
  /\ ready     = <<>>
  /\ scanning  = {} /\ reloads = 0 /\ bare = FALSE
  /\ installed = Now
  /\ request   = [r \in Requests |-> NoRequest]
  /\ owed      = [a \in Admins |-> {}]
  /\ orphaned  = {}

Job(w, op)      == [who |-> w, op |-> op]
Reads(w)        == <<Job(w, "row"), Job(w, "children"), Job(w, "cooled")>>
Holds(w, op)    == lock # <<>> /\ Head(lock) = Job(w, op)
Free(w)         == /\ \A i \in 1 .. Len(lock) : lock[i].who # w
                   /\ \A i \in 1 .. Len(ready) : ready[i] # w
                   /\ w \notin scanning
JobsIn(ops)     == Cardinality({i \in 1 .. Len(lock) : lock[i].op \in ops})
Pending         == JobsIn(OneStatement) + 2 * JobsIn(TwoStatements)
MayCommit(more) == db.commits + Pending + more <= MaxCommits
\* A committed change: one write to the rows.
Commit(changed) == db' = [changed EXCEPT !.commits = @ + 1]
-----------------------------------------------------------------------------
(* Management handlers.  Each statement enqueues for the connection; the
   refresh it asks for enqueues all its SELECTs in one go (Promise.all). *)

\* A commit its handler still has to ask a refresh for.
Owe(a) == owed' = [owed EXCEPT ![a] = @ \cup {db.commits + 1}] /\ UNCHANGED orphaned

\* requestRuntimeRefresh.
AskForRefresh(a) ==
  /\ lock' = Tail(lock) \o Reads(a)
  /\ owed' = [owed EXCEPT ![a] = {}]
  /\ UNCHANGED orphaned

\* A statement throws: the handler answers with an error and asks for no
\* refresh, whatever it has committed by then.
HandlerFails(a) ==
  /\ lock' = Tail(lock)
  /\ owed' = [owed EXCEPT ![a] = {}]
  /\ orphaned' = orphaned \cup owed[a]

\* A handler's first statement.  clearAll also refreshes when nothing was set.
Submit(a, op) ==
  /\ Free(a)
  /\ \/ op \in {"insert", "first"} /\ MayCommit(2)
     \/ op \in {"connect", "update", "edit", "clear"} /\ MayCommit(1)
  /\ lock' = Append(lock, Job(a, op))
  /\ UNCHANGED <<db, saved, refreshVars, reloadVars, request, historyVars>>

\* handleCreateTier: the INSERT, committed before the children are set.
InsertTier(a) ==
  /\ Holds(a, "insert")
  /\ \/ /\ Commit([db EXCEPT !.row = db.commits + 1])
        /\ lock' = Append(Tail(lock), Job(a, "connect"))
        /\ Owe(a)
     \/ HandlerFails(a) /\ UNCHANGED db
  /\ UNCHANGED <<saved, refreshVars, reloadVars, request>>

\* replaceChildren: BEGIN and DELETE, on the client that holds the chain.
DeleteChildren(a) ==
  /\ Holds(a, "connect")
  /\ saved' = db.children
  /\ db' = [db EXCEPT !.children = Half]
  /\ lock' = <<Job(a, "inTransaction")>> \o Tail(lock)
  /\ UNCHANGED <<refreshVars, reloadVars, request, historyVars>>

\* The INSERTs and COMMIT; handleUpdateTier goes on to update the tier's own
\* row if the body asks for it, and both list the children for their answer.
CommitChildren(a) ==
  /\ Holds(a, "inTransaction")
  /\ Commit([db EXCEPT !.children = db.commits + 1])
  /\ \E next \in {"update", "listChildren"} :
       /\ next = "update" => owed[a] = {} /\ MayCommit(1)
       /\ lock' = Append(Tail(lock), Job(a, next))
  /\ saved' = 0
  /\ Owe(a)
  /\ UNCHANGED <<refreshVars, reloadVars, request>>

\* ROLLBACK; a tier that was just created stays, without children.
RollbackChildren(a) ==
  /\ Holds(a, "inTransaction")
  /\ db' = [db EXCEPT !.children = saved]
  /\ saved' = 0
  /\ HandlerFails(a)
  /\ UNCHANGED <<refreshVars, reloadVars, request>>

\* The tier's own row: after its children, or all that enable and disable do.
UpdateTier(a) ==
  /\ Holds(a, "update")
  /\ \/ /\ Commit([db EXCEPT !.row = db.commits + 1])
        /\ lock' = Append(Tail(lock), Job(a, "listChildren"))
        /\ Owe(a)
     \/ HandlerFails(a) /\ UNCHANGED db
  /\ UNCHANGED <<saved, refreshVars, reloadVars, request>>

\* The read for the answer, then requestRuntimeRefresh.
ListChildren(a) ==
  /\ Holds(a, "listChildren")
  /\ AskForRefresh(a) \/ HandlerFails(a)
  /\ UNCHANGED <<db, saved, refreshVars, reloadVars, request>>

\* Handlers of several statements (a tier or a model is deleted with its
\* bindings and aliases): the first is committed, the last is an edit.
FirstStatement(a) ==
  /\ Holds(a, "first")
  /\ \/ /\ Commit([db EXCEPT !.row = db.commits + 1])
        /\ lock' = Append(Tail(lock), Job(a, "edit"))
        /\ Owe(a)
     \/ HandlerFails(a) /\ UNCHANGED db
  /\ UNCHANGED <<saved, refreshVars, reloadVars, request>>

\* Mutant: the handler answers without asking for a refresh.
EditRowSilently(a) ==
  /\ Holds(a, "edit")
  /\ Commit([db EXCEPT !.row = db.commits + 1])
  /\ lock' = Tail(lock)
  /\ UNCHANGED <<saved, refreshVars, reloadVars, request, historyVars>>

\* The handlers that change one row and refresh (models, aliases, blacklist
\* rules, middleware assignments, providers).
EditRow(a) ==
  /\ Holds(a, "edit")
  /\ \/ /\ Commit([db EXCEPT !.row = db.commits + 1])
        /\ AskForRefresh(a)
     \/ HandlerFails(a) /\ UNCHANGED db
  /\ UNCHANGED <<saved, refreshVars, reloadVars, request>>

ClearCooldowns(a) ==
  /\ Holds(a, "clear")
  /\ \/ /\ Commit([db EXCEPT !.cooled = {}])
        /\ AskForRefresh(a)
     \/ HandlerFails(a) /\ UNCHANGED db
  /\ UNCHANGED <<saved, refreshVars, reloadVars, request>>

\* A backend reload with snapshot: true.  From load() until the extensions
\* are merged the catalog lacks their backends, and snapshots are refused.
StartBackendReload(a) ==
  /\ Free(a)
  /\ reloads < MaxReloads /\ reloads' = reloads + 1
  /\ scanning' = scanning \cup {a}
  /\ bare' = TRUE
  /\ UNCHANGED <<db, saved, lock, refreshVars, request, historyVars>>

\* refreshRuntime: the catalogs first, the snapshot last.
FinishBackendReload(a) ==
  /\ a \in scanning
  /\ scanning' = scanning \ {a}
  /\ bare' = FALSE
  /\ lock' = lock \o Reads(a)
  /\ UNCHANGED <<reloads, db, saved, refreshVars, request, historyVars>>

\* The scan of the extensions throws: reloadBackendCatalog rejects, nothing
\* is merged, and refreshRuntime does not come to the snapshot.
BackendReloadFails(a) ==
  /\ a \in scanning
  /\ scanning' = scanning \ {a}
  /\ UNCHANGED <<bare, reloads, db, saved, lock, refreshVars, request, historyVars>>
-----------------------------------------------------------------------------
(* loadRuntimeSnapshot and reloadRuntimeSnapshot. *)

\* What a refresh has read once it has read one table more.
With(read, t) ==
  [row      |-> IF t = "row" THEN db.row ELSE read.row,
   children |-> IF t = "children" THEN db.children ELSE read.children,
   cooled   |-> IF t = "cooled" THEN db.cooled ELSE read.cooled,
   at       |-> [read.at EXCEPT ![t] = db.commits]]

\* Mutant: the SELECTs are awaited one after the other.
ReadAndRequeue(w) ==
  \E t \in Tables :
    /\ Holds(w, t)
    /\ loader' = [loader EXCEPT ![w] = With(@, t)]
    /\ LET rest == SelectSeq(Tail(lock), LAMBDA j : j.who # w)
           mine == SelectSeq(Tail(lock), LAMBDA j : j.who = w)
       IN  lock' = rest \o mine
    /\ ready' = IF t = "cooled" THEN Append(ready, w) ELSE ready
    /\ UNCHANGED <<db, saved, reloadVars, installed, request, historyVars>>

\* One SELECT runs; after the last one Promise.all resolves.
Read(w) ==
  \E t \in Tables :
    /\ Holds(w, t)
    /\ loader' = [loader EXCEPT ![w] = With(@, t)]
    /\ lock' = Tail(lock)
    /\ ready' = IF t = "cooled" THEN Append(ready, w) ELSE ready
    /\ UNCHANGED <<db, saved, reloadVars, installed, request, historyVars>>

Valid(contents) == contents.row \notin Rejected /\ ~bare

\* The maps are built and validated, and the snapshot is installed; if the
\* validation throws, the refresh is logged and the old snapshot stays.
Install ==
  /\ ready # <<>>
  /\ installed' = IF Valid(loader[Head(ready)]) THEN loader[Head(ready)] ELSE installed
  /\ loader' = [loader EXCEPT ![Head(ready)] = Unread]
  /\ ready' = Tail(ready)
  /\ UNCHANGED <<db, saved, lock, reloadVars, request, historyVars>>
-----------------------------------------------------------------------------
(* Requests and cooldowns. *)

BindSnapshot(r) ==
  /\ request[r].pc = "idle"
  /\ request' = [request EXCEPT ![r] =
       [pc |-> "selecting", pinned |-> installed.cooled, tried |-> {}]]
  /\ UNCHANGED <<db, saved, lock, refreshVars, reloadVars, historyVars>>

Candidates(r) == Children \ (request[r].tried \cup request[r].pinned)

\* One cascade iteration: the first child neither failed nor cooled down in
\* the snapshot of the request, even if the current one excludes it by now.
SelectChild(r) ==
  /\ request[r].pc = "selecting" /\ Candidates(r) # {}
  /\ \E i \in 1 .. Len(Models) :
       /\ Models[i] \in Candidates(r)
       /\ \A j \in 1 .. i - 1 : Models[j] \notin Candidates(r)
       /\ request' = [request EXCEPT ![r].pc = "trying", ![r].tried = @ \cup {Models[i]}]
  /\ UNCHANGED <<db, saved, lock, refreshVars, reloadVars, historyVars>>

\* The child answers, or fails with an error that ends the request, or the
\* tier is exhausted.
EndRequest(r) ==
  /\ \/ request[r].pc = "trying"
     \/ request[r].pc = "selecting" /\ Candidates(r) = {}
  /\ request' = [request EXCEPT ![r] = NoRequest]
  /\ UNCHANGED <<db, saved, lock, refreshVars, reloadVars, historyVars>>

\* A cascade error: on to the next child.
NextChild(r) ==
  /\ request[r].pc = "trying"
  /\ request' = [request EXCEPT ![r].pc = "selecting"]
  /\ UNCHANGED <<db, saved, lock, refreshVars, reloadVars, historyVars>>

\* ... with a cooldown for the child that was tried last: persistCooldown
\* is not awaited, the cascade goes on while the INSERT is enqueued.
CooldownChild(r, m) ==
  /\ request[r].pc = "trying" /\ m \in request[r].tried
  /\ Free(<<r, m>>) /\ MayCommit(1)
  /\ lock' = Append(lock, Job(<<r, m>>, "create"))
  /\ request' = [request EXCEPT ![r].pc = "selecting"]
  /\ UNCHANGED <<db, saved, refreshVars, reloadVars, historyVars>>

\* The INSERT, then the refresh; a failed INSERT is only logged.
CreateCooldown(w) ==
  /\ Holds(w, "create")
  /\ \/ /\ Commit([db EXCEPT !.cooled = @ \cup {w[2]}])
        /\ lock' = Tail(lock) \o Reads(w)
     \/ /\ lock' = Tail(lock)
        /\ UNCHANGED db
  /\ UNCHANGED <<saved, refreshVars, reloadVars, request, historyVars>>

\* Time passes expires_at: no statement, no refresh.  The cleanup job only
\* deletes rows no SELECT returns any more.
ExpireCooldown(m) ==
  /\ m \in db.cooled
  /\ db' = [db EXCEPT !.cooled = @ \ {m}]
  /\ UNCHANGED <<saved, lock, refreshVars, reloadVars, request, historyVars>>

\* The process dies and boots: SQLite rolls an open transaction back, the
\* memory is gone, and the boot sequence loads a snapshot or fails.
Crash ==
  LET recovered == IF db.children = Half THEN [db EXCEPT !.children = saved] ELSE db
  IN  /\ db.row \notin Rejected
      /\ db' = recovered
      /\ lock' = <<>> /\ ready' = <<>> /\ scanning' = {} /\ bare' = FALSE
      /\ installed' = [Now EXCEPT !.children = recovered.children]
      /\ request' = [r \in Requests |-> NoRequest]
      /\ saved' = 0 /\ loader' = [w \in Writers |-> Unread]
      /\ owed' = [a \in Admins |-> {}] /\ orphaned' = {}
      /\ UNCHANGED reloads
-----------------------------------------------------------------------------
AdminStep(a) ==
  \/ InsertTier(a) \/ DeleteChildren(a) \/ CommitChildren(a) \/ RollbackChildren(a)
  \/ UpdateTier(a) \/ ListChildren(a) \/ FirstStatement(a) \/ EditRow(a) \/ ClearCooldowns(a)

\* What the event loop does with statements that are already enqueued.
RunStatement ==
  \/ \E a \in Admins : AdminStep(a)
  \/ \E w \in Writers : Read(w)
  \/ \E w \in Requests \X Children : CreateCooldown(w)

SnapshotNext ==
  \/ \E a \in Admins : \/ \E op \in Operations : Submit(a, op)
                       \/ StartBackendReload(a) \/ FinishBackendReload(a) \/ BackendReloadFails(a)
  \/ RunStatement \/ Install
  \/ \E r \in Requests : \/ BindSnapshot(r) \/ SelectChild(r) \/ EndRequest(r) \/ NextChild(r)
                         \/ \E m \in Children : CooldownChild(r, m)
  \/ \E m \in Children : ExpireCooldown(m)
  \/ Crash

\* Enqueued statements run, resolved refreshes install and directory scans
\* end: the event loop is fair to callbacks that are ready.  Clients, time
\* and crashes are free.
SnapshotFairness ==
  /\ WF_snapshotVars(RunStatement) /\ WF_snapshotVars(Install)
  /\ \A a \in Admins : WF_snapshotVars(FinishBackendReload(a) \/ BackendReloadFails(a))

SnapshotSpec     == SnapshotInit /\ [][SnapshotNext]_snapshotVars
SnapshotFairSpec == SnapshotSpec /\ SnapshotFairness
-----------------------------------------------------------------------------
\* A snapshot shows the database as it was at one instant between commits,
\* although it is read by several statements while handlers write: none of
\* its tables is older than another, and it never shows a tier whose
\* children are being replaced, not even after a crash.
SnapshotIsOneInstant ==
  /\ \A t, u \in Tables : installed.at[t] = installed.at[u]
  /\ installed.children # Half

\* A reload failed half-way and none is under way that would merge the
\* extensions: every snapshot is refused until somebody reloads again.
Broken == bare /\ scanning = {}

\* Every committed change reaches new requests, also when the refresh asked
\* for it is refused because a backend reload is half-way: a reload that
\* merges ends with a refresh of its own.  What stops this is named: a row
\* that fails validation, a catalog left broken by a failed reload, and, for
\* the commits of that handler alone, a handler that failed after its commit.
ChangesReachRequests ==
  \A n \in 1 .. MaxCommits :
    db.commits = n ~> \/ installed.at["row"] >= n
                      \/ db.row \in Rejected \/ Broken
                      \/ n \in orphaned

\* "Management mutations [...] must request the specific runtime or catalog
\* refresh they affect" (docs/specs/DS008-persistence-and-snapshots.md:22), so
\* that what they commit reaches requests.  A handler that fails after its
\* commit requests none, and its change waits for somebody else's.
MutationsAreServed ==
  \A n \in 1 .. MaxCommits :
    db.commits = n ~> installed.at["row"] >= n \/ db.row \in Rejected \/ Broken
=============================================================================
