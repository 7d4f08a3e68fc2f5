---------------------------- MODULE AdminPages ----------------------------
(***************************************************************************)
(* The pages of the dashboard that list a table of the gateway, change its *)
(* rows and list it again: providers, models, tiers, keys, blacklist rules *)
(* and middlewares; the trees two of them draw; and the provider page's    *)
(* composer, which turns an edited pipeline into a series of requests.     *)
(*                                                                         *)
(* A method of a page is a chain of requests: each is sent, served by the  *)
(* gateway, and its answer taken up, where the method goes on to its next  *)
(* request.  Nothing keeps the operator from starting the next method      *)
(* meanwhile, answers may overtake each other, and the gateway may refuse  *)
(* a request or fail with it, before and after it has changed a row.       *)
(***************************************************************************)
EXTENDS Integers, Sequences, FiniteSets, Bags, SequencesExt, FiniteSetsExt

CONSTANTS
  Rows,        \* the ids a row of the table can have
  PathOf,      \* [Rows -> the path of a model or provider in its tree]
  Groups,      \* the groups of the tree the operator may expand
  Bindings,    \* the ids a middleware binding can have
  InitialTable, InitialBindings, \* what the gateway holds at the start
  Providers,   \* the providers of the composer
  Middlewares, \* the provider middlewares there are
  Null,        \* null
  MaxRequests, \* bound: chains of requests in flight
  MaxClicks    \* bound: clicks of the operator, for each page

\* The middlewares bindings can name.
AllMiddlewares == Middlewares \cup {b.middleware : b \in InitialBindings}

ASSUME AdminAssumption ==
  /\ Bindings \subseteq Nat /\ Null \notin Bindings
  /\ IsFiniteSet(InitialBindings)
  /\ InitialBindings \subseteq
       [id : Bindings, provider : Providers, middleware : AllMiddlewares, order : Nat]
  /\ \A a, b \in InitialBindings :
       a.id = b.id \/ (a.provider = b.provider /\ a.middleware = b.middleware) => a = b

\* Tables are finite; splitPath never returns an empty path.
ASSUME TablesAssumption ==
  /\ IsFiniteSet(DOMAIN InitialTable) /\ DOMAIN InitialTable \subseteq Rows
  /\ \A r \in Rows : PathOf[r] \in Seq(STRING) /\ PathOf[r] # <<>>

VARIABLES
  page, clicks, requests,
  table,       \* the rows of the gateway, each with its enabled flag
  list,        \* the rows on the page
  listFailed,  \* the list is empty because the gateway answered with an error
  writes,      \* history: how often the gateway has changed the table
  listWrites,  \* history: how many of these changes the answer on the page had seen
  shownWrites, \* history: the most that an answer taken up had seen
  missed,      \* history: the newest change whose method ended without a list
  editing,     \* the row whose form is open, NewRow, or Null
  expanded, enabledOnly,
  bindings,    \* the bindings of all providers
  composer,    \* [provider, pipeline, shown] of the composer
  composed,    \* what the last save was asked to store, null once disturbed
  stored       \* whether that save has come to its end

history      == <<writes, listWrites, shownWrites, missed>>
listVars     == <<table, list, listFailed, history, editing>>
treeVars     == <<expanded, enabledOnly>>
composerVars == <<bindings, composer, composed, stored>>
adminVars    == <<page, clicks, requests, listVars, treeVars, composerVars>>

\* The form that creates a row.
NewRow == 0

Ended(c) == requests (-) SetToBag({c})
Then(c, d) == Ended(c) (+) SetToBag({d})
Send(c) == requests' = requests (+) SetToBag({c})

Act(p) ==
  /\ page = p
  /\ clicks < MaxClicks[page] /\ clicks' = clicks + 1
  /\ BagCardinality(requests) < MaxRequests
  /\ UNCHANGED page

-----------------------------------------------------------------------------
(* Listing and writing a table.                                            *)

\* No change of the table: those that are made count from 1.
NoWrite == 0 - 1

\* A list asked for after change n.
GetList(n) == [kind |-> "list", state |-> "sent", answer |-> Null, writes |-> n]

ListPages == {"providers", "models", "tiers", "keys", "blacklist", "middlewares"}

\* A write and what its method does with the answer: "checked" methods stop
\* with an alert when the answer is an error, the others do not look at it;
\* "closes" methods close the form; "mints" goes on to the identity router.
Write(write, row, value, checked, closes, mint) ==
  [kind |-> "write", state |-> "sent", answer |-> Null, writes |-> NoWrite, write |-> write,
   row |-> row, value |-> value, checked |-> checked, closes |-> closes, mint |-> mint]

Change(p, write, row, value, checked) ==
  /\ Act(p)
  /\ Send(Write(write, row, value, checked, FALSE, FALSE))
  /\ UNCHANGED <<listVars, treeVars, composerVars>>

\* Saving a form updates the row it was opened for, or creates one.
SaveForm(p, value, checked, mint) ==
  /\ editing # Null
  /\ Act(p)
  /\ Send(IF editing = NewRow
          THEN Write("create", Null, value, checked, TRUE, mint)
          ELSE Write("set", editing, value, checked, TRUE, FALSE))
  /\ UNCHANGED <<listVars, treeVars, composerVars>>

OpenForm(p, row) ==
  /\ page = p
  /\ editing # row
  /\ clicks < MaxClicks[page] /\ clicks' = clicks + 1
  /\ editing' = row
  /\ UNCHANGED <<page, requests, table, list, listFailed, history, treeVars, composerVars>>

\* init of a page, on every page-change event too.
ListPage(p) ==
  /\ Act(p)
  /\ Send(GetList(writes))
  /\ UNCHANGED <<listVars, treeVars, composerVars>>

With(r, v) == [x \in DOMAIN table \cup {r} |-> IF x = r THEN v ELSE table[x]]

\* What the routes do to the table: a new row, a changed one, or one removed.
Created(c, r) == c.write = "create" /\ r \in Rows \ DOMAIN table /\ table' = With(r, c.value)

Updated(c, r) == c.write = "set" /\ r = c.row /\ r \in DOMAIN table /\ table' = With(r, c.value)

WithoutRow(r) == [x \in DOMAIN table \ {r} |-> table[x]]

Removed(c, r) == c.write = "delete" /\ r = c.row /\ r \in DOMAIN table /\ table' = WithoutRow(r)

Changed(c, r) ==
  \/ Created(c, r) \/ Updated(c, r) \/ Removed(c, r)
  \/ c.write = "other" /\ r = c.row /\ UNCHANGED table

\* The handlers that do more once the row is changed, and may fail with it: store a
\* key and discover models, replace the children of a tier, await a refresh.
GoesOnAfter(c) ==
  page \in {"providers", "middlewares"} \/ (page = "tiers" /\ c.write # "delete")

\* The gateway's side of a write: the row is changed, or the write refused (a
\* conflict, a validation error, a missing row) with an error for an answer.
ServeWrite(c) ==
  /\ c.kind = "write" /\ c.state = "sent"
  /\ \/ /\ \E r \in Rows \cup {c.row} :
             /\ Changed(c, r)
             /\ requests' = Then(c, [c EXCEPT !.row = r, !.writes = writes + 1, !.answer = "ok",
                                        !.state = IF GoesOnAfter(c) THEN "changed" ELSE "answered"])
        /\ writes' = writes + 1
     \/ /\ requests' = Then(c, [c EXCEPT !.state = "answered", !.answer = "error"])
        /\ UNCHANGED <<table, writes>>
  /\ UNCHANGED <<page, clicks, list, listFailed, listWrites, shownWrites, missed, editing,
                 treeVars, composerVars>>

\* The rest of the handler: done, failed with the row changed, or, where the models of
\* a new provider cannot be discovered, failed with the row deleted again.
FinishWrite(c) ==
  /\ c.kind = "write" /\ c.state = "changed"
  /\ \/ /\ \E answer \in {"ok", "error"} :
             requests' = Then(c, [c EXCEPT !.state = "answered", !.answer = answer])
        /\ UNCHANGED <<table, writes>>
     \/ /\ page = "providers" /\ c.write = "create"
        /\ table' = WithoutRow(c.row)
        /\ requests' = Then(c, [c EXCEPT !.state = "answered", !.answer = "error",
                                         !.writes = writes + 1])
        /\ writes' = writes + 1
  /\ UNCHANGED <<page, clicks, list, listFailed, listWrites, shownWrites, missed, editing,
                 treeVars, composerVars>>

\* The rows as they are now, or an error.
ServeList(c) ==
  /\ c.kind = "list" /\ c.state = "sent"
  /\ \E answer \in {table, Null} :
       requests' = Then(c, [c EXCEPT !.state = "answered", !.answer = answer, !.writes = writes])
  /\ UNCHANGED <<page, clicks, listVars, treeVars, composerVars>>

\* What is done with the answer to a write.
Goes(c) == ~(c.checked /\ c.answer = "error")

\* Mutant: the list is not fetched again.
NoReload(c) == Ended(c)

Reload(c) == Then(c, GetList(c.writes))

\* The method of c ends without a list.
Misses(c) == missed' = Max({missed, c.writes})

TakeWrite(c) ==
  /\ c.kind = "write" /\ c.state = "answered"
  /\ editing' = IF Goes(c) /\ c.closes /\ ~c.mint THEN Null ELSE editing
  /\ requests' = IF ~Goes(c) THEN Ended(c)
              ELSE IF c.mint
                   THEN Then(c, [kind |-> "mint", state |-> "sent", writes |-> c.writes])
                   ELSE Reload(c)
  /\ IF Goes(c) THEN UNCHANGED missed ELSE Misses(c)
  /\ UNCHANGED <<page, clicks, table, list, listFailed, writes, listWrites, shownWrites,
                 treeVars, composerVars>>

\* unwrapArray makes no rows of an error; the last answer wins, whatever its age.
TakeList(c) ==
  /\ c.kind = "list" /\ c.state = "answered"
  /\ list' = IF c.answer = Null THEN <<>> ELSE c.answer
  /\ listFailed' = (c.answer = Null)
  /\ listWrites' = c.writes
  /\ shownWrites' = Max({shownWrites, c.writes})
  /\ requests' = Ended(c)
  /\ UNCHANGED <<page, clicks, table, writes, missed, editing, treeVars, composerVars>>

\* The connection breaks before or after the gateway has served the request:
\* the method ends with the exception.
Lose(c) ==
  /\ c.kind # "mint" /\ c.state # "changed"
  /\ IF c.kind \in {"list", "write"} THEN Misses(c) ELSE UNCHANGED missed
  /\ requests' = Ended(c)
  /\ UNCHANGED <<page, clicks, table, list, listFailed, writes, listWrites, shownWrites,
                 editing, treeVars, composerVars>>

-----------------------------------------------------------------------------
(* The pages.                                                              *)

ListProviders   == ListPage("providers")
EditProvider(r) == r \in DOMAIN list /\ OpenForm("providers", r)
NewProvider     == OpenForm("providers", NewRow)
CreateProvider  == SaveForm("providers", TRUE, TRUE, FALSE) /\ editing = NewRow
SaveProvider(v) == SaveForm("providers", v, FALSE, FALSE) /\ editing # NewRow
RemoveProvider(r) == r \in DOMAIN list /\ Change("providers", "delete", r, Null, TRUE)
SyncModels == Change("providers", "other", Null, Null, TRUE)

ListModels     == ListPage("models")
EditModel(r)   == r \in DOMAIN list /\ OpenForm("models", r)
NewModel       == OpenForm("models", NewRow)
ToggleModel(r) == r \in DOMAIN list /\ Change("models", "set", r, ~list[r], FALSE)
ToggleFree(r)  == r \in DOMAIN list /\ Change("models", "other", r, Null, FALSE)
CreateNewModel == SaveForm("models", TRUE, TRUE, FALSE) /\ editing = NewRow
SaveModel(v)   == SaveForm("models", v, FALSE, FALSE) /\ editing # NewRow
DeleteModel(r) == r \in DOMAIN list /\ Change("models", "delete", r, Null, FALSE)

ListTiers      == ListPage("tiers")
EditTier(r)    == r \in DOMAIN list /\ OpenForm("tiers", r)
NewTier        == OpenForm("tiers", NewRow)
SaveTier(v)    == SaveForm("tiers", v, TRUE, FALSE)
RemoveTier(r)  == r \in DOMAIN list /\ Change("tiers", "delete", r, Null, TRUE)
ToggleTier(r)  == r \in DOMAIN list /\ Change("tiers", "set", r, ~list[r], TRUE)

ListKeys        == ListPage("keys")
EditKey(r)      == r \in DOMAIN list /\ OpenForm("keys", r)
NewKey          == OpenForm("keys", NewRow)
SubmitCreateKey == SaveForm("keys", TRUE, TRUE, TRUE) /\ editing = NewRow
SaveKey(v)      == SaveForm("keys", v, FALSE, FALSE) /\ editing # NewRow
RevokeKey(r)    == r \in DOMAIN list /\ Change("keys", "set", r, FALSE, FALSE)
ResetBudget(r)  == r \in DOMAIN list /\ Change("keys", "other", r, Null, FALSE)

ListRules      == ListPage("blacklist")
EditRule(r)    == r \in DOMAIN list /\ OpenForm("blacklist", r)
NewRule        == OpenForm("blacklist", NewRow)
SaveRule(v)    == SaveForm("blacklist", v, FALSE, FALSE)
ToggleRule(r)  == r \in DOMAIN list /\ Change("blacklist", "set", r, ~list[r], FALSE)
RemoveRule(r)  == r \in DOMAIN list /\ Change("blacklist", "delete", r, Null, FALSE)

ListMiddlewares == ListPage("middlewares")
Rescan == Change("middlewares", "create", Null, TRUE, FALSE)

\* _mintUserKey: the router signs a key, or refuses and the method ends before
\* it lists the keys again.
MintUserKey(c) ==
  /\ c.kind = "mint"
  /\ \/ requests' = Reload(c) /\ UNCHANGED missed
     \/ requests' = Ended(c) /\ Misses(c)
  /\ UNCHANGED <<page, clicks, table, list, listFailed, writes, listWrites, shownWrites,
                 editing, treeVars, composerVars>>

ToggleGroup(g) ==
  /\ page \in {"models", "providers"}
  /\ clicks < MaxClicks[page] /\ clicks' = clicks + 1
  /\ expanded' = (expanded \ {g}) \cup ({g} \ expanded)
  /\ UNCHANGED <<page, requests, listVars, enabledOnly, composerVars>>

FilterEnabled ==
  /\ page = "models"
  /\ clicks < MaxClicks[page] /\ clicks' = clicks + 1
  /\ enabledOnly' = ~enabledOnly
  /\ UNCHANGED <<page, requests, listVars, expanded, composerVars>>

-----------------------------------------------------------------------------
(* The trees of tree-view.js, as sets of rows: labels and their order are  *)
(* layout.                                                                 *)

GroupRow(p, depth, items, open) ==
  [type |-> "group", path |-> p, depth |-> depth, items |-> {}, count |-> Cardinality(items),
   enabledCount |-> Cardinality({r \in items : list[r]}), expanded |-> open]

LeafRow(r, depth) ==
  [type |-> "leaf", path |-> PathOf[r], depth |-> depth, items |-> {r}, count |-> 1,
   enabledCount |-> (IF list[r] THEN 1 ELSE 0), expanded |-> FALSE]

\* Mutant: an item whose path is the group's own is missed.
UnderProper(items, p) == {r \in items : IsStrictPrefix(p, PathOf[r])}

\* insertModelNode, computeModelCounts: what lies at a node and below it.
Under(items, p) == {r \in items : IsPrefix(p, PathOf[r])}

FilteredModels == {r \in DOMAIN list : ~enabledOnly \/ list[r]}

\* appendModelGroup and appendModelChildren: a group of two or more is a row of its own, and
\* what lies in it is shown when it is open.
ModelTreeRows ==
  LET singles == {r \in FilteredModels : Len(PathOf[r]) = 1}
      items   == FilteredModels \ singles
      paths   == UNION {{SubSeq(PathOf[r], 1, n) : n \in 1 .. Len(PathOf[r])} : r \in items}
      rows[p \in paths] ==
        LET open     == enabledOnly \/ p \in expanded
            children == {SubSeq(PathOf[r], 1, Len(p) + 1) : r \in UnderProper(items, p)}
            leaves(S) == {LeafRow(r, Len(p)) : r \in S}
            below(q) == IF Cardinality(Under(items, q)) >= 2 THEN rows[q] ELSE leaves(Under(items, q))
        IN  {GroupRow(p, Len(p) - 1, Under(items, p), open)}
            \cup IF open THEN leaves({r \in items : PathOf[r] = p}) \cup UNION {below(q) : q \in children}
                 ELSE {}
  IN  {LeafRow(r, 0) : r \in singles} \cup UNION {rows[<<PathOf[r][1]>>] : r \in items}

\* Providers are grouped by the first segment of a path of two or more.
ProviderTreeRows ==
  LET items   == DOMAIN list
      grouped == {r \in items : Len(PathOf[r]) >= 2}
      group(g) ==
        LET leaves == Under(grouped, g)
            open   == g \in expanded
        IN  {GroupRow(g, 0, leaves, open)}
            \cup IF open THEN {LeafRow(r, 1) : r \in leaves} ELSE {}
  IN  {LeafRow(r, 0) : r \in items \ grouped}
      \cup UNION {group(<<PathOf[r][1]>>) : r \in grouped}

-----------------------------------------------------------------------------
(* The composer of a provider's middleware pipeline.                       *)

\* GET providers/:id/middlewares, ordered by sortOrder: the i-th has i bindings
\* up to itself.
BindingsOf(p) ==
  LET own     == {b \in bindings : b.provider = p}
      upTo(b) == {a \in own : a.order < b.order \/ (a.order = b.order /\ a.id <= b.id)}
  IN  [i \in 1 .. Cardinality(own) |-> CHOOSE b \in own : Cardinality(upTo(b)) = i]

Item(b) == [id |-> b.id, middleware |-> b.middleware]
Pipeline(bs) == [i \in DOMAIN bs |-> Item(bs[i])]
MiddlewaresOf(items) == [i \in DOMAIN items |-> items[i].middleware]

ComposerRequest(kind, p) == [kind |-> kind, state |-> "sent", provider |-> p, answer |-> <<>>,
                  left |-> <<>>, at |-> 0]

\* The requests of a save, and the one of a composer being opened.
SaveSteps == {"patch", "current", "delete", "upsert"}
Steps   == SaveSteps \cup {"open"}
Saving  == \E c \in BagToSet(requests) : c.kind \in SaveSteps
Opening == \E c \in BagToSet(requests) : c.kind = "open"

Compose(next) ==
  /\ next
  /\ UNCHANGED <<page, listVars, treeVars>>

\* A save that something else of the composer's state meets is disturbed: its
\* steps read the pipeline as it is by then.
Disturb == composed' = IF Saving THEN Null ELSE composed

OpenComposer(p) ==
  /\ ~composer.shown
  /\ Act("composer")
  /\ Compose(
       /\ composer' = [provider |-> p, pipeline |-> <<>>, shown |-> FALSE]
       /\ Send(ComposerRequest("open", p))
       /\ Disturb
       /\ UNCHANGED <<bindings, stored>>)

\* The answer becomes the pipeline, whichever provider is selected by now.
TakeOpened(c) ==
  /\ c.kind = "open" /\ c.state = "answered"
  /\ Compose(
       /\ composer' = [composer EXCEPT !.pipeline = Pipeline(c.answer), !.shown = TRUE]
       /\ requests' = Ended(c)
       /\ Disturb
       /\ UNCHANGED <<clicks, bindings, stored>>)

CloseComposer ==
  /\ composer.shown
  /\ Act("composer")
  /\ Compose(
       /\ composer' = [composer EXCEPT !.shown = FALSE]
       /\ UNCHANGED <<requests, bindings, composed, stored>>)

Edit(items) ==
  /\ composer.shown
  /\ Act("composer")
  /\ Compose(
       /\ composer' = [composer EXCEPT !.pipeline = items]
       /\ Disturb
       /\ UNCHANGED <<requests, bindings, stored>>)

AddMiddleware(m) == Edit(Append(composer.pipeline, [id |-> Null, middleware |-> m]))

RemoveMiddleware == \E i \in DOMAIN composer.pipeline : Edit(RemoveAt(composer.pipeline, i))

MoveMiddleware ==
  \E i \in 2 .. Len(composer.pipeline) :
    LET l == composer.pipeline IN Edit([l EXCEPT ![i - 1] = l[i], ![i] = l[i - 1]])

\* An overlapping method has left the composer with a binding of another
\* provider than it will save, or with one that is stored no more.
Mixed ==
  \E i \in DOMAIN composer.pipeline :
    /\ composer.pipeline[i].id # Null
    /\ \A b \in bindings : b.id = composer.pipeline[i].id => b.provider # composer.provider

\* The composer offers a middleware that is in the pipeline already; the table
\* takes one binding of a provider to it, and refuses the second.
Doubled ==
  \E i, j \in DOMAIN composer.pipeline :
    i # j /\ composer.pipeline[i].middleware = composer.pipeline[j].middleware

\* saveComposer: the provider's backend is patched first.
SaveComposer ==
  /\ composer.shown /\ composer.provider # Null
  /\ Act("composer")
  /\ Compose(
       /\ Send(ComposerRequest("patch", composer.provider))
       /\ composed' = IF Saving \/ Opening \/ Mixed \/ Doubled THEN Null
                      ELSE [provider |-> composer.provider,
                            middlewares |-> MiddlewaresOf(composer.pipeline)]
       /\ stored' = FALSE
       /\ UNCHANGED <<bindings, composer>>)

Kept(b) == \E i \in DOMAIN composer.pipeline : composer.pipeline[i].id = b.id

\* Mutant: a binding that stays keeps its number.
NumberKept(b, n) == b

\* The bindings that stay are numbered by their place in the pipeline.
Renumbered(b, n) == [b EXCEPT !.order = n]

\* The next request of a save: of the bindings not looked at yet the first that
\* is no longer in the pipeline is deleted, then the items are patched or posted
\* one by one; after the last the composer closes and the page lists again.
GoOn(c, left, at) ==
  LET gone  == {i \in DOMAIN left : ~Kept(left[i])}
      items == composer.pipeline
  IN  IF gone # {}
      THEN /\ requests' = Then(c, [ComposerRequest("delete", c.provider) EXCEPT
                                    !.left = SubSeq(left, Min(gone), Len(left))])
           /\ UNCHANGED <<composer, stored>>
      ELSE IF at < Len(items)
      THEN /\ requests' = Then(c, [ComposerRequest("upsert", c.provider) EXCEPT
                                    !.at = at + 1, !.answer = <<items[at + 1]>>])
           /\ UNCHANGED <<composer, stored>>
      ELSE /\ requests' = Then(c, GetList(NoWrite))
           /\ composer' = [composer EXCEPT !.shown = FALSE, !.provider = Null]
           /\ stored' = TRUE

TakeStep(c) ==
  /\ c.kind \in SaveSteps /\ c.state = "answered"
  /\ Compose(
       /\ CASE c.kind = "patch"   -> /\ requests' = Then(c, ComposerRequest("current", c.provider))
                                     /\ UNCHANGED <<composer, stored>>
            [] c.kind = "current" -> GoOn(c, c.answer, 0)
            [] c.kind = "delete"  -> GoOn(c, Tail(c.left), 0)
            [] c.kind = "upsert"  -> GoOn(c, <<>>, c.at)
       /\ UNCHANGED <<clicks, bindings, composed>>)

IdsOf(items) == {items[i].id : i \in DOMAIN items}

\* Ids are random: one that anybody still knows is not given again.
Remembered ==
  {b.id : b \in bindings} \cup IdsOf(composer.pipeline)
  \cup UNION {IdsOf(c.answer) \cup IdsOf(c.left) : c \in {d \in BagToSet(requests) : d.kind \in Steps}}

\* The unique index on provider and middleware lets a binding in, or refuses it.
Bind(p, m, n) ==
  IF \E b \in bindings : b.provider = p /\ b.middleware = m
  THEN UNCHANGED bindings
  ELSE \E id \in Bindings \ Remembered :
         bindings' = bindings \cup {[id |-> id, provider |-> p, middleware |-> m, order |-> n]}

Renumber(id, n) ==
  bindings' = {IF b.id = id THEN Renumbered(b, n) ELSE b : b \in bindings}

\* The gateway's routes: a binding is found by its id alone.
ServeStep(c) ==
  /\ c.kind \in Steps /\ c.state = "sent"
  /\ Compose(
       /\ CASE c.kind = "delete" -> bindings' = {b \in bindings : b.id # Head(c.left).id}
            [] c.kind = "upsert" /\ c.answer[1].id # Null -> Renumber(c.answer[1].id, c.at)
            [] c.kind = "upsert" /\ c.answer[1].id = Null ->
                 Bind(c.provider, c.answer[1].middleware, c.at)
            [] OTHER -> UNCHANGED bindings
       /\ requests' = Then(c, [c EXCEPT !.state = "answered",
                               !.answer = IF c.kind \in {"open", "current"}
                                          THEN BindingsOf(c.provider) ELSE @])
       /\ UNCHANGED <<clicks, composer, composed, stored>>)

\* A middleware that is registered no more, a row that is gone, a failing table:
\* the answer is an error, which the composer reads as an empty list or not at all.
RefuseStep(c) ==
  /\ c.kind \in Steps /\ c.state = "sent"
  /\ Compose(
       /\ composed' = IF c.kind \in {"open", "patch"} THEN composed ELSE Null
       /\ requests' = Then(c, [c EXCEPT !.state = "answered"])
       /\ UNCHANGED <<clicks, bindings, composer, stored>>)

-----------------------------------------------------------------------------
\* Alpine calls init by itself and again for x-init: two lists are asked for.
AdminInit ==
  /\ clicks = 0
  /\ table = InitialTable
  /\ list = <<>> /\ listFailed = FALSE
  /\ writes = 0
  /\ listWrites = NoWrite /\ shownWrites = NoWrite /\ missed = NoWrite
  /\ requests = [c \in {GetList(0)} |-> 2]
  /\ editing = Null /\ expanded = {} /\ enabledOnly = FALSE
  /\ bindings = InitialBindings
  /\ composer = [provider |-> Null, pipeline |-> <<>>, shown |-> FALSE]
  /\ composed = Null /\ stored = FALSE

ProviderPage ==
  \/ ListProviders \/ NewProvider \/ CreateProvider \/ SyncModels
  \/ \E v \in BOOLEAN : SaveProvider(v)
  \/ \E r \in Rows : EditProvider(r) \/ RemoveProvider(r)

ModelPage ==
  \/ ListModels \/ NewModel \/ CreateNewModel \/ FilterEnabled
  \/ \E v \in BOOLEAN : SaveModel(v)
  \/ \E r \in Rows : EditModel(r) \/ ToggleModel(r) \/ ToggleFree(r) \/ DeleteModel(r)

TierPage ==
  \/ ListTiers \/ NewTier
  \/ \E v \in BOOLEAN : SaveTier(v)
  \/ \E r \in Rows : EditTier(r) \/ RemoveTier(r) \/ ToggleTier(r)

KeyPage ==
  \/ ListKeys \/ NewKey \/ SubmitCreateKey
  \/ \E v \in BOOLEAN : SaveKey(v)
  \/ \E r \in Rows : EditKey(r) \/ RevokeKey(r) \/ ResetBudget(r)

RulePage ==
  \/ ListRules \/ NewRule
  \/ \E v \in BOOLEAN : SaveRule(v)
  \/ \E r \in Rows : EditRule(r) \/ ToggleRule(r) \/ RemoveRule(r)

MiddlewarePage == ListMiddlewares \/ Rescan

ComposerPage ==
  \/ \E p \in Providers : OpenComposer(p)
  \/ \E m \in Middlewares : AddMiddleware(m)
  \/ RemoveMiddleware \/ MoveMiddleware \/ SaveComposer \/ CloseComposer

Served(c) == ServeWrite(c) \/ FinishWrite(c) \/ ServeList(c) \/ ServeStep(c) \/ RefuseStep(c)
Answered(c) == TakeWrite(c) \/ TakeList(c) \/ TakeOpened(c) \/ TakeStep(c) \/ MintUserKey(c)

AdminNext ==
  \/ ProviderPage \/ ModelPage \/ TierPage \/ KeyPage \/ RulePage \/ MiddlewarePage
  \/ ComposerPage
  \/ \E g \in Groups : ToggleGroup(g)
  \/ \E c \in BagToSet(requests) : Served(c) \/ Answered(c) \/ Lose(c)

-----------------------------------------------------------------------------
(* Properties                                                              *)

\* However the methods of a page overlap, and whatever the gateway refuses or fails
\* with half done, the list is what the gateway holds once nothing is under way: each
\* change of a row is followed by a list asked for later.  What the code does not
\* exclude: a list request fails and leaves the page empty; of two answers the older
\* arrives last; a method ends without its list, because its answer was lost or it
\* stops at an error that came after the change.  The next list that arrives in order
\* makes up for each of them.
ListIsCurrent ==
  requests = EmptyBag /\ ~listFailed /\ listWrites >= missed /\ listWrites = shownWrites =>
    list = table

\* Every model or provider of the list is accounted for in its tree, as a row or
\* in the counts of one collapsed group, whatever is expanded or filtered.
AccountsFor(rows, items) ==
  LET shown == {w \in rows : w.type = "leaf" \/ ~w.expanded}
  IN  /\ MapThenSumSet(LAMBDA w : w.count, shown) = Cardinality(items)
      /\ MapThenSumSet(LAMBDA w : w.enabledCount, shown) = Cardinality({r \in items : list[r]})
      /\ \A v, w \in rows : v.type = "leaf" /\ w.type = "leaf" /\ v.items = w.items => v = w

TreesAccountForAll ==
  /\ page = "models" => AccountsFor(ModelTreeRows, FilteredModels)
  /\ page = "providers" => AccountsFor(ProviderTreeRows, DOMAIN list)

\* A save of the composer that nothing disturbs or refuses, of bindings the
\* provider has and no middleware twice, leaves it with the pipeline composed, in
\* its order, however bindings were added, removed and moved before.
ComposedIsStored ==
  (stored /\ composed # Null)
    => MiddlewaresOf(Pipeline(BindingsOf(composed.provider))) = composed.middlewares
=============================================================================
