---------------------------- MODULE SearchAgent ----------------------------
(***************************************************************************)
(* The search agent: every search is a process that reads the settings     *)
(* file and the providers' secrets and asks one provider, several at once  *)
(* (deep-research), or the browser pool (google-ai-mode); the settings page *)
(* writes the file through another process and the secrets through the     *)
(* DPU agent.                                                              *)
(***************************************************************************)
EXTENDS BrowserPool

CONSTANTS
  Providers,     \* the API search providers, numbered in their configured order
  SecretOf,      \* [Providers -> the secret a provider uses, or None]
  Needs,         \* the providers that require their secret
  Pages,         \* [Providers -> the sequences of URLs a provider may answer]
  Deep, Google,  \* the providers deep-research and google-ai-mode
  Secrets, None,
  Limits,        \* the values of the setting maxResults
  MaxWrites,     \* bound: versions of the settings file and of a secret
  MaxClears

VARIABLES
  scene,         \* "pool", "search" or "settings", see the README
  file,          \* what the settings file holds: a limit, or Missing
  writers,       \* the update-settings processes, each with its limit and step
  search,        \* [Requests -> the state of a search]
  stored,        \* the secrets the DPU agent has for the user
  granted,       \* those the search agent may read
  form,          \* the settings page
  saves, clears

fileVars   == <<file, writers>>
secretVars == <<stored, granted>>
pageVars   == <<form, saves, clears>>
agentVars  == <<scene, fileVars, search, secretVars, pageVars>>
vars       == <<poolVars, agentVars>>

Missing == 0

Models == Providers \cup {Deep, Google}

Agent(next) == UNCHANGED <<scene, poolVars>> /\ next

-----------------------------------------------------------------------------
(* The settings file.                                                      *)

DefaultLimit == Max(Limits)

\* readSettings: no file means the defaults.
Setting == IF file = Missing THEN DefaultLimit ELSE file

\* writeSettings writes a temporary file of its own process, then renames it
\* over the settings; the process may die before or between.
Writer(limit, step) == [limit |-> limit, step |-> step]

WriteFile(w) == Agent(
  /\ w \in writers /\ w.step = "start"
  /\ writers' = (writers \ {w}) \cup {Writer(w.limit, "temp")}
  /\ UNCHANGED <<file, search, secretVars, pageVars>>)

RenameFile(w) == Agent(
  /\ w \in writers /\ w.step = "temp"
  /\ file' = w.limit
  /\ writers' = (writers \ {w}) \cup {Writer(w.limit, "done")}
  /\ UNCHANGED <<search, secretVars, pageVars>>)

WriterDies(w) == Agent(
  /\ w \in writers /\ w.step \in {"start", "temp"}
  /\ writers' = (writers \ {w}) \cup {Writer(w.limit, "dead")}
  /\ UNCHANGED <<file, search, secretVars, pageVars>>)

-----------------------------------------------------------------------------
(* A search: tools/search.mjs, called as an MCP tool or for a completion.  *)

Set(r, q) == search' = [search EXCEPT ![r] = q]

\* The tool's answer is also the content of a completion, which says "stop" when
\* the search failed or was refused, too.
Answer(q, ok, results) == [q EXCEPT !.pc = "over", !.ok = ok, !.results = results]

Refuse(r) == Set(r, Answer(search[r], FALSE, <<>>))

\* handleSearch up to the secrets: unreadable settings, an unknown provider and
\* a query that is empty or too long are refused.
Ask(r, p) == Agent(
  /\ search[r].pc = "idle"
  /\ IF scene = "pool" THEN p = Google
     ELSE scene = "search" /\ p # Google /\ \A o \in Requests : search[o].pc = "idle"
  /\ \/ Refuse(r)
     \/ Set(r, [search[r] EXCEPT !.pc = "secrets", !.provider = p, !.limit = Setting])
  /\ UNCHANGED <<fileVars, secretVars, pageVars>>)

SecretsOf(p) == IF p = Deep THEN {SecretOf[x] : x \in Providers} \ {None}
                ELSE IF p = Google THEN {} ELSE {SecretOf[p]} \ {None}

\* readDpuSecret: the secrets are read at the same time and settle in any
\* order; one that is refused or fails counts as not configured.
LoadSecret(r, k) == Agent(
  /\ search[r].pc = "secrets" /\ k \in SecretsOf(search[r].provider) \ search[r].read
  /\ \E got \in BOOLEAN :
       /\ got => k \in stored \cap granted
       /\ Set(r, [search[r] EXCEPT !.read = @ \cup {k}, !.env = IF got THEN @ \cup {k} ELSE @])
  /\ UNCHANGED <<fileVars, secretVars, pageVars>>)

Configured(p, env) == p \notin Needs \/ SecretOf[p] \in env

Selected(q) == IF q.provider = Deep THEN {p \in Providers : Configured(p, q.env)}
               ELSE {q.provider} \cap {p \in Providers : Configured(p, q.env)}

\* provider.search up to its request: without its secrets a provider refuses.
CallProviders(r) == Agent(
  /\ search[r].pc = "secrets" /\ search[r].read = SecretsOf(search[r].provider)
  /\ search[r].provider # Google
  /\ IF Selected(search[r]) = {}
     THEN Refuse(r)
     ELSE Set(r, [search[r] EXCEPT !.pc = "calling", !.pending = Selected(search[r])])
  /\ UNCHANGED <<fileVars, secretVars, pageVars>>)

\* normalizeResults: every URL once, in the order they come, up to the limit.
Normalized(urls, limit) ==
  FoldLeft(LAMBDA out, u : IF u \in ToSet(out) \/ Len(out) >= limit THEN out ELSE Append(out, u),
           <<>>, urls)

\* Each of deep-research's providers is asked for five results at most.
PerProvider(q) == IF q.provider = Deep THEN Min({5, q.limit}) ELSE q.limit

ProviderAnswers(r, p) == Agent(
  /\ search[r].pc = "calling" /\ p \in search[r].pending
  /\ \E urls \in Pages[p] :
       Set(r, [search[r] EXCEPT !.pending = @ \ {p},
                                !.got = @ \cup {[provider |-> p,
                                                 urls |-> Normalized(urls, PerProvider(search[r]))]}])
  /\ UNCHANGED <<fileVars, secretVars, pageVars>>)

ProviderFails(r, p) == Agent(
  /\ search[r].pc = "calling" /\ p \in search[r].pending
  /\ Set(r, [search[r] EXCEPT !.pending = @ \ {p}])
  /\ UNCHANGED <<fileVars, secretVars, pageVars>>)

\* The providers' results in their configured order, whoever answered first.
Collected(q) ==
  LET order == SetToSortSeq(q.got, LAMBDA a, b : a.provider < b.provider)
  IN  FlattenSeq([i \in DOMAIN order |-> order[i].urls])

\* Promise.allSettled: deep-research answers with what there is, even when that
\* is nothing because every provider failed; a single provider's failure is
\* the search's.
Succeeds(q) == q.provider = Deep \/ q.got # {}

Finish(r) == Agent(
  /\ search[r].pc = "calling" /\ search[r].pending = {}
  /\ Set(r, IF Succeeds(search[r])
            THEN Answer(search[r], TRUE, Normalized(Collected(search[r]), search[r].limit))
            ELSE Answer(search[r], FALSE, <<>>))
  /\ UNCHANGED <<fileVars, secretVars, pageVars>>)

\* google-ai-mode: the pool's process is asked, and its answer awaited; when it
\* does not run the provider is not configured.
AskPool(r) ==
  /\ search[r].pc = "secrets" /\ search[r].provider = Google
  /\ \/ /\ Acquire(r)
        /\ Set(r, [search[r] EXCEPT !.pc = "polling"])
     \/ /\ ~alive
        /\ Refuse(r)
        /\ UNCHANGED poolVars
  /\ UNCHANGED <<scene, fileVars, secretVars, pageVars>>

PoolAnswers(r) == Agent(
  /\ search[r].pc = "polling" /\ req[r].answered
  /\ Set(r, Answer(search[r], req[r].ok, <<>>))
  /\ UNCHANGED <<fileVars, secretVars, pageVars>>)

\* postJson's own timeout: the pool goes on without its client.
PoolTimeout(r) == Agent(
  /\ search[r].pc = "polling"
  /\ Refuse(r)
  /\ UNCHANGED <<fileVars, secretVars, pageVars>>)

-----------------------------------------------------------------------------
(* The settings page of the IDE plugin.                                    *)

Page(next) == Agent(scene = "settings" /\ next /\ UNCHANGED search)

ReloadSettings == Page(
  /\ form.pc = "idle"
  /\ \/ form' = [form EXCEPT !.limit = Setting, !.status = ""]
     \/ form' = [form EXCEPT !.status = "error"]
  /\ UNCHANGED <<fileVars, secretVars, saves, clears>>)

\* The inputs stay open to the operator while a save is under way.
TypeSecret(k) == Page(
  /\ k \notin form.typed
  /\ form' = [form EXCEPT !.typed = @ \cup {k}]
  /\ UNCHANGED <<fileVars, secretVars, saves, clears>>)

SaveSettings(limit) == Page(
  /\ form.pc = "idle" /\ saves < MaxWrites
  /\ saves' = saves + 1
  /\ writers' = {w \in writers : w.step \notin {"done", "dead"}} \cup {Writer(limit, "start")}
  /\ form' = [form EXCEPT !.pc = "settings", !.limit = limit, !.status = "saving",
                          !.cleared = FALSE, !.asked = {}]
  /\ UNCHANGED <<file, secretVars, clears>>)

Fail == form' = [form EXCEPT !.pc = "idle", !.status = "error"]

\* The tool has answered: the secrets typed by now are the changes to save.
SettingsSaved == Page(
  /\ form.pc = "settings"
  /\ \/ /\ Writer(form.limit, "done") \in writers
        /\ form' = [form EXCEPT !.pc = "secrets", !.changes = form.typed, !.asked = form.typed]
     \/ /\ Writer(form.limit, "dead") \in writers
        /\ Fail
  /\ UNCHANGED <<fileVars, secretVars, saves, clears>>)

\* dpu_secret_put, then dpu_secret_grant, each of which may fail.
PutSecret == Page(
  /\ form.pc = "secrets" /\ form.changes # {}
  /\ \/ \E k \in form.changes :
          /\ stored' = stored \cup {k}
          /\ form' = [form EXCEPT !.pc = "grant", !.changes = @ \ {k}, !.key = k]
     \/ Fail /\ UNCHANGED stored
  /\ UNCHANGED <<fileVars, granted, saves, clears>>)

\* A grant only for secrets that were not there before.
GrantsNew(k) == granted' = IF k \in form.known THEN granted ELSE granted \cup {k}

Grants(k) == granted' = granted \cup {k}

GrantSecret == Page(
  /\ form.pc = "grant"
  /\ \/ /\ Grants(form.key)
        /\ form' = [form EXCEPT !.pc = "secrets", !.key = None]
     \/ Fail /\ UNCHANGED granted
  /\ UNCHANGED <<fileVars, stored, saves, clears>>)

\* Every input is emptied, those filled since the changes were collected too;
\* then the hints are read again and the page says "Saved.".
Saved == Page(
  /\ form.pc = "secrets" /\ form.changes = {}
  /\ \E status \in {"saved", "error"} :
       form' = [form EXCEPT !.pc = "idle", !.typed = {}, !.known = stored, !.status = status]
  /\ UNCHANGED <<fileVars, secretVars, saves, clears>>)

\* clearSecret: the button is there while a save is under way.
ClearSecret(k) == Page(
  /\ clears < MaxClears
  /\ clears' = clears + 1
  /\ \/ /\ stored' = stored \ {k}
        /\ granted' = granted \ {k}
        /\ form' = [form EXCEPT !.typed = @ \ {k}, !.known = @ \ {k}, !.status = "cleared",
                                !.cleared = TRUE]
     \/ /\ form' = [form EXCEPT !.status = "error"]
        /\ UNCHANGED secretVars
  /\ UNCHANGED <<fileVars, saves>>)

-----------------------------------------------------------------------------
Init ==
  /\ scene \in {"pool", "search", "settings"}
  /\ PoolInit
  /\ file \in IF scene = "pool" THEN {Missing} ELSE {Missing} \cup Limits
  /\ writers = {}
  /\ search = [r \in Requests |-> [pc |-> "idle", provider |-> None, limit |-> 0, read |-> {},
                                   env |-> {}, pending |-> {}, got |-> {}, ok |-> FALSE,
                                   results |-> <<>>]]
  /\ stored \in IF scene = "pool" THEN {{}} ELSE SUBSET Secrets
  /\ granted \in IF scene = "search" THEN SUBSET Secrets ELSE {{}}
  /\ form = [pc |-> "idle", limit |-> DefaultLimit, typed |-> {}, changes |-> {}, asked |-> {},
             key |-> None, known |-> stored, cleared |-> FALSE, status |-> ""]
  /\ saves = 0 /\ clears = 0

SearchStep(r) ==
  \/ \E k \in Secrets : LoadSecret(r, k)
  \/ CallProviders(r) \/ Finish(r) \/ AskPool(r) \/ PoolAnswers(r)
  \/ \E p \in Providers : ProviderAnswers(r, p) \/ ProviderFails(r, p)

Next ==
  \/ \E r \in Requests : SearchStep(r) \/ PoolTimeout(r) \/ \E p \in Models : Ask(r, p)
  \/ \E w \in writers : WriteFile(w) \/ RenameFile(w) \/ WriterDies(w)
  \/ scene = "pool" /\ PoolNext /\ UNCHANGED agentVars
  \/ ReloadSettings \/ SettingsSaved \/ PutSecret \/ GrantSecret \/ Saved
  \/ \E k \in Secrets : TypeSecret(k) \/ ClearSecret(k)
  \/ \E l \in Limits : SaveSettings(l)

\* Providers, browsers and timers answer; operators and crashes owe nothing.
Fairness ==
  /\ WF_vars(\E r \in Requests : SearchStep(r))
  /\ WF_vars(\E r \in Requests : (PoolStep(r) \/ GiveUp(r)) /\ UNCHANGED agentVars)

Spec == Init /\ [][Next]_vars /\ Fairness

-----------------------------------------------------------------------------
(* Properties                                                              *)

\* When the page says "Saved." the agent can read every secret that was typed
\* when it collected them, unless one was cleared meanwhile.
SavedIsReadable ==
  (form.status = "saved" /\ ~form.cleared) => form.asked \subseteq stored \cap granted

\* Every search that began ends with an answer, although its settings, secrets
\* and providers fail, slots are lost, browsers die, contexts fail and the pool
\* shuts down under it.
SearchSettles == []<>(\A r \in Requests : search[r].pc \in {"idle", "over"})
=============================================================================
