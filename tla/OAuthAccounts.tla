---------------------------- MODULE OAuthAccounts ----------------------------
(***************************************************************************)
(* The life of one OAuth account of a provider: requests lease its token,  *)
(* requests and the background job refresh it, an operator authorizes it   *)
(* anew, deletes it or resets it, and the process may crash (providers/    *)
(* credential-manager.mjs, oauth-manager.mjs, account-pool.mjs,            *)
(* oauth/credential-store.mjs, db/dao/provider-accounts-dao.mjs,           *)
(* background/scheduler.mjs).                                              *)
(*                                                                         *)
(* The account is known to the provider under one external id, so every    *)
(* row it ever has shares one credential file.  A token stands for the     *)
(* access and refresh tokens of one answer; the provider is of the strict  *)
(* kind that takes a refresh token once and answers with its successor.    *)
(***************************************************************************)
EXTENDS Integers

CONSTANTS
  Requests,     \* requests that lease the account
  Scheduler,    \* the job token-refresh
  Ids,          \* rows the account may have, one live at a time
  Grants,       \* authorizations an operator may give
  NoOne,        \* no caller
  NoId,         \* no row
  NoToken,      \* no token
  MaxSerial,    \* tokens the provider gives for one grant
  MaxCrashes    \* bound on crashes

Callers == Requests \cup {Scheduler}
Tokens == [grant : Grants, serial : 1 .. MaxSerial]

ASSUME AccountAssumption ==
  /\ Ids # {} /\ Grants # {}
  /\ Scheduler \notin Requests /\ NoOne \notin Callers
  /\ NoId \notin Ids /\ NoToken \notin Tokens
  /\ MaxSerial \in Nat \ {0} /\ MaxCrashes \in Nat

VARIABLES
  rows,         \* provider_accounts: status, and the token whose expiry the row has
  file,         \* the token in the credential file
  latest,       \* the provider's side: the serial it takes next, 0 before the grant
  lost,         \* grants whose newest token never reached the gateway or its disk
  expired,      \* tokens that are inside their refresh margin
  flow,         \* completeAuthFlow, one flow for each grant
  inflight,     \* _inflightRefreshes: the caller that runs the refresh of a row
  caller,       \* getCredentials or the job, with what it has read
  crashes

vars == <<rows, file, latest, lost, expired, flow, inflight, caller, crashes>>

Refreshing == {"marking", "finding", "reading", "calling", "storing", "updating",
               "activating", "erroring"}
At(pc, i) == [pc |-> pc, id |-> i, sent |-> NoToken, got |-> NoToken, awaited |-> NoToken]
Idle == At("idle", NoId)

RowStates ==
  [status : {"absent"}, expiry : {NoToken}] \cup
  [status : {"active", "refreshing", "reauth_required", "deleted"}, expiry : Tokens]

TypeOK ==
  /\ rows \in [Ids -> RowStates]
  /\ file \in Tokens
  /\ latest \in [Grants -> 0 .. MaxSerial]
  /\ lost \subseteq Grants
  /\ expired \subseteq Tokens
  /\ flow \in [Grants -> {"open", "storing", "upserting", "closed"}]
  /\ inflight \in [Ids -> Callers \cup {NoOne}]
  /\ caller \in [Callers -> [pc : {"idle", "resolving", "joining", "leasing", "leased"} \cup Refreshing,
                             id : Ids \cup {NoId}, sent : Tokens \cup {NoToken},
                             got : Tokens \cup {NoToken}, awaited : Tokens \cup {NoToken}]]
  /\ \A i \in Ids : inflight[i] # NoOne => caller[inflight[i]].pc \in Refreshing
  /\ crashes \in 0 .. MaxCrashes

FirstToken(g) == [grant |-> g, serial |-> 1]

\* An account that was authorized once.
Init ==
  LET g == CHOOSE h \in Grants : TRUE
      i == CHOOSE j \in Ids : TRUE
  IN
  /\ rows = [j \in Ids |-> IF j = i THEN [status |-> "active", expiry |-> FirstToken(g)]
                                    ELSE [status |-> "absent", expiry |-> NoToken]]
  /\ file = FirstToken(g)
  /\ latest = [h \in Grants |-> IF h = g THEN 1 ELSE 0]
  /\ flow = [h \in Grants |-> IF h = g THEN "closed" ELSE "open"]
  /\ lost = {} /\ expired = {}
  /\ inflight = [j \in Ids |-> NoOne]
  /\ caller = [c \in Callers |-> Idle]
  /\ crashes = 0
-----------------------------------------------------------------------------
(* The row. *)

Live(i) == rows[i].status \notin {"absent", "deleted"}

\* UPDATE provider_accounts SET ... WHERE id = $1 AND deleted_at IS NULL
WithStatus(i, status) ==
  IF Live(i) THEN [rows EXCEPT ![i] = [status |-> status, expiry |-> rows[i].expiry]] ELSE rows

\* Mutant: the refresh writes its row without looking at deleted_at.
WithTokensUnguarded(i, token) == [rows EXCEPT ![i] = [status |-> "active", expiry |-> token]]

WithTokens(i, token) ==
  IF Live(i) THEN [rows EXCEPT ![i] = [status |-> "active", expiry |-> token]] ELSE rows

\* getNextAccount's filter; an account that is being refreshed may be leased.
Eligible(i) == rows[i].status \in {"active", "refreshing"}

\* needsRefresh
NeedsRefresh(i) == rows[i].expiry \in expired

\* listExpiringOAuth
Expiring(i) == rows[i].status \in {"active", "refreshing"} /\ NeedsRefresh(i)

\* Time passes: the token whose expiry a row holds comes into its refresh margin.
Expire ==
  \E i \in Ids :
    /\ Live(i)
    /\ rows[i].expiry \notin expired
    /\ expired' = expired \cup {rows[i].expiry}
    /\ UNCHANGED <<rows, file, latest, lost, flow, inflight, caller, crashes>>
-----------------------------------------------------------------------------
(* Leasing: getCredentials. *)

Become(c, state) == caller' = [caller EXCEPT ![c] = state]

Goto(c, pc) ==
  Become(c, [pc |-> pc, id |-> caller[c].id, sent |-> caller[c].sent,
             got |-> caller[c].got, awaited |-> caller[c].awaited])

\* The row is read now; whether it is refreshed is decided by what it said.
PickAccount(r) ==
  /\ caller[r].pc = "idle"
  /\ \E i \in Ids :
       /\ Eligible(i)
       /\ Become(r, IF NeedsRefresh(i) THEN At("resolving", i) ELSE At("leasing", NoId))
  /\ UNCHANGED <<rows, file, latest, lost, expired, flow, inflight, crashes>>

\* _readOAuthPayload and the lease.
Lease(r) ==
  /\ caller[r].pc = "leasing"
  /\ Become(r, [pc |-> "leased", id |-> NoId, sent |-> NoToken, got |-> file,
                awaited |-> caller[r].awaited])
  /\ UNCHANGED <<rows, file, latest, lost, expired, flow, inflight, crashes>>

ReleaseLease(r) ==
  /\ caller[r].pc = "leased"
  /\ Become(r, Idle)
  /\ UNCHANGED <<rows, file, latest, lost, expired, flow, inflight, crashes>>

\* The job reads its list; of this account at most one row is on it.
ListExpiring ==
  /\ caller[Scheduler].pc = "idle"
  /\ \E i \in Ids :
       /\ Expiring(i)
       /\ Become(Scheduler, At("resolving", i))
  /\ UNCHANGED <<rows, file, latest, lost, expired, flow, inflight, crashes>>
-----------------------------------------------------------------------------
(* Refreshing: refreshTokens and _doRefresh. *)

\* Where a caller goes on after refreshTokens; a request leases in any case.
Continued(c, token) ==
  IF c = Scheduler THEN Idle
  ELSE [pc |-> "leasing", id |-> NoId, sent |-> NoToken, got |-> NoToken, awaited |-> token]

\* The promise of c's refresh settles: for c and for everyone who awaits it.
Settled(c, token) ==
  [d \in Callers |->
     IF d = c \/ (caller[d].pc = "joining" /\ caller[d].id = caller[c].id)
     THEN Continued(d, token) ELSE caller[d]]

Settle(c, token) ==
  /\ caller' = Settled(c, token)
  /\ inflight' = [inflight EXCEPT ![caller[c].id] = NoOne]

\* Mutant: an operation under way is taken as done instead of awaited.
StartRefreshWithoutWaiting(c) ==
  /\ caller[c].pc = "resolving"
  /\ IF inflight[caller[c].id] = NoOne
     THEN /\ inflight' = [inflight EXCEPT ![caller[c].id] = c]
          /\ Goto(c, "marking")
     ELSE /\ Become(c, Continued(c, caller[inflight[caller[c].id]].got))
          /\ UNCHANGED inflight
  /\ UNCHANGED <<rows, file, latest, lost, expired, flow, crashes>>

\* After the await of the adapter key, or of the list: join or lead.
StartRefresh(c) ==
  /\ caller[c].pc = "resolving"
  /\ IF inflight[caller[c].id] = NoOne
     THEN /\ inflight' = [inflight EXCEPT ![caller[c].id] = c]
          /\ Goto(c, "marking")
     ELSE /\ Goto(c, "joining")
          /\ UNCHANGED inflight
  /\ UNCHANGED <<rows, file, latest, lost, expired, flow, crashes>>

MarkRefreshing(c) ==
  /\ caller[c].pc = "marking"
  /\ rows' = WithStatus(caller[c].id, "refreshing")
  /\ Goto(c, "finding")
  /\ UNCHANGED <<file, latest, lost, expired, flow, inflight, crashes>>

\* Mutant: a refresh whose row is gone leaves its entry behind.
FindAccountKeepingEntry(c) ==
  /\ caller[c].pc = "finding"
  /\ IF Live(caller[c].id)
     THEN Goto(c, "reading") /\ UNCHANGED inflight
     ELSE Become(c, Continued(c, NoToken)) /\ UNCHANGED inflight
  /\ UNCHANGED <<rows, file, latest, lost, expired, flow, crashes>>

\* A row deleted meanwhile makes the refresh throw before its try block.
FindAccount(c) ==
  /\ caller[c].pc = "finding"
  /\ IF Live(caller[c].id)
     THEN Goto(c, "reading") /\ UNCHANGED inflight
     ELSE Settle(c, NoToken)
  /\ UNCHANGED <<rows, file, latest, lost, expired, flow, crashes>>

ReadCredentials(c) ==
  /\ caller[c].pc = "reading"
  /\ Become(c, [pc |-> "calling", id |-> caller[c].id, sent |-> file, got |-> NoToken,
                awaited |-> NoToken])
  /\ UNCHANGED <<rows, file, latest, lost, expired, flow, inflight, crashes>>

\* The provider takes the newest token of a grant, once, up to the bound MaxSerial.
Taken(t) == t.serial = latest[t.grant] /\ t.serial < MaxSerial

Successor(t) == [grant |-> t.grant, serial |-> t.serial + 1]

ProviderRefreshes(c) ==
  LET t == caller[c].sent IN
  /\ caller[c].pc = "calling"
  /\ Taken(t)
  /\ latest' = [latest EXCEPT ![t.grant] = t.serial + 1]
  /\ Become(c, [pc |-> "storing", id |-> caller[c].id, sent |-> t, got |-> Successor(t),
                awaited |-> NoToken])
  /\ UNCHANGED <<rows, file, lost, expired, flow, inflight, crashes>>

\* The provider refuses or cannot be reached.
ProviderRefuses(c) ==
  /\ caller[c].pc = "calling"
  /\ Goto(c, "erroring")
  /\ UNCHANGED <<rows, file, latest, lost, expired, flow, inflight, crashes>>

\* The provider has given a new token but its answer does not arrive.
AnswerLost(c) ==
  LET t == caller[c].sent IN
  /\ caller[c].pc = "calling"
  /\ Taken(t)
  /\ latest' = [latest EXCEPT ![t.grant] = t.serial + 1]
  /\ lost' = lost \cup {t.grant}
  /\ Goto(c, "erroring")
  /\ UNCHANGED <<rows, file, expired, flow, inflight, crashes>>

\* Mutant: the refresh token that was stored wins over the one just received.
StoreCredentialsOld(c) ==
  /\ caller[c].pc = "storing"
  /\ file' = caller[c].sent
  /\ Goto(c, "updating")
  /\ UNCHANGED <<rows, latest, lost, expired, flow, inflight, crashes>>

StoreCredentials(c) ==
  /\ caller[c].pc = "storing"
  /\ file' = caller[c].got
  /\ Goto(c, "updating")
  /\ UNCHANGED <<rows, latest, lost, expired, flow, inflight, crashes>>

UpdateRow(c) ==
  /\ caller[c].pc = "updating"
  /\ rows' = WithTokens(caller[c].id, caller[c].got)
  /\ Goto(c, "activating")
  /\ UNCHANGED <<file, latest, lost, expired, flow, inflight, crashes>>

\* markActive writes status and expiry once more and ends the refresh.
MarkActive(c) ==
  /\ caller[c].pc = "activating"
  /\ rows' = WithTokens(caller[c].id, caller[c].got)
  /\ Settle(c, caller[c].got)
  /\ UNCHANGED <<file, latest, lost, expired, flow, crashes>>

MarkErrored(c) ==
  /\ caller[c].pc = "erroring"
  /\ rows' = WithStatus(caller[c].id, "reauth_required")
  /\ Settle(c, NoToken)
  /\ UNCHANGED <<file, latest, lost, expired, flow, crashes>>
-----------------------------------------------------------------------------
(* The operator: completeAuthFlow, the deletion, the reset. *)

\* The adapter has exchanged the code.
GrantGiven(g) ==
  /\ flow[g] = "open"
  /\ flow' = [flow EXCEPT ![g] = "storing"]
  /\ latest' = [latest EXCEPT ![g] = 1]
  /\ UNCHANGED <<rows, file, lost, expired, inflight, caller, crashes>>

StoreGrant(g) ==
  /\ flow[g] = "storing"
  /\ file' = FirstToken(g)
  /\ flow' = [flow EXCEPT ![g] = "upserting"]
  /\ UNCHANGED <<rows, latest, lost, expired, inflight, caller, crashes>>

\* upsertOAuth: the live row of the external account, or a new one.
UpsertAccount(g) ==
  LET row == [status |-> "active", expiry |-> FirstToken(g)] IN
  /\ flow[g] = "upserting"
  /\ \E i \in Ids :
       /\ Live(i) \/ (rows[i].status = "absent" /\ ~ \E j \in Ids : Live(j))
       /\ rows' = [rows EXCEPT ![i] = row]
  /\ flow' = [flow EXCEPT ![g] = "closed"]
  /\ UNCHANGED <<file, latest, lost, expired, inflight, caller, crashes>>

\* handleDeleteAccount; the last of Ids is not deleted (bound).
DeleteAccount(i) ==
  /\ Live(i)
  /\ \E j \in Ids : rows[j].status = "absent"
  /\ rows' = WithStatus(i, "deleted")
  /\ UNCHANGED <<file, latest, lost, expired, flow, inflight, caller, crashes>>

\* handleResetAccountQuota makes any live row active.
ResetQuota(i) ==
  /\ Live(i) /\ rows[i].status # "active"
  /\ rows' = WithStatus(i, "active")
  /\ UNCHANGED <<file, latest, lost, expired, flow, inflight, caller, crashes>>

\* A restart finds the rows and the file; a token not yet written is gone.
Crash ==
  /\ crashes < MaxCrashes
  /\ crashes' = crashes + 1
  /\ lost' = lost \cup {caller[c].got.grant : c \in {d \in Callers : caller[d].pc = "storing"}}
  /\ caller' = [c \in Callers |-> Idle]
  /\ inflight' = [i \in Ids |-> NoOne]
  /\ flow' = [g \in Grants |-> IF flow[g] = "open" THEN "open" ELSE "closed"]
  /\ UNCHANGED <<rows, file, latest, expired>>
-----------------------------------------------------------------------------
RefreshStep(c) ==
  \/ StartRefresh(c) \/ MarkRefreshing(c) \/ FindAccount(c) \/ ReadCredentials(c)
  \/ ProviderRefreshes(c) \/ ProviderRefuses(c) \/ AnswerLost(c)
  \/ StoreCredentials(c) \/ UpdateRow(c) \/ MarkActive(c) \/ MarkErrored(c)

Next ==
  \/ \E r \in Requests : PickAccount(r) \/ Lease(r) \/ ReleaseLease(r)
  \/ \E c \in Callers : RefreshStep(c)
  \/ ListExpiring
  \/ \E g \in Grants : GrantGiven(g) \/ StoreGrant(g) \/ UpsertAccount(g)
  \/ \E i \in Ids : DeleteAccount(i) \/ ResetQuota(i)
  \/ Expire
  \/ Crash

Spec == Init /\ [][Next]_vars

\* Statements and file operations complete, the provider answers or the fetch
\* fails, the job's timer keeps firing, time passes.
FairSpec ==
  /\ Spec
  /\ \A c \in Callers : WF_vars(RefreshStep(c))
  /\ \A r \in Requests : WF_vars(Lease(r))
  /\ WF_vars(ListExpiring)
  /\ WF_vars(Expire)
-----------------------------------------------------------------------------
(* Properties. *)

\* A refresh token is never at the provider twice at once on behalf of one
\* row, whoever found the row due and however old what it had read was: a
\* provider that takes a token once would refuse the second and the account
\* would be marked for authorization although its token is good.
OneRefreshPerAccount ==
  \A c, d \in Callers :
    /\ caller[c].pc \in Refreshing /\ caller[d].pc \in Refreshing
    /\ caller[c].id = caller[d].id
    => c = d

\* Whatever refreshes, authorizations and deletions overlap, the credential
\* file keeps a token that the provider still takes, unless the newest token
\* is on its way to the file or was lost on its way from the provider.
TokenNeverStranded ==
  \/ file.serial = latest[file.grant]
  \/ file.grant \in lost
  \/ \E c \in Callers : /\ caller[c].pc = "storing"
                        /\ caller[c].got = [grant |-> file.grant, serial |-> latest[file.grant]]

\* A request that waited for a refresh that succeeded, its own or another's, leases
\* what that refresh obtained, something newer or another authorization, never the
\* token that was refreshed.
RefreshedLeaseIsNew ==
  \A r \in Requests :
    /\ caller[r].pc = "leased" /\ caller[r].awaited # NoToken
    /\ caller[r].got.grant = caller[r].awaited.grant
    => caller[r].got.serial >= caller[r].awaited.serial

\* Nothing that was under way when an account was deleted brings it back.
DeletedStaysDeleted ==
  [][\A i \in Ids : rows[i].status = "deleted" => rows'[i].status = "deleted"]_vars

\* A request that asks for credentials gets its lease, or the process crashed.
CredentialsArrive ==
  \A r \in Requests : caller[r].pc = "resolving" ~> caller[r].pc \in {"leased", "idle"}
=============================================================================
