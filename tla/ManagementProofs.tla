-------------------------- MODULE ManagementProofs --------------------------
(***************************************************************************)
(* What the operator manages: the accounts at the providers and the pages  *)
(* of the dashboard.                                                       *)
(*                                                                         *)
(* Accounts: for every number of requests, rows, authorizations, tokens    *)
(* and crashes, a row is refreshed by one caller at a time, the credential *)
(* file never loses the token the provider takes next, who waited for a    *)
(* refresh leases its result, and a deleted row stays deleted.  The first  *)
(* part follows control (who refreshes which row), the second follows      *)
(* tokens.  Its core is NewestOnItsWay: while a caller carries the newest  *)
(* token of a grant to the file, nobody else can have one that the         *)
(* provider would take.                                                    *)
(*                                                                         *)
(* Pages: for every table, every set of log rows and any number of         *)
(* requests under way, a list is what the gateway holds once nothing is,   *)
(* a save of the composer stores the pipeline as it was composed, and the  *)
(* rows of the log page are rows of the key selected.                      *)
(***************************************************************************)
EXTENDS OAuthAccounts, Dashboard, FiniteSetTheorems, SequenceTheorems, TLAPS

Pcs == {"idle", "resolving", "joining", "leasing", "leased"} \cup Refreshing

States == [pc : Pcs, id : Ids \cup {NoId}, sent : Tokens \cup {NoToken},
           got : Tokens \cup {NoToken}, awaited : Tokens \cup {NoToken}]

\* The map of refreshes under way and the callers that run them agree.
RefreshIsLed ==
  /\ \A c \in Callers : caller[c].pc \in Refreshing =>
       caller[c].id \in Ids /\ inflight[caller[c].id] = c
  /\ \A i \in Ids : inflight[i] # NoOne =>
       caller[inflight[i]].pc \in Refreshing /\ caller[inflight[i]].id = i

\* What a caller has at hand at each place.
HasItsData ==
  \A c \in Callers :
    /\ caller[c].pc \in {"resolving", "joining"} => caller[c].id \in Ids
    /\ caller[c].pc = "calling" => caller[c].sent \in Tokens
    /\ caller[c].pc \in {"storing", "updating", "activating", "leased"} => caller[c].got \in Tokens

Control == TypeOK /\ RefreshIsLed /\ HasItsData
-----------------------------------------------------------------------------
\* What a token is made of.
LEMMA TokenFacts ==
  ASSUME NEW t \in Tokens
  PROVE  /\ t.grant \in Grants
         /\ t.serial \in Nat /\ t.serial >= 1
         /\ t = [grant |-> t.grant, serial |-> t.serial]
         /\ t # NoToken
BY AccountAssumption DEF Tokens

\* The first token of a grant is a token.
LEMMA FirstTokenFacts ==
  ASSUME NEW g \in Grants
  PROVE  FirstToken(g) \in Tokens /\ FirstToken(g).grant = g /\ FirstToken(g).serial = 1
BY AccountAssumption DEF FirstToken, Tokens

\* What the provider answers is the next token of the same grant.
LEMMA SuccessorFacts ==
  ASSUME NEW t \in Tokens, t.serial < MaxSerial
  PROVE  /\ Successor(t) \in Tokens
         /\ Successor(t).grant = t.grant
         /\ Successor(t).serial = t.serial + 1
BY AccountAssumption DEF Successor, Tokens

\* Requests and the job are callers, NoOne is none.
LEMMA CallerFacts ==
  /\ Scheduler \in Callers
  /\ Requests \subseteq Callers
  /\ NoOne \notin Callers
BY AccountAssumption DEF Callers

\* The type of the callers, as the lemmas below use it.
LEMMA CallersTyped == TypeOK => caller \in [Callers -> States]
BY DEF TypeOK, States, Pcs

\* The fields of a caller.
LEMMA StateFacts ==
  ASSUME NEW s \in States
  PROVE  /\ s.pc \in Pcs /\ s.id \in Ids \cup {NoId}
         /\ s.sent \in Tokens \cup {NoToken} /\ s.got \in Tokens \cup {NoToken}
         /\ s.awaited \in Tokens \cup {NoToken}
BY DEF States

\* What Become does.
LEMMA BecomeFacts ==
  ASSUME TypeOK, NEW c \in Callers, NEW s \in States, Become(c, s)
  PROVE  /\ caller' \in [Callers -> States]
         /\ caller'[c] = s
         /\ \A d \in Callers : d # c => caller'[d] = caller[d]
BY CallersTyped DEF Become

\* What Goto does: it changes the place and nothing else.
LEMMA GotoFacts ==
  ASSUME TypeOK, NEW c \in Callers, NEW pc \in Pcs, Goto(c, pc)
  PROVE  /\ caller' \in [Callers -> States]
         /\ caller'[c] = [pc |-> pc, id |-> caller[c].id, sent |-> caller[c].sent,
                          got |-> caller[c].got, awaited |-> caller[c].awaited]
         /\ \A d \in Callers : d # c => caller'[d] = caller[d]
<1>1. caller[c] \in States
  BY CallersTyped
<1>2. [pc |-> pc, id |-> caller[c].id, sent |-> caller[c].sent,
       got |-> caller[c].got, awaited |-> caller[c].awaited] \in States
  BY <1>1, StateFacts DEF States
<1>. QED  BY <1>2, BecomeFacts DEF Goto

\* What Settle does: the leader and those who joined it are let go.
LEMMA SettleFacts ==
  ASSUME TypeOK, NEW c \in Callers, NEW t \in Tokens \cup {NoToken}, Settle(c, t)
  PROVE  /\ caller' \in [Callers -> States]
         /\ \A d \in Callers :
              \/ caller'[d] = Idle
              \/ caller'[d] = [pc |-> "leasing", id |-> NoId, sent |-> NoToken,
                               got |-> NoToken, awaited |-> t]
              \/ caller'[d] = caller[d] /\ d # c
         /\ \A d \in Callers : caller'[d] # caller[d] => d = c \/ caller[d].pc = "joining"
<1>1. caller' = Settled(c, t)
  BY DEF Settle
<1>2. Idle \in States
  BY DEF Idle, At, States, Pcs
<1>3. [pc |-> "leasing", id |-> NoId, sent |-> NoToken, got |-> NoToken, awaited |-> t] \in States
  BY DEF States, Pcs
<1>4. \A d \in Callers : Continued(d, t) \in States
  BY <1>2, <1>3 DEF Continued
<1>5. caller' \in [Callers -> States]
  BY <1>1, <1>4, CallersTyped DEF Settled
<1>6. \A d \in Callers : \/ caller'[d] = Continued(d, t) /\ (d = c \/ caller[d].pc = "joining")
                         \/ caller'[d] = caller[d] /\ d # c
  BY <1>1 DEF Settled
<1>7. \A d \in Callers : \/ Continued(d, t) = Idle
                         \/ Continued(d, t) = [pc |-> "leasing", id |-> NoId, sent |-> NoToken,
                                               got |-> NoToken, awaited |-> t]
  BY DEF Continued
<1>. HIDE DEF Idle
<1>8. \A d \in Callers :
        \/ caller'[d] = Idle
        \/ caller'[d] = [pc |-> "leasing", id |-> NoId, sent |-> NoToken,
                         got |-> NoToken, awaited |-> t]
        \/ caller'[d] = caller[d] /\ d # c
  BY <1>6, <1>7
<1>9. \A d \in Callers : caller'[d] # caller[d] => d = c \/ caller[d].pc = "joining"
  BY <1>6
<1>. QED  BY <1>5, <1>8, <1>9
-----------------------------------------------------------------------------
(* Control. *)

\* TypeOK without the caller and the map of refreshes.
WorldTypeOK ==
  /\ rows \in [Ids -> RowStates]
  /\ file \in Tokens
  /\ latest \in [Grants -> 0 .. MaxSerial]
  /\ lost \subseteq Grants
  /\ expired \subseteq Tokens
  /\ flow \in [Grants -> {"open", "storing", "upserting", "closed"}]
  /\ crashes \in 0 .. MaxCrashes

\* TypeOK is the type of the world, of the callers and of the map of refreshes.
LEMMA TypeSplit ==
  /\ TypeOK => /\ WorldTypeOK
               /\ caller \in [Callers -> States]
               /\ inflight \in [Ids -> Callers \cup {NoOne}]
  /\ /\ WorldTypeOK
     /\ caller \in [Callers -> States]
     /\ inflight \in [Ids -> Callers \cup {NoOne}]
     /\ RefreshIsLed
     => TypeOK
BY DEF TypeOK, WorldTypeOK, States, Pcs, RowStates, RefreshIsLed

\* What the UPDATE statements write has the type of a row.
LEMMA RowFacts ==
  ASSUME WorldTypeOK, NEW i \in Ids
  PROVE  /\ Live(i) => rows[i].expiry \in Tokens
         /\ \A s \in {"active", "refreshing", "reauth_required", "deleted"} :
              WithStatus(i, s) \in [Ids -> RowStates]
         /\ \A t \in Tokens : WithTokens(i, t) \in [Ids -> RowStates]
BY DEF WorldTypeOK, WithStatus, WithTokens, RowStates, Live

\* A caller outside a refresh stays outside.
LEMMA OutsideRefresh ==
  ASSUME Control, NEW c \in Callers, NEW s \in States, Become(c, s), UNCHANGED inflight,
         caller[c].pc \notin Refreshing, s.pc \notin Refreshing
  PROVE  /\ caller' \in [Callers -> States]
         /\ inflight' \in [Ids -> Callers \cup {NoOne}]
         /\ RefreshIsLed'
<1>1. /\ caller' \in [Callers -> States] /\ caller'[c] = s
      /\ \A d \in Callers : d # c => caller'[d] = caller[d]
  BY BecomeFacts DEF Control
<1>2. inflight' \in [Ids -> Callers \cup {NoOne}]
  BY TypeSplit DEF Control
<1>3. \A i \in Ids : inflight[i] # c
  BY CallerFacts DEF Control, RefreshIsLed
<1>4. \A d \in Callers : caller'[d].pc \in Refreshing =>
        caller'[d].id \in Ids /\ inflight'[caller'[d].id] = d
  BY <1>1 DEF Control, RefreshIsLed
<1>5. \A i \in Ids : inflight'[i] # NoOne =>
        caller'[inflight'[i]].pc \in Refreshing /\ caller'[inflight'[i]].id = i
  BY <1>1, <1>2, <1>3 DEF Control, RefreshIsLed
<1>. QED  BY <1>1, <1>2, <1>4, <1>5 DEF RefreshIsLed

\* A caller inside a refresh goes on with the same row.
LEMMA InsideRefresh ==
  ASSUME Control, NEW c \in Callers, NEW s \in States, Become(c, s), UNCHANGED inflight,
         caller[c].pc \in Refreshing, s.pc \in Refreshing, s.id = caller[c].id
  PROVE  /\ caller' \in [Callers -> States]
         /\ inflight' \in [Ids -> Callers \cup {NoOne}]
         /\ RefreshIsLed'
<1>1. /\ caller' \in [Callers -> States] /\ caller'[c] = s
      /\ \A d \in Callers : d # c => caller'[d] = caller[d]
  BY BecomeFacts DEF Control
<1>2. inflight' \in [Ids -> Callers \cup {NoOne}]
  BY TypeSplit DEF Control
<1>3. \A d \in Callers : caller'[d].pc \in Refreshing =>
        caller'[d].id \in Ids /\ inflight'[caller'[d].id] = d
  BY <1>1 DEF Control, RefreshIsLed
<1>4. \A i \in Ids : inflight'[i] # NoOne =>
        caller'[inflight'[i]].pc \in Refreshing /\ caller'[inflight'[i]].id = i
  BY <1>1, <1>2 DEF Control, RefreshIsLed
<1>. QED  BY <1>1, <1>2, <1>3, <1>4 DEF RefreshIsLed

\* A refresh that settles leaves the map and everyone who waited for it.
LEMMA SettleLeaves ==
  ASSUME Control, NEW c \in Callers, NEW t \in Tokens \cup {NoToken}, Settle(c, t),
         caller[c].pc \in Refreshing
  PROVE  /\ caller' \in [Callers -> States]
         /\ inflight' \in [Ids -> Callers \cup {NoOne}]
         /\ RefreshIsLed'
         /\ HasItsData'
<1>1. TypeOK /\ caller[c].id \in Ids /\ inflight[caller[c].id] = c
  BY DEF Control, RefreshIsLed
<1>2. /\ caller' \in [Callers -> States]
      /\ \A d \in Callers :
           \/ caller'[d] = Idle
           \/ caller'[d] = [pc |-> "leasing", id |-> NoId, sent |-> NoToken,
                            got |-> NoToken, awaited |-> t]
           \/ caller'[d] = caller[d] /\ d # c
      /\ \A d \in Callers : caller'[d] # caller[d] => d = c \/ caller[d].pc = "joining"
  BY <1>1, SettleFacts
<1>3. inflight \in [Ids -> Callers \cup {NoOne}]
  BY <1>1, TypeSplit
<1>4. inflight' = [inflight EXCEPT ![caller[c].id] = NoOne]
  BY DEF Settle
<1>5. inflight' \in [Ids -> Callers \cup {NoOne}]
  BY <1>3, <1>4
<1>6. \A d \in Callers : caller'[d].pc \notin {"idle", "leasing"} => caller'[d] = caller[d] /\ d # c
  <2>1. Idle.pc = "idle"
    BY DEF Idle, At
  <2>. QED  BY <1>2, <2>1
<1>7. \A d \in Callers : caller'[d].pc \in Refreshing =>
        caller'[d].id \in Ids /\ inflight'[caller'[d].id] = d
  <2>. SUFFICES ASSUME NEW d \in Callers, caller'[d].pc \in Refreshing
                PROVE  caller'[d].id \in Ids /\ inflight'[caller'[d].id] = d
    OBVIOUS
  <2>1. caller'[d] = caller[d] /\ d # c
    BY <1>6 DEF Refreshing
  <2>2. caller[d].id \in Ids /\ inflight[caller[d].id] = d
    BY <2>1 DEF Control, RefreshIsLed
  <2>. QED  BY <1>1, <1>3, <1>4, <2>1, <2>2
<1>8. \A i \in Ids : inflight'[i] # NoOne =>
        caller'[inflight'[i]].pc \in Refreshing /\ caller'[inflight'[i]].id = i
  <2>. SUFFICES ASSUME NEW i \in Ids, inflight'[i] # NoOne
                PROVE  caller'[inflight'[i]].pc \in Refreshing /\ caller'[inflight'[i]].id = i
    OBVIOUS
  <2>1. i # caller[c].id /\ inflight'[i] = inflight[i] /\ inflight[i] \in Callers
    BY <1>1, <1>3, <1>4
  <2>2. caller[inflight[i]].pc \in Refreshing /\ caller[inflight[i]].id = i
    BY <2>1 DEF Control, RefreshIsLed
  <2>3. caller'[inflight[i]] = caller[inflight[i]]
    <3>1. inflight[i] # c /\ caller[inflight[i]].pc # "joining"
      BY <2>1, <2>2 DEF Refreshing
    <3>. QED  BY <1>2, <2>1, <3>1
  <2>. QED  BY <2>1, <2>2, <2>3
<1>9. HasItsData'
  BY <1>6 DEF Control, HasItsData
<1>. QED  BY <1>2, <1>5, <1>7, <1>8, <1>9 DEF RefreshIsLed
\* The parts of Control a step has to restore.
LEMMA ControlFromParts ==
  /\ WorldTypeOK'
  /\ caller' \in [Callers -> States]
  /\ inflight' \in [Ids -> Callers \cup {NoOne}]
  /\ RefreshIsLed'
  /\ HasItsData'
  => Control'
BY DEF Control, TypeOK, WorldTypeOK, States, Pcs, RowStates, RefreshIsLed

\* At the start nobody refreshes anything.
LEMMA ControlInit == Init => Control
<1>. SUFFICES ASSUME Init PROVE Control
  OBVIOUS
<1>1. PICK g \in Grants, i \in Ids :
        /\ rows = [j \in Ids |-> IF j = i THEN [status |-> "active", expiry |-> FirstToken(g)]
                                         ELSE [status |-> "absent", expiry |-> NoToken]]
        /\ file = FirstToken(g)
        /\ latest = [h \in Grants |-> IF h = g THEN 1 ELSE 0]
        /\ flow = [h \in Grants |-> IF h = g THEN "closed" ELSE "open"]
  BY AccountAssumption DEF Init
<1>2. lost = {} /\ expired = {} /\ crashes = 0
      /\ inflight = [j \in Ids |-> NoOne] /\ caller = [c \in Callers |-> Idle]
  BY DEF Init
<1>3. WorldTypeOK
  BY <1>1, <1>2, FirstTokenFacts, AccountAssumption DEF WorldTypeOK, RowStates
<1>4. Idle \in States /\ Idle.pc = "idle"
  BY DEF Idle, At, States, Pcs
<1>5. caller \in [Callers -> States] /\ inflight \in [Ids -> Callers \cup {NoOne}]
  BY <1>2, <1>4
<1>6. RefreshIsLed /\ HasItsData
  <2>. HIDE DEF Idle
  <2>. QED  BY <1>2, <1>4 DEF RefreshIsLed, HasItsData, Refreshing
<1>. QED  BY <1>3, <1>5, <1>6, TypeSplit DEF Control

\* Steps of the world and of the operator leave the callers alone.
LEMMA ControlWorld ==
  ASSUME Control,
         \/ Expire
         \/ \E g \in Grants : GrantGiven(g) \/ StoreGrant(g) \/ UpsertAccount(g)
         \/ \E i \in Ids : DeleteAccount(i) \/ ResetQuota(i)
  PROVE  Control'
<1>1. UNCHANGED <<caller, inflight>>
  BY DEF Expire, GrantGiven, StoreGrant, UpsertAccount, DeleteAccount, ResetQuota
<1>2. /\ caller' \in [Callers -> States]
      /\ inflight' \in [Ids -> Callers \cup {NoOne}]
      /\ RefreshIsLed' /\ HasItsData'
  BY <1>1, TypeSplit DEF Control, RefreshIsLed, HasItsData
<1>3. WorldTypeOK
  BY TypeSplit DEF Control
<1>4. WorldTypeOK'
  <2>1. CASE Expire
    <3>1. PICK i \in Ids : Live(i) /\ expired' = expired \cup {rows[i].expiry}
      BY <2>1 DEF Expire
    <3>2. rows[i].expiry \in Tokens
      BY <1>3, <3>1, RowFacts
    <3>. QED  BY <1>3, <2>1, <3>1, <3>2 DEF WorldTypeOK, Expire
  <2>2. ASSUME NEW g \in Grants, GrantGiven(g) PROVE WorldTypeOK'
    BY <1>3, <2>2, AccountAssumption DEF WorldTypeOK, GrantGiven
  <2>3. ASSUME NEW g \in Grants, StoreGrant(g) PROVE WorldTypeOK'
    BY <1>3, <2>3, FirstTokenFacts DEF WorldTypeOK, StoreGrant
  <2>4. ASSUME NEW g \in Grants, UpsertAccount(g) PROVE WorldTypeOK'
    <3>1. PICK i \in Ids :
            rows' = [rows EXCEPT ![i] = [status |-> "active", expiry |-> FirstToken(g)]]
      BY <2>4 DEF UpsertAccount
    <3>2. rows' \in [Ids -> RowStates]
      BY <1>3, <3>1, FirstTokenFacts DEF WorldTypeOK, RowStates
    <3>. QED  BY <1>3, <2>4, <3>2 DEF WorldTypeOK, UpsertAccount
  <2>5. ASSUME NEW i \in Ids, DeleteAccount(i) \/ ResetQuota(i) PROVE WorldTypeOK'
    BY <1>3, <2>5, RowFacts DEF WorldTypeOK, DeleteAccount, ResetQuota
  <2>. QED  BY <2>1, <2>2, <2>3, <2>4, <2>5
<1>. QED  BY <1>2, <1>4, ControlFromParts

\* What a caller must have for the place it goes to.
Equipped(s) ==
  /\ s.pc \in {"resolving", "joining"} => s.id \in Ids
  /\ s.pc = "calling" => s.sent \in Tokens
  /\ s.pc \in {"storing", "updating", "activating", "leased"} => s.got \in Tokens

\* A caller that is equipped for the place it goes to keeps HasItsData.
LEMMA DataAfter ==
  ASSUME Control, NEW c \in Callers, NEW s \in States, Become(c, s), Equipped(s)
  PROVE  HasItsData'
<1>1. /\ caller'[c] = s
      /\ \A d \in Callers : d # c => caller'[d] = caller[d]
  BY BecomeFacts DEF Control
<1>. QED  BY <1>1 DEF Control, HasItsData, Equipped

\* A step of one caller that leaves the map of refreshes alone.
LEMMA ControlOneCaller ==
  ASSUME Control, NEW c \in Callers, NEW s \in States, Become(c, s), UNCHANGED inflight,
         Equipped(s), WorldTypeOK',
         \/ caller[c].pc \notin Refreshing /\ s.pc \notin Refreshing
         \/ caller[c].pc \in Refreshing /\ s.pc \in Refreshing /\ s.id = caller[c].id
  PROVE  Control'
<1>1. HasItsData'
  BY DataAfter
<1>2. /\ caller' \in [Callers -> States]
      /\ inflight' \in [Ids -> Callers \cup {NoOne}]
      /\ RefreshIsLed'
  BY OutsideRefresh, InsideRefresh
<1>. QED  BY <1>1, <1>2, ControlFromParts

\* Steps that leave the world alone keep its type.
LEMMA WorldUnchanged ==
  ASSUME Control, UNCHANGED <<rows, file, latest, lost, expired, flow, crashes>>
  PROVE  WorldTypeOK'
BY TypeSplit DEF Control, WorldTypeOK

\* The steps of requests and of the job outside a refresh.
LEMMA ControlLeasing ==
  ASSUME Control,
         \/ \E r \in Requests : PickAccount(r) \/ Lease(r) \/ ReleaseLease(r)
         \/ ListExpiring
  PROVE  Control'
<1>1. WorldTypeOK'
  BY WorldUnchanged DEF PickAccount, Lease, ReleaseLease, ListExpiring
<1>2. \A i \in Ids : At("resolving", i) \in States /\ At("resolving", i).pc = "resolving"
                     /\ At("resolving", i).id = i
  BY DEF At, States, Pcs
<1>3. At("leasing", NoId) \in States /\ At("leasing", NoId).pc = "leasing"
  BY DEF At, States, Pcs
<1>4. Idle \in States /\ Idle.pc = "idle"
  BY DEF Idle, At, States, Pcs
<1>5. ASSUME NEW r \in Requests, PickAccount(r) PROVE Control'
  <2>1. r \in Callers /\ caller[r].pc = "idle" /\ UNCHANGED inflight
    BY <1>5, CallerFacts DEF PickAccount
  <2>2. PICK i \in Ids :
          Become(r, IF NeedsRefresh(i) THEN At("resolving", i) ELSE At("leasing", NoId))
    BY <1>5 DEF PickAccount
  <2>3. CASE NeedsRefresh(i)
    <3>1. Become(r, At("resolving", i)) /\ Equipped(At("resolving", i))
      BY <1>2, <2>2, <2>3 DEF Equipped
    <3>. QED  BY <1>1, <1>2, <2>1, <3>1, ControlOneCaller DEF Refreshing
  <2>4. CASE ~ NeedsRefresh(i)
    <3>1. Become(r, At("leasing", NoId)) /\ Equipped(At("leasing", NoId))
      BY <1>3, <2>2, <2>4 DEF Equipped
    <3>. QED  BY <1>1, <1>3, <2>1, <3>1, ControlOneCaller DEF Refreshing
  <2>. QED  BY <2>3, <2>4
<1>6. ASSUME NEW r \in Requests, Lease(r) PROVE Control'
  <2>1. r \in Callers /\ caller[r].pc = "leasing" /\ UNCHANGED inflight
    BY <1>6, CallerFacts DEF Lease
  <2>2. PICK s : s = [pc |-> "leased", id |-> NoId, sent |-> NoToken, got |-> file,
                      awaited |-> caller[r].awaited]
    OBVIOUS
  <2>3. file \in Tokens /\ caller[r] \in States
    BY <2>1, TypeSplit, CallersTyped DEF Control, WorldTypeOK
  <2>4. s \in States
    BY <2>2, <2>3, StateFacts DEF States, Pcs
  <2>5. Become(r, s) /\ Equipped(s) /\ s.pc = "leased"
    BY <1>6, <2>2, <2>3 DEF Lease, Equipped
  <2>. QED  BY <1>1, <2>1, <2>4, <2>5, ControlOneCaller DEF Refreshing
<1>7. ASSUME NEW r \in Requests, ReleaseLease(r) PROVE Control'
  <2>1. r \in Callers /\ caller[r].pc = "leased" /\ UNCHANGED inflight /\ Become(r, Idle)
    BY <1>7, CallerFacts DEF ReleaseLease
  <2>2. Equipped(Idle)
    BY <1>4 DEF Equipped
  <2>. QED  BY <1>1, <1>4, <2>1, <2>2, ControlOneCaller DEF Refreshing
<1>8. CASE ListExpiring
  <2>1. caller[Scheduler].pc = "idle" /\ UNCHANGED inflight
    BY <1>8 DEF ListExpiring
  <2>2. PICK i \in Ids : Become(Scheduler, At("resolving", i))
    BY <1>8 DEF ListExpiring
  <2>3. Equipped(At("resolving", i))
    BY <1>2 DEF Equipped
  <2>. QED  BY <1>1, <1>2, <2>1, <2>2, <2>3, CallerFacts, ControlOneCaller DEF Refreshing
<1>. QED  BY <1>5, <1>6, <1>7, <1>8

\* Who finds no refresh of its row under way becomes its leader.
LEMMA ControlStartRefresh ==
  ASSUME Control, NEW c \in Callers, StartRefresh(c)
  PROVE  Control'
<1>. DEFINE i == caller[c].id
<1>1. caller[c].pc = "resolving" /\ i \in Ids /\ caller[c] \in States
  BY CallersTyped DEF Control, HasItsData, StartRefresh
<1>2. WorldTypeOK'
  BY WorldUnchanged DEF StartRefresh
<1>3. CASE inflight[i] = NoOne
  <2>1. inflight' = [inflight EXCEPT ![i] = c] /\ Goto(c, "marking")
    BY <1>3 DEF StartRefresh
  <2>2. /\ caller' \in [Callers -> States]
        /\ caller'[c].pc = "marking" /\ caller'[c].id = i
        /\ \A d \in Callers : d # c => caller'[d] = caller[d]
    <3>1. "marking" \in Pcs
      BY DEF Pcs, Refreshing
    <3>2. /\ caller' \in [Callers -> States]
          /\ caller'[c] = [pc |-> "marking", id |-> caller[c].id, sent |-> caller[c].sent,
                           got |-> caller[c].got, awaited |-> caller[c].awaited]
          /\ \A d \in Callers : d # c => caller'[d] = caller[d]
      BY <2>1, <3>1, GotoFacts DEF Control
    <3>. QED  BY <3>2
  <2>3. inflight \in [Ids -> Callers \cup {NoOne}]
    BY TypeSplit DEF Control
  <2>4. inflight' \in [Ids -> Callers \cup {NoOne}]
    BY <2>1, <2>3
  <2>5. \A d \in Callers : caller'[d].pc \in Refreshing =>
          caller'[d].id \in Ids /\ inflight'[caller'[d].id] = d
    <3>. SUFFICES ASSUME NEW d \in Callers, caller'[d].pc \in Refreshing
                  PROVE  caller'[d].id \in Ids /\ inflight'[caller'[d].id] = d
      OBVIOUS
    <3>1. CASE d = c
      BY <1>1, <2>1, <2>2, <2>3, <3>1
    <3>2. CASE d # c
      <4>1. caller[d].id \in Ids /\ inflight[caller[d].id] = d
        BY <2>2, <3>2 DEF Control, RefreshIsLed
      <4>2. caller[d].id # i
        BY <1>3, <4>1, CallerFacts
      <4>. QED  BY <2>1, <2>2, <2>3, <3>2, <4>1, <4>2
    <3>. QED  BY <3>1, <3>2
  <2>6. \A j \in Ids : inflight'[j] # NoOne =>
          caller'[inflight'[j]].pc \in Refreshing /\ caller'[inflight'[j]].id = j
    <3>. SUFFICES ASSUME NEW j \in Ids, inflight'[j] # NoOne
                  PROVE  caller'[inflight'[j]].pc \in Refreshing /\ caller'[inflight'[j]].id = j
      OBVIOUS
    <3>1. CASE j = i
      <4>1. inflight'[j] = c
        BY <1>1, <2>1, <2>3, <3>1
      <4>. QED  BY <2>2, <3>1, <4>1 DEF Refreshing
    <3>2. CASE j # i
      <4>1. inflight'[j] = inflight[j] /\ inflight[j] \in Callers
        BY <2>1, <2>3, <3>2
      <4>2. caller[inflight[j]].pc \in Refreshing /\ caller[inflight[j]].id = j
        BY <4>1 DEF Control, RefreshIsLed
      <4>. QED  BY <2>2, <3>2, <4>1, <4>2, <1>1 DEF Refreshing
    <3>. QED  BY <3>1, <3>2
  <2>7. HasItsData'
    BY <2>2 DEF Control, HasItsData
  <2>. QED  BY <1>2, <2>2, <2>4, <2>5, <2>6, <2>7, ControlFromParts DEF RefreshIsLed
<1>4. CASE inflight[i] # NoOne
  <2>1. PICK s : s = [pc |-> "joining", id |-> caller[c].id, sent |-> caller[c].sent,
                      got |-> caller[c].got, awaited |-> caller[c].awaited]
    OBVIOUS
  <2>2. Become(c, s) /\ UNCHANGED inflight
    BY <1>4, <2>1 DEF StartRefresh, Goto
  <2>3. s \in States
    BY <1>1, <2>1, StateFacts DEF States, Pcs
  <2>4. Equipped(s)
    BY <1>1, <2>1 DEF Equipped
  <2>. QED  BY <1>1, <1>2, <2>1, <2>2, <2>3, <2>4, ControlOneCaller DEF Refreshing
<1>. QED  BY <1>3, <1>4

\* A step inside a refresh that only changes the place.
LEMMA ControlGoto ==
  ASSUME Control, NEW c \in Callers, NEW pc \in Refreshing, Goto(c, pc), UNCHANGED inflight,
         caller[c].pc \in Refreshing, WorldTypeOK',
         pc = "calling" => caller[c].sent \in Tokens,
         pc \in {"storing", "updating", "activating"} => caller[c].got \in Tokens
  PROVE  Control'
<1>1. PICK s : s = [pc |-> pc, id |-> caller[c].id, sent |-> caller[c].sent,
                    got |-> caller[c].got, awaited |-> caller[c].awaited]
  OBVIOUS
<1>2. caller[c] \in States
  BY CallersTyped DEF Control
<1>3. s \in States
  BY <1>1, <1>2, StateFacts DEF States, Pcs
<1>4. Equipped(s)
  BY <1>1 DEF Equipped, Refreshing
<1>5. Become(c, s)
  BY <1>1 DEF Goto
<1>. QED  BY <1>1, <1>3, <1>4, <1>5, ControlOneCaller

\* The end of a refresh keeps Control.
LEMMA ControlSettle ==
  ASSUME Control, NEW c \in Callers, NEW t \in Tokens \cup {NoToken}, Settle(c, t),
         caller[c].pc \in Refreshing, WorldTypeOK'
  PROVE  Control'
BY SettleLeaves, ControlFromParts

\* The steps of a refresh.
LEMMA ControlRefreshStep ==
  ASSUME Control, NEW c \in Callers, RefreshStep(c)
  PROVE  Control'
<1>1. WorldTypeOK /\ caller[c] \in States
  BY TypeSplit, CallersTyped DEF Control
<1>2. CASE StartRefresh(c)
  BY <1>2, ControlStartRefresh
<1>3. CASE MarkRefreshing(c)
  <2>1. caller[c].pc = "marking" /\ Goto(c, "finding") /\ UNCHANGED inflight
    BY <1>3 DEF MarkRefreshing
  <2>2. caller[c].id \in Ids
    BY <2>1 DEF Control, RefreshIsLed, Refreshing
  <2>3. WorldTypeOK'
    BY <1>1, <1>3, <2>2, RowFacts DEF MarkRefreshing, WorldTypeOK
  <2>. QED  BY <2>1, <2>3, ControlGoto DEF Refreshing
<1>4. CASE FindAccount(c)
  <2>1. caller[c].pc = "finding"
    BY <1>4 DEF FindAccount
  <2>2. WorldTypeOK'
    BY <1>4, WorldUnchanged DEF FindAccount
  <2>3. CASE Goto(c, "reading") /\ UNCHANGED inflight
    BY <2>1, <2>2, <2>3, ControlGoto DEF Refreshing
  <2>4. CASE Settle(c, NoToken)
    BY <2>1, <2>2, <2>4, ControlSettle DEF Refreshing
  <2>. QED  BY <1>4, <2>3, <2>4 DEF FindAccount
<1>5. CASE ReadCredentials(c)
  <2>1. PICK s : s = [pc |-> "calling", id |-> caller[c].id, sent |-> file, got |-> NoToken,
                      awaited |-> NoToken]
    OBVIOUS
  <2>2. caller[c].pc = "reading" /\ Become(c, s) /\ UNCHANGED inflight
    BY <1>5, <2>1 DEF ReadCredentials
  <2>3. WorldTypeOK' /\ file \in Tokens
    BY <1>1, <1>5, WorldUnchanged DEF ReadCredentials, WorldTypeOK
  <2>4. s \in States
    BY <1>1, <2>1, <2>3, StateFacts DEF States, Pcs, Refreshing
  <2>5. Equipped(s)
    BY <2>1, <2>3 DEF Equipped
  <2>. QED  BY <2>1, <2>2, <2>3, <2>4, <2>5, ControlOneCaller DEF Refreshing
<1>6. CASE ProviderRefreshes(c)
  <2>1. /\ caller[c].pc = "calling" /\ Taken(caller[c].sent) /\ UNCHANGED inflight
        /\ latest' = [latest EXCEPT ![caller[c].sent.grant] = caller[c].sent.serial + 1]
    BY <1>6 DEF ProviderRefreshes
  <2>2. PICK t \in Tokens : t = caller[c].sent
    BY <2>1 DEF Control, HasItsData
  <2>3. t.serial < MaxSerial
    BY <2>1, <2>2 DEF Taken
  <2>4. PICK s : s = [pc |-> "storing", id |-> caller[c].id, sent |-> t, got |-> Successor(t),
                      awaited |-> NoToken]
    OBVIOUS
  <2>5. Become(c, s)
    BY <1>6, <2>2, <2>4 DEF ProviderRefreshes
  <2>6. latest' \in [Grants -> 0 .. MaxSerial]
    <3>1. t.serial + 1 \in 0 .. MaxSerial
      BY <2>3, TokenFacts, AccountAssumption
    <3>. QED  BY <1>1, <2>1, <2>2, <3>1 DEF WorldTypeOK
  <2>7. WorldTypeOK'
    BY <1>1, <1>6, <2>6 DEF ProviderRefreshes, WorldTypeOK
  <2>8. s \in States
    BY <1>1, <2>3, <2>4, SuccessorFacts, StateFacts DEF States, Pcs, Refreshing
  <2>9. Equipped(s)
    BY <2>3, <2>4, SuccessorFacts DEF Equipped
  <2>. QED  BY <2>1, <2>4, <2>5, <2>7, <2>8, <2>9, ControlOneCaller DEF Refreshing
<1>7. CASE ProviderRefuses(c)
  <2>1. WorldTypeOK'
    BY <1>7, WorldUnchanged DEF ProviderRefuses
  <2>. QED  BY <1>7, <2>1, ControlGoto DEF ProviderRefuses, Refreshing
<1>8. CASE AnswerLost(c)
  <2>1. /\ caller[c].pc = "calling" /\ Taken(caller[c].sent) /\ UNCHANGED inflight
        /\ latest' = [latest EXCEPT ![caller[c].sent.grant] = caller[c].sent.serial + 1]
        /\ lost' = lost \cup {caller[c].sent.grant} /\ Goto(c, "erroring")
    BY <1>8 DEF AnswerLost
  <2>2. PICK t \in Tokens : t = caller[c].sent
    BY <2>1 DEF Control, HasItsData
  <2>3. t.serial < MaxSerial
    BY <2>1, <2>2 DEF Taken
  <2>4. t.serial + 1 \in 0 .. MaxSerial /\ t.grant \in Grants
    BY <2>3, TokenFacts, AccountAssumption
  <2>5. WorldTypeOK'
    BY <1>1, <1>8, <2>1, <2>2, <2>4 DEF AnswerLost, WorldTypeOK
  <2>. QED  BY <2>1, <2>5, ControlGoto DEF Refreshing
<1>9. CASE StoreCredentials(c)
  <2>1. caller[c].pc = "storing" /\ Goto(c, "updating") /\ UNCHANGED inflight
    BY <1>9 DEF StoreCredentials
  <2>2. caller[c].got \in Tokens
    BY <2>1 DEF Control, HasItsData
  <2>3. WorldTypeOK'
    BY <1>1, <1>9, <2>2 DEF StoreCredentials, WorldTypeOK
  <2>. QED  BY <2>1, <2>2, <2>3, ControlGoto DEF Refreshing
<1>10. CASE UpdateRow(c)
  <2>1. caller[c].pc = "updating" /\ Goto(c, "activating") /\ UNCHANGED inflight
    BY <1>10 DEF UpdateRow
  <2>2. caller[c].got \in Tokens /\ caller[c].id \in Ids
    BY <2>1 DEF Control, HasItsData, RefreshIsLed, Refreshing
  <2>3. WorldTypeOK'
    BY <1>1, <1>10, <2>2, RowFacts DEF UpdateRow, WorldTypeOK
  <2>. QED  BY <2>1, <2>2, <2>3, ControlGoto DEF Refreshing
<1>11. CASE MarkActive(c)
  <2>1. caller[c].pc = "activating" /\ Settle(c, caller[c].got)
    BY <1>11 DEF MarkActive
  <2>2. caller[c].got \in Tokens /\ caller[c].id \in Ids
    BY <2>1 DEF Control, HasItsData, RefreshIsLed, Refreshing
  <2>3. WorldTypeOK'
    BY <1>1, <1>11, <2>2, RowFacts DEF MarkActive, WorldTypeOK
  <2>. QED  BY <2>1, <2>2, <2>3, ControlSettle DEF Refreshing
<1>12. CASE MarkErrored(c)
  <2>1. caller[c].pc = "erroring" /\ Settle(c, NoToken)
    BY <1>12 DEF MarkErrored
  <2>2. caller[c].id \in Ids
    BY <2>1 DEF Control, RefreshIsLed, Refreshing
  <2>3. WorldTypeOK'
    BY <1>1, <1>12, <2>2, RowFacts DEF MarkErrored, WorldTypeOK
  <2>. QED  BY <2>1, <2>3, ControlSettle DEF Refreshing
<1>. QED
  BY <1>2, <1>3, <1>4, <1>5, <1>6, <1>7, <1>8, <1>9, <1>10, <1>11, <1>12 DEF RefreshStep

\* A crash leaves no caller and no refresh.
LEMMA ControlCrash == Control /\ Crash => Control'
<1>. SUFFICES ASSUME Control, Crash PROVE Control'
  OBVIOUS
<1>1. Idle \in States /\ Idle.pc = "idle"
  BY DEF Idle, At, States, Pcs
<1>2. caller' \in [Callers -> States] /\ inflight' \in [Ids -> Callers \cup {NoOne}]
  BY <1>1 DEF Crash
<1>3. RefreshIsLed' /\ HasItsData'
  <2>. HIDE DEF Idle
  <2>. QED  BY <1>1 DEF Crash, RefreshIsLed, HasItsData, Refreshing
<1>4. WorldTypeOK
  BY TypeSplit DEF Control
<1>5. lost' \subseteq Grants
  <2>1. \A d \in Callers : caller[d].pc = "storing" => caller[d].got.grant \in Grants
    BY TokenFacts DEF Control, HasItsData
  <2>. QED  BY <1>4, <2>1 DEF Crash, WorldTypeOK
<1>6. crashes' \in 0 .. MaxCrashes
  BY <1>4, AccountAssumption DEF Crash, WorldTypeOK
<1>7. WorldTypeOK'
  BY <1>4, <1>5, <1>6 DEF Crash, WorldTypeOK
<1>. QED  BY <1>2, <1>3, <1>7, ControlFromParts

\* Every step keeps Control.
LEMMA ControlNext == Control /\ [Next]_vars => Control'
<1>. SUFFICES ASSUME Control, [Next]_vars PROVE Control'
  OBVIOUS
<1>1. CASE UNCHANGED vars
  BY <1>1 DEF vars, Control, TypeOK, RefreshIsLed, HasItsData
<1>2. CASE Next
  BY <1>2, ControlLeasing, ControlRefreshStep, ControlWorld, ControlCrash DEF Next
<1>. QED  BY <1>1, <1>2
-----------------------------------------------------------------------------
\* In every state the map _inflightRefreshes names exactly the callers that
\* run a refresh, and each of them has what its place needs.
THEOREM ControlInvariant == Spec => []Control
BY ControlInit, ControlNext, PTL DEF Spec

\* The state is of its declared type.
THEOREM AccountsTypeOK == Spec => []TypeOK
<1>1. Control => TypeOK
  BY DEF Control
<1>. QED  BY <1>1, ControlInvariant, PTL

\* refreshTokens runs at most one refresh of a row, whoever asks for it.
THEOREM RowsRefreshedOnce == Spec => []OneRefreshPerAccount
<1>1. Control => OneRefreshPerAccount
  BY DEF Control, RefreshIsLed, OneRefreshPerAccount
<1>. QED  BY <1>1, ControlInvariant, PTL

\* No step of a refresh, an authorization or a reset revives a deleted row.
THEOREM DeletionIsFinal == Spec => DeletedStaysDeleted
<1>. DEFINE Statuses == {"active", "refreshing", "reauth_required", "deleted"}
<1>1. ASSUME Control, [Next]_vars
      PROVE  [\A i \in Ids : rows[i].status = "deleted" => rows'[i].status = "deleted"]_vars
  <2>. SUFFICES ASSUME Next, NEW i \in Ids, rows[i].status = "deleted"
                PROVE  rows'[i].status = "deleted"
    BY <1>1
  <2>1. ~ Live(i) /\ rows \in [Ids -> RowStates]
    BY <1>1, TypeSplit DEF Live, Control, WorldTypeOK
  <2>2. \A j \in Ids : /\ \A s \in Statuses : WithStatus(j, s)[i] = rows[i]
                       /\ \A t \in Tokens : WithTokens(j, t)[i] = rows[i]
    BY <2>1 DEF WithStatus, WithTokens
  <2>3. ASSUME NEW c \in Callers, RefreshStep(c) PROVE rows'[i] = rows[i]
    <3>1. caller[c].pc \in Refreshing => caller[c].id \in Ids
      BY <1>1 DEF Control, RefreshIsLed
    <3>2. caller[c].pc \in {"updating", "activating"} => caller[c].got \in Tokens
      BY <1>1 DEF Control, HasItsData
    <3>3. CASE MarkRefreshing(c) \/ MarkErrored(c)
      BY <2>2, <3>1, <3>3 DEF MarkRefreshing, MarkErrored, Refreshing
    <3>4. CASE UpdateRow(c) \/ MarkActive(c)
      BY <2>2, <3>1, <3>2, <3>4 DEF UpdateRow, MarkActive, Refreshing
    <3>. QED
      BY <2>3, <3>3, <3>4 DEF RefreshStep, StartRefresh, FindAccount, ReadCredentials,
         ProviderRefreshes, ProviderRefuses, AnswerLost, StoreCredentials
  <2>4. ASSUME NEW g \in Grants, UpsertAccount(g) PROVE rows'[i] = rows[i]
    <3>1. PICK j \in Ids :
            /\ Live(j) \/ rows[j].status = "absent"
            /\ rows' = [rows EXCEPT ![j] = [status |-> "active", expiry |-> FirstToken(g)]]
      BY <2>4 DEF UpsertAccount
    <3>2. j # i
      BY <2>1, <3>1
    <3>. QED  BY <2>1, <3>1, <3>2
  <2>5. ASSUME NEW j \in Ids, DeleteAccount(j) \/ ResetQuota(j) PROVE rows'[i] = rows[i]
    BY <2>2, <2>5 DEF DeleteAccount, ResetQuota
  <2>. QED
    BY <2>3, <2>4, <2>5 DEF Next, PickAccount, Lease, ReleaseLease, ListExpiring, GrantGiven,
       StoreGrant, Expire, Crash
<1>. QED  BY <1>1, ControlInvariant, PTL DEF Spec, DeletedStaysDeleted
-----------------------------------------------------------------------------
(* Tokens. *)

Held(c) == {caller[c].sent, caller[c].got, caller[c].awaited}

\* The provider gave this token, and the gateway stored the first of its grant.
Circulating(t) ==
  t.serial <= latest[t.grant] /\ flow[t.grant] \in {"upserting", "closed"}

HeldCirculate ==
  /\ Circulating(file)
  /\ \A c \in Callers : \A t \in Held(c) : t # NoToken => Circulating(t)

GrantedOnce ==
  \A g \in Grants : /\ flow[g] = "open" => latest[g] = 0
                    /\ flow[g] = "storing" => latest[g] = 1

\* Neither the file nor a refresh about to call has the newest token of g.
OutOfReach(g) ==
  /\ file.grant = g => file.serial < latest[g]
  /\ \A c \in Callers :
       caller[c].pc = "calling" /\ caller[c].sent.grant = g => caller[c].sent.serial < latest[g]

\* Who carries a token to the file carries the newest of its grant, alone, and
\* nobody can make the provider give another before it is stored.
NewestOnItsWay ==
  \A c \in Callers : caller[c].pc = "storing" =>
    /\ caller[c].got.serial = latest[caller[c].got.grant]
    /\ caller[c].got.grant \notin lost
    /\ OutOfReach(caller[c].got.grant)
    /\ \A d \in Callers :
         caller[d].pc = "storing" /\ caller[d].got.grant = caller[c].got.grant => d = c

LostIsOutOfReach ==
  \A g \in lost : flow[g] \in {"upserting", "closed"} /\ OutOfReach(g)

\* What a finished refresh obtained is in the file, or something newer is.
FileFollows ==
  \A c \in Callers :
    /\ caller[c].pc \in {"updating", "activating"} /\ file.grant = caller[c].got.grant
         => file.serial >= caller[c].got.serial
    /\ caller[c].pc = "leasing" /\ caller[c].awaited # NoToken
         /\ file.grant = caller[c].awaited.grant
         => file.serial >= caller[c].awaited.serial
    /\ caller[c].pc = "leased" /\ caller[c].awaited # NoToken
         /\ caller[c].got.grant = caller[c].awaited.grant
         => caller[c].got.serial >= caller[c].awaited.serial

TokenInv ==
  /\ HeldCirculate
  /\ GrantedOnce
  /\ NewestOnItsWay
  /\ LostIsOutOfReach
  /\ FileFollows
  /\ TokenNeverStranded

IInv == Control /\ TokenInv

\* The types the token lemmas compute with.
LEMMA TokenTypes ==
  ASSUME Control
  PROVE  /\ file \in Tokens
         /\ lost \subseteq Grants
         /\ \A g \in Grants : latest[g] \in Nat
         /\ latest \in [Grants -> Int] /\ DOMAIN flow = Grants
         /\ \A c \in Callers : \A t \in Held(c) : t \in Tokens \cup {NoToken}
<1>1. \A c \in Callers : caller[c] \in States
  BY CallersTyped DEF Control
<1>2. \A c \in Callers : \A t \in Held(c) : t \in Tokens \cup {NoToken}
  BY <1>1, StateFacts DEF Held
<1>3. WorldTypeOK
  BY TypeSplit DEF Control
<1>. QED  BY <1>2, <1>3, AccountAssumption DEF WorldTypeOK

\* At the start the file has the only token there is.
LEMMA TokenInit == Init => TokenInv
<1>. SUFFICES ASSUME Init PROVE TokenInv
  OBVIOUS
<1>1. PICK g \in Grants :
        /\ file = FirstToken(g)
        /\ latest = [h \in Grants |-> IF h = g THEN 1 ELSE 0]
        /\ flow = [h \in Grants |-> IF h = g THEN "closed" ELSE "open"]
  BY AccountAssumption DEF Init
<1>2. file.grant = g /\ file.serial = 1
  BY <1>1, FirstTokenFacts
<1>3. lost = {} /\ \A c \in Callers : caller[c].pc = "idle" /\ Held(c) = {NoToken}
  BY DEF Init, Idle, At, Held
<1>4. HeldCirculate
  BY <1>1, <1>2, <1>3 DEF HeldCirculate, Circulating
<1>5. GrantedOnce
  BY <1>1 DEF GrantedOnce
<1>6. NewestOnItsWay /\ LostIsOutOfReach /\ FileFollows
  BY <1>3 DEF NewestOnItsWay, LostIsOutOfReach, FileFollows
<1>7. TokenNeverStranded
  BY <1>1, <1>2 DEF TokenNeverStranded
<1>. QED  BY <1>4, <1>5, <1>6, <1>7 DEF TokenInv

\* Steps that move no token: the file and the provider stay, and every caller
\* ends up with tokens that somebody held in a place that asks no more of them.
QuietCaller(c) ==
  /\ \A t \in Held(c)' : t = NoToken \/ \E d \in Callers : t \in Held(d)
  /\ caller'[c].pc = "calling" => caller[c].pc = "calling" /\ caller'[c].sent = caller[c].sent
  /\ caller'[c].pc = "storing" \/ caller[c].pc = "storing" => caller'[c] = caller[c]
  /\ caller'[c].pc \in {"updating", "activating"} =>
       caller[c].pc \in {"updating", "activating"} /\ caller'[c].got = caller[c].got
  /\ caller'[c].pc = "leasing" /\ caller'[c].awaited # NoToken =>
       \/ caller[c].pc = "leasing" /\ caller'[c].awaited = caller[c].awaited
       \/ \E d \in Callers : caller[d].pc = "activating" /\ caller'[c].awaited = caller[d].got
  /\ caller'[c].pc = "leased" => caller'[c] = caller[c]

Quiet ==
  /\ UNCHANGED <<file, latest, lost>>
  /\ \A g \in Grants : flow'[g] = flow[g] \/ (flow[g] = "upserting" /\ flow'[g] = "closed")
  /\ \A c \in Callers : QuietCaller(c)

\* Quiet steps keep TokenInv.
LEMMA QuietStep == IInv /\ Quiet => TokenInv'
<1>. SUFFICES ASSUME IInv, Quiet PROVE TokenInv'
  OBVIOUS
<1>0. UNCHANGED <<file, latest, lost>> /\ \A c \in Callers : QuietCaller(c)
  BY DEF Quiet
<1>1. /\ file \in Tokens /\ lost \subseteq Grants
      /\ \A c \in Callers : \A t \in Held(c) : t \in Tokens \cup {NoToken}
  BY TokenTypes DEF IInv
<1>2. \A t \in Tokens : Circulating(t) => Circulating(t)'
  BY <1>0, TokenFacts DEF Quiet, Circulating
<1>3. HeldCirculate'
  <2>1. Circulating(file)'
    BY <1>0, <1>1, <1>2 DEF IInv, TokenInv, HeldCirculate
  <2>2. ASSUME NEW c \in Callers, NEW t \in Held(c)', t # NoToken PROVE Circulating(t)'
    BY <1>0, <1>1, <1>2, <2>2 DEF QuietCaller, IInv, TokenInv, HeldCirculate
  <2>. QED  BY <2>1, <2>2 DEF HeldCirculate
<1>4. GrantedOnce'
  BY <1>0 DEF Quiet, IInv, TokenInv, GrantedOnce
<1>5. \A g \in Grants : OutOfReach(g) => OutOfReach(g)'
  BY <1>0 DEF QuietCaller, OutOfReach
<1>6. \A c \in Callers : caller[c].pc = "storing" => caller[c].got.grant \in Grants
  BY TokenFacts DEF IInv, Control, HasItsData
<1>7. NewestOnItsWay'
  BY <1>0, <1>5, <1>6 DEF QuietCaller, IInv, TokenInv, NewestOnItsWay
<1>8. LostIsOutOfReach'
  BY <1>0, <1>1, <1>5 DEF Quiet, IInv, TokenInv, LostIsOutOfReach
<1>9. FileFollows'
  BY <1>0 DEF QuietCaller, IInv, TokenInv, FileFollows
<1>10. TokenNeverStranded'
  BY <1>0 DEF QuietCaller, IInv, TokenInv, TokenNeverStranded
<1>. QED  BY <1>3, <1>4, <1>7, <1>8, <1>9, <1>10 DEF TokenInv

\* A caller that does not move is quiet.
LEMMA QuietSame ==
  ASSUME NEW c \in Callers, caller'[c] = caller[c]
  PROVE  QuietCaller(c)
BY DEF QuietCaller, Held

\* So is one that goes to a place with no token but what it waited for.
LEMMA QuietEmpty ==
  ASSUME NEW c \in Callers, caller[c].pc # "storing",
         caller'[c].sent = NoToken, caller'[c].got = NoToken,
         caller'[c].pc \in {"idle", "resolving", "leasing"},
         \/ caller'[c].awaited = NoToken
         \/ /\ caller'[c].pc = "leasing"
            /\ \E d \in Callers : caller[d].pc = "activating" /\ caller'[c].awaited = caller[d].got
  PROVE  QuietCaller(c)
BY DEF QuietCaller, Held

\* A step of one caller that starts or ends something without a token.
LEMMA QuietBecome ==
  ASSUME Control, NEW c \in Callers, NEW s \in States, Become(c, s),
         caller[c].pc # "storing",
         s.sent = NoToken, s.got = NoToken, s.awaited = NoToken,
         s.pc \in {"idle", "resolving", "leasing"}
  PROVE  \A d \in Callers : QuietCaller(d)
<1>1. caller'[c] = s /\ \A d \in Callers : d # c => caller'[d] = caller[d]
  BY BecomeFacts DEF Control
<1>. QED  BY <1>1, QuietSame, QuietEmpty

\* A step of a refresh that neither takes nor uses a token.
LEMMA QuietGoto ==
  ASSUME Control, NEW c \in Callers, NEW pc \in Pcs, Goto(c, pc),
         caller[c].pc # "storing",
         \/ pc \in {"joining", "marking", "finding", "reading", "erroring"}
         \/ caller[c].pc = "updating" /\ pc = "activating"
  PROVE  \A d \in Callers : QuietCaller(d)
<1>1. /\ caller'[c] = [pc |-> pc, id |-> caller[c].id, sent |-> caller[c].sent,
                       got |-> caller[c].got, awaited |-> caller[c].awaited]
      /\ \A d \in Callers : d # c => caller'[d] = caller[d]
  BY GotoFacts DEF Control
<1>2. Held(c)' = Held(c)
  BY <1>1 DEF Held
<1>3. QuietCaller(c)
  BY <1>1, <1>2 DEF QuietCaller
<1>. QED  BY <1>1, <1>3, QuietSame

\* The end of a refresh hands out its result, or nothing.
LEMMA QuietSettle ==
  ASSUME Control, NEW c \in Callers, NEW t \in Tokens \cup {NoToken}, Settle(c, t),
         caller[c].pc # "storing",
         t # NoToken => caller[c].pc = "activating" /\ t = caller[c].got
  PROVE  \A d \in Callers : QuietCaller(d)
<1>1. /\ \A d \in Callers :
           \/ caller'[d] = Idle
           \/ caller'[d] = [pc |-> "leasing", id |-> NoId, sent |-> NoToken,
                            got |-> NoToken, awaited |-> t]
           \/ caller'[d] = caller[d] /\ d # c
      /\ \A d \in Callers : caller'[d] # caller[d] => d = c \/ caller[d].pc = "joining"
  BY SettleFacts DEF Control
<1>2. Idle.pc = "idle" /\ Idle.sent = NoToken /\ Idle.got = NoToken /\ Idle.awaited = NoToken
  BY DEF Idle, At
<1>. SUFFICES ASSUME NEW d \in Callers PROVE QuietCaller(d)
  OBVIOUS
<1>3. CASE caller'[d] = caller[d]
  BY <1>3, QuietSame
<1>4. CASE caller'[d] # caller[d]
  <2>1. caller[d].pc # "storing"
    BY <1>1, <1>4
  <2>2. CASE caller'[d] = Idle
    BY <1>2, <2>1, <2>2, QuietEmpty
  <2>3. CASE caller'[d] = [pc |-> "leasing", id |-> NoId, sent |-> NoToken,
                           got |-> NoToken, awaited |-> t]
    BY <2>1, <2>3, QuietEmpty
  <2>. QED  BY <1>1, <1>4, <2>2, <2>3
<1>. QED  BY <1>3, <1>4

\* The steps that are quiet.
QuietAction ==
  \/ \E r \in Requests : PickAccount(r) \/ ReleaseLease(r)
  \/ ListExpiring
  \/ \E c \in Callers : \/ StartRefresh(c) \/ MarkRefreshing(c) \/ FindAccount(c)
                        \/ ProviderRefuses(c) \/ UpdateRow(c) \/ MarkActive(c) \/ MarkErrored(c)
  \/ \E g \in Grants : UpsertAccount(g)
  \/ \E i \in Ids : DeleteAccount(i) \/ ResetQuota(i)
  \/ Expire

\* The actions listed above are quiet.
LEMMA QuietActions == Control /\ QuietAction => Quiet
<1>. SUFFICES ASSUME Control, QuietAction PROVE Quiet
  OBVIOUS
<1>1. flow \in [Grants -> {"open", "storing", "upserting", "closed"}]
  BY TypeSplit DEF Control, WorldTypeOK
<1>2. /\ UNCHANGED <<file, latest, lost>>
      /\ \A g \in Grants : flow'[g] = flow[g] \/ (flow[g] = "upserting" /\ flow'[g] = "closed")
  BY <1>1 DEF QuietAction, PickAccount, ReleaseLease, ListExpiring, StartRefresh, MarkRefreshing,
     FindAccount, ProviderRefuses, UpdateRow, MarkActive, MarkErrored, UpsertAccount,
     DeleteAccount, ResetQuota, Expire
<1>3. /\ \A i \in Ids : At("resolving", i) \in States
      /\ At("leasing", NoId) \in States /\ Idle \in States /\ Idle.pc = "idle"
  BY DEF At, Idle, States, Pcs
<1>4. \A pc \in {"resolving", "leasing", "idle"} : \A i \in Ids \cup {NoId} :
        /\ At(pc, i).pc = pc /\ At(pc, i).sent = NoToken
        /\ At(pc, i).got = NoToken /\ At(pc, i).awaited = NoToken
  BY DEF At
<1>5. ASSUME NEW r \in Requests, PickAccount(r) PROVE \A d \in Callers : QuietCaller(d)
  <2>1. r \in Callers /\ caller[r].pc = "idle"
    BY <1>5, CallerFacts DEF PickAccount
  <2>2. PICK i \in Ids :
          Become(r, At("resolving", i)) \/ Become(r, At("leasing", NoId))
    BY <1>5 DEF PickAccount
  <2>3. CASE Become(r, At("resolving", i))
    <3>1. PICK s \in States : s = At("resolving", i)
      BY <1>3
    <3>. QED  BY <1>4, <2>1, <2>3, <3>1, QuietBecome
  <2>4. CASE Become(r, At("leasing", NoId))
    <3>1. PICK s \in States : s = At("leasing", NoId)
      BY <1>3
    <3>. QED  BY <1>4, <2>1, <2>4, <3>1, QuietBecome
  <2>. QED  BY <2>2, <2>3, <2>4
<1>6. ASSUME NEW r \in Requests, ReleaseLease(r) PROVE \A d \in Callers : QuietCaller(d)
  <2>1. r \in Callers /\ caller[r].pc = "leased" /\ Become(r, Idle)
    BY <1>6, CallerFacts DEF ReleaseLease
  <2>2. PICK s \in States : s = At("idle", NoId)
    BY <1>3 DEF Idle
  <2>3. Become(r, s)
    BY <2>1, <2>2 DEF Idle
  <2>. QED  BY <1>4, <2>1, <2>2, <2>3, QuietBecome
<1>7. CASE ListExpiring
  <2>1. Scheduler \in Callers /\ caller[Scheduler].pc = "idle"
    BY <1>7, CallerFacts DEF ListExpiring
  <2>2. PICK i \in Ids : Become(Scheduler, At("resolving", i))
    BY <1>7 DEF ListExpiring
  <2>3. PICK s \in States : s = At("resolving", i)
    BY <1>3
  <2>4. \A d \in Callers : QuietCaller(d)
    BY <1>4, <2>1, <2>2, <2>3, QuietBecome
  <2>. QED  BY <1>2, <2>4 DEF Quiet
<1>8. ASSUME NEW c \in Callers,
             StartRefresh(c) \/ MarkRefreshing(c) \/ FindAccount(c) \/ ProviderRefuses(c)
             \/ UpdateRow(c) \/ MarkActive(c) \/ MarkErrored(c)
      PROVE  \A d \in Callers : QuietCaller(d)
  <2>1. \/ caller[c].pc = "resolving" /\ (Goto(c, "marking") \/ Goto(c, "joining"))
        \/ caller[c].pc = "marking" /\ Goto(c, "finding")
        \/ caller[c].pc = "finding" /\ Goto(c, "reading")
        \/ caller[c].pc = "calling" /\ Goto(c, "erroring")
        \/ caller[c].pc = "updating" /\ Goto(c, "activating")
        \/ caller[c].pc = "activating" /\ Settle(c, caller[c].got)
        \/ caller[c].pc \in {"finding", "erroring"} /\ Settle(c, NoToken)
    BY <1>8 DEF StartRefresh, MarkRefreshing, FindAccount, ProviderRefuses, UpdateRow,
       MarkActive, MarkErrored
  <2>2. {"marking", "joining", "finding", "reading", "erroring", "activating"} \subseteq Pcs
    BY DEF Pcs, Refreshing
  <2>3. ASSUME NEW pc \in Pcs, Goto(c, pc), caller[c].pc # "storing",
               \/ pc \in {"joining", "marking", "finding", "reading", "erroring"}
               \/ caller[c].pc = "updating" /\ pc = "activating"
        PROVE  \A d \in Callers : QuietCaller(d)
    BY <2>3, QuietGoto
  <2>4. CASE caller[c].pc = "activating" /\ Settle(c, caller[c].got)
    <3>1. caller[c].got \in Tokens
      BY <2>4 DEF Control, HasItsData
    <3>. QED  BY <2>4, <3>1, QuietSettle
  <2>5. CASE caller[c].pc \in {"finding", "erroring"} /\ Settle(c, NoToken)
    BY <2>5, QuietSettle
  <2>. QED  BY <2>1, <2>2, <2>3, <2>4, <2>5
<1>9. UNCHANGED caller => \A d \in Callers : QuietCaller(d)
  BY QuietSame
<1>10. CASE Expire \/ (\E g \in Grants : UpsertAccount(g))
            \/ (\E i \in Ids : DeleteAccount(i) \/ ResetQuota(i))
  <2>1. UNCHANGED caller
    BY <1>10 DEF Expire, UpsertAccount, DeleteAccount, ResetQuota
  <2>. QED  BY <1>2, <1>9, <2>1 DEF Quiet
<1>. QED  BY <1>2, <1>5, <1>6, <1>7, <1>8, <1>10 DEF Quiet, QuietAction
-----------------------------------------------------------------------------
(* The steps that take, use or store a token. *)

\* A lease reads the file, which has what was awaited or something newer.
LEMMA TokenLease ==
  ASSUME IInv, NEW r \in Requests, Lease(r)
  PROVE  TokenInv'
<1>1. r \in Callers /\ caller[r].pc = "leasing" /\ UNCHANGED <<file, latest, lost, flow>>
  BY CallerFacts DEF Lease
<1>2. caller[r] \in States /\ file \in Tokens
  BY <1>1, CallersTyped, TokenTypes DEF IInv, Control
<1>3. PICK s : s = [pc |-> "leased", id |-> NoId, sent |-> NoToken, got |-> file,
                    awaited |-> caller[r].awaited]
  OBVIOUS
<1>4. s \in States
  BY <1>2, <1>3, StateFacts DEF States, Pcs
<1>5. caller'[r] = s /\ \A d \in Callers : d # r => caller'[d] = caller[d]
  BY <1>1, <1>3, <1>4, BecomeFacts DEF Lease, IInv, Control
<1>6. HeldCirculate'
  <2>1. Circulating(file) /\ caller[r].awaited \in Held(r)
    BY DEF IInv, TokenInv, HeldCirculate, Held
  <2>2. \A t \in Held(r)' : t # NoToken => Circulating(t)
    BY <1>1, <1>3, <1>5, <2>1 DEF IInv, TokenInv, HeldCirculate, Held
  <2>3. \A d \in Callers : \A t \in Held(d)' : t # NoToken => Circulating(t)
    BY <1>5, <2>2 DEF IInv, TokenInv, HeldCirculate, Held
  <2>. QED  BY <1>1, <2>1, <2>3 DEF HeldCirculate, Circulating
<1>7. GrantedOnce'
  BY <1>1 DEF IInv, TokenInv, GrantedOnce
<1>8. \A g : OutOfReach(g) => OutOfReach(g)'
  BY <1>1, <1>3, <1>5 DEF OutOfReach
<1>9. NewestOnItsWay' /\ LostIsOutOfReach'
  BY <1>1, <1>3, <1>5, <1>8 DEF IInv, TokenInv, NewestOnItsWay, LostIsOutOfReach
<1>10. FileFollows'
  BY <1>1, <1>3, <1>5 DEF IInv, TokenInv, FileFollows
<1>11. TokenNeverStranded'
  BY <1>1, <1>5 DEF IInv, TokenInv, TokenNeverStranded
<1>. QED  BY <1>6, <1>7, <1>9, <1>10, <1>11 DEF TokenInv

\* A refresh takes its token from the file: out of reach there, out of reach here.
LEMMA TokenReadCredentials ==
  ASSUME IInv, NEW c \in Callers, ReadCredentials(c)
  PROVE  TokenInv'
<1>1. caller[c].pc = "reading" /\ UNCHANGED <<file, latest, lost, flow>>
  BY DEF ReadCredentials
<1>2. caller[c] \in States /\ file \in Tokens
  BY CallersTyped, TokenTypes DEF IInv, Control
<1>3. PICK s : s = [pc |-> "calling", id |-> caller[c].id, sent |-> file, got |-> NoToken,
                    awaited |-> NoToken]
  OBVIOUS
<1>4. s \in States
  BY <1>2, <1>3, StateFacts DEF States, Pcs, Refreshing
<1>5. caller'[c] = s /\ \A d \in Callers : d # c => caller'[d] = caller[d]
  BY <1>3, <1>4, BecomeFacts DEF ReadCredentials, IInv, Control
<1>6. HeldCirculate'
  <2>1. Circulating(file)
    BY DEF IInv, TokenInv, HeldCirculate
  <2>2. \A t \in Held(c)' : t # NoToken => Circulating(t)
    BY <1>3, <1>5, <2>1 DEF Held
  <2>3. \A d \in Callers : \A t \in Held(d)' : t # NoToken => Circulating(t)
    BY <1>5, <2>2 DEF IInv, TokenInv, HeldCirculate, Held
  <2>. QED  BY <1>1, <2>1, <2>3 DEF HeldCirculate, Circulating
<1>7. GrantedOnce'
  BY <1>1 DEF IInv, TokenInv, GrantedOnce
<1>8. \A g : OutOfReach(g) => OutOfReach(g)'
  BY <1>1, <1>3, <1>5 DEF OutOfReach
<1>9. NewestOnItsWay' /\ LostIsOutOfReach'
  BY <1>1, <1>3, <1>5, <1>8 DEF IInv, TokenInv, NewestOnItsWay, LostIsOutOfReach
<1>10. FileFollows'
  BY <1>1, <1>3, <1>5 DEF IInv, TokenInv, FileFollows
<1>11. TokenNeverStranded'
  BY <1>1, <1>5 DEF IInv, TokenInv, TokenNeverStranded
<1>. QED  BY <1>6, <1>7, <1>9, <1>10, <1>11 DEF TokenInv

\* When the provider takes the token of a caller, its grant is not lost and no
\* caller carries a token of it: both would put the newest one out of reach.
LEMMA TakenIsInReach ==
  ASSUME IInv, NEW c \in Callers, caller[c].pc = "calling", Taken(caller[c].sent)
  PROVE  /\ caller[c].sent.grant \notin lost
         /\ \A d \in Callers :
              caller[d].pc = "storing" => caller[d].got.grant # caller[c].sent.grant
<1>1. caller[c].sent \in Tokens
  BY DEF IInv, Control, HasItsData
<1>2. ~ OutOfReach(caller[c].sent.grant)
  BY <1>1, TokenFacts, TokenTypes DEF OutOfReach, Taken, IInv
<1>. QED  BY <1>2 DEF IInv, TokenInv, LostIsOutOfReach, NewestOnItsWay

\* The provider goes on to the next token of a grant: what circulates goes on
\* circulating, and nothing that does is the newest.
LEMMA NextSerial ==
  ASSUME IInv, NEW g \in Grants, latest' = [latest EXCEPT ![g] = latest[g] + 1],
         UNCHANGED <<file, flow>>, flow[g] \in {"upserting", "closed"},
         \A c \in Callers : caller'[c].pc = "calling" => caller'[c] = caller[c]
  PROVE  /\ \A t \in Tokens : Circulating(t) => Circulating(t)'
         /\ GrantedOnce'
         /\ \A h \in Grants : OutOfReach(h) => OutOfReach(h)'
         /\ OutOfReach(g)'
<1>1. \A h \in Grants : latest[h] \in Nat /\ latest'[h] = IF h = g THEN latest[h] + 1 ELSE latest[h]
  BY TokenTypes DEF IInv
<1>2. \A t \in Tokens : Circulating(t) => Circulating(t)'
  BY <1>1, TokenFacts DEF Circulating
<1>3. GrantedOnce'
  BY <1>1 DEF GrantedOnce, IInv, TokenInv
<1>4. file \in Tokens /\ \A c \in Callers : caller[c].pc = "calling" => caller[c].sent \in Tokens
  BY TokenTypes DEF IInv, Control, HasItsData
<1>5. \A h \in Grants : OutOfReach(h) => OutOfReach(h)'
  BY <1>1, <1>4, TokenFacts DEF OutOfReach
<1>6. OutOfReach(g)'
  <2>1. file.serial <= latest[file.grant]
    BY DEF IInv, TokenInv, HeldCirculate, Circulating
  <2>2. ASSUME NEW c \in Callers, caller[c].pc = "calling"
        PROVE  caller[c].sent.serial <= latest[caller[c].sent.grant]
    <3>1. caller[c].sent \in Held(c) /\ caller[c].sent # NoToken
      BY <1>4, <2>2, TokenFacts DEF Held
    <3>. QED  BY <3>1 DEF IInv, TokenInv, HeldCirculate, Circulating
  <2>. QED  BY <1>1, <1>4, <2>1, <2>2, TokenFacts DEF OutOfReach
<1>. QED  BY <1>2, <1>3, <1>5, <1>6

\* The provider takes the token: its successor is now the only one it would take.
LEMMA TokenProviderRefreshes ==
  ASSUME IInv, NEW c \in Callers, ProviderRefreshes(c)
  PROVE  TokenInv'
<1>1. caller[c].pc = "calling" /\ Taken(caller[c].sent) /\ UNCHANGED <<file, lost, flow>>
  BY DEF ProviderRefreshes
<1>2. PICK t \in Tokens : t = caller[c].sent
  BY <1>1 DEF IInv, Control, HasItsData
<1>3. PICK g \in Grants : g = t.grant
  BY TokenFacts
<1>4. t.serial = latest[g] /\ t.serial < MaxSerial
  BY <1>1, <1>2, <1>3 DEF Taken
<1>5. latest' = [latest EXCEPT ![g] = latest[g] + 1]
  BY <1>2, <1>3, <1>4 DEF ProviderRefreshes
<1>6. PICK n \in Tokens : n = Successor(t) /\ n.grant = g /\ n.serial = latest[g] + 1
  BY <1>3, <1>4, SuccessorFacts
<1>7. PICK s : s = [pc |-> "storing", id |-> caller[c].id, sent |-> t, got |-> n,
                    awaited |-> NoToken]
  OBVIOUS
<1>8. s \in States
  BY <1>7, CallersTyped, StateFacts DEF States, Pcs, Refreshing, IInv, Control
<1>9. caller'[c] = s /\ \A d \in Callers : d # c => caller'[d] = caller[d]
  BY <1>2, <1>6, <1>7, <1>8, BecomeFacts DEF ProviderRefreshes, IInv, Control
<1>10. Circulating(t) /\ Circulating(file)
  <2>1. t \in Held(c) /\ t # NoToken
    BY <1>2, TokenFacts DEF Held
  <2>. QED  BY <2>1 DEF IInv, TokenInv, HeldCirculate
<1>11. flow[g] \in {"upserting", "closed"}
  BY <1>3, <1>10 DEF Circulating
<1>12. \A d \in Callers : caller'[d].pc = "calling" => caller'[d] = caller[d]
  BY <1>7, <1>9
<1>13. /\ \A u \in Tokens : Circulating(u) => Circulating(u)'
       /\ GrantedOnce'
       /\ \A h \in Grants : OutOfReach(h) => OutOfReach(h)'
       /\ OutOfReach(g)'
  BY <1>1, <1>5, <1>11, <1>12, NextSerial
<1>14. \A h \in Grants : latest[h] \in Nat /\ latest'[h] = IF h = g THEN latest[h] + 1 ELSE latest[h]
  BY <1>5, TokenTypes DEF IInv
<1>15. g \notin lost /\ \A d \in Callers : caller[d].pc = "storing" => caller[d].got.grant # g
  BY <1>1, <1>2, <1>3, TakenIsInReach
<1>16. /\ file \in Tokens /\ lost \subseteq Grants
       /\ \A d \in Callers : \A u \in Held(d) : u \in Tokens \cup {NoToken}
       /\ \A d \in Callers : caller[d].pc = "storing" => caller[d].got \in Tokens
  BY TokenTypes DEF IInv, Control, HasItsData
<1>17. HeldCirculate'
  <2>1. Circulating(file)'
    BY <1>1, <1>10, <1>13, <1>16
  <2>2. Circulating(n)'
    BY <1>1, <1>6, <1>11, <1>14 DEF Circulating
  <2>3. ASSUME NEW d \in Callers, NEW u \in Held(d)', u # NoToken PROVE Circulating(u)'
    <3>1. CASE d = c
      BY <1>7, <1>9, <1>10, <1>13, <2>2, <2>3, <3>1 DEF Held
    <3>2. CASE d # c
      BY <1>9, <1>13, <1>16, <2>3, <3>2 DEF Held, IInv, TokenInv, HeldCirculate
    <3>. QED  BY <3>1, <3>2
  <2>. QED  BY <2>1, <2>3 DEF HeldCirculate
<1>18. NewestOnItsWay'
  <2>. SUFFICES ASSUME NEW d \in Callers, caller'[d].pc = "storing"
                PROVE  /\ caller'[d].got.serial = latest'[caller'[d].got.grant]
                       /\ caller'[d].got.grant \notin lost'
                       /\ OutOfReach(caller[d].got.grant)'
                       /\ \A e \in Callers :
                            /\ caller'[e].pc = "storing"
                            /\ caller'[e].got.grant = caller'[d].got.grant
                            => e = d
    BY DEF NewestOnItsWay
  <2>1. CASE d = c
    BY <1>1, <1>6, <1>7, <1>9, <1>13, <1>14, <1>15, <2>1
  <2>2. CASE d # c
    <3>1. caller'[d] = caller[d] /\ caller[d].pc = "storing" /\ caller[d].got.grant # g
      BY <1>9, <1>15, <2>2
    <3>2. caller[d].got.grant \in Grants
      BY <1>16, <3>1, TokenFacts
    <3>3. /\ caller[d].got.serial = latest[caller[d].got.grant]
          /\ caller[d].got.grant \notin lost
          /\ OutOfReach(caller[d].got.grant)
          /\ \A e \in Callers :
               caller[e].pc = "storing" /\ caller[e].got.grant = caller[d].got.grant => e = d
      BY <3>1 DEF IInv, TokenInv, NewestOnItsWay
    <3>4. OutOfReach(caller[d].got.grant)'
      BY <1>13, <3>1, <3>2, <3>3
    <3>. QED  BY <1>1, <1>6, <1>7, <1>9, <1>14, <3>1, <3>2, <3>3, <3>4
  <2>. QED  BY <2>1, <2>2
<1>19. LostIsOutOfReach'
  BY <1>1, <1>13, <1>16 DEF IInv, TokenInv, LostIsOutOfReach
<1>20. FileFollows'
  BY <1>1, <1>7, <1>9 DEF IInv, TokenInv, FileFollows
<1>21. TokenNeverStranded'
  <2>1. CASE file.grant = g
    <3>1. n = [grant |-> file'.grant, serial |-> latest'[file'.grant]]
      BY <1>1, <1>6, <1>14, <2>1, TokenFacts
    <3>. QED  BY <1>7, <1>9, <3>1 DEF TokenNeverStranded
  <2>2. CASE file.grant # g
    <3>1. latest'[file.grant] = latest[file.grant]
      BY <1>14, <1>16, <2>2, TokenFacts
    <3>2. \A d \in Callers : caller[d].pc = "storing" => caller'[d] = caller[d]
      BY <1>1, <1>9
    <3>. QED  BY <1>1, <3>1, <3>2 DEF IInv, TokenInv, TokenNeverStranded
  <2>. QED  BY <2>1, <2>2
<1>. QED  BY <1>13, <1>17, <1>18, <1>19, <1>20, <1>21 DEF TokenInv

\* The provider takes the token and the answer is lost: the grant is out of reach.
LEMMA TokenAnswerLost ==
  ASSUME IInv, NEW c \in Callers, AnswerLost(c)
  PROVE  TokenInv'
<1>1. caller[c].pc = "calling" /\ Taken(caller[c].sent) /\ UNCHANGED <<file, flow>>
  BY DEF AnswerLost
<1>2. PICK t \in Tokens : t = caller[c].sent
  BY <1>1 DEF IInv, Control, HasItsData
<1>3. PICK g \in Grants : g = t.grant
  BY TokenFacts
<1>4. latest' = [latest EXCEPT ![g] = latest[g] + 1] /\ lost' = lost \cup {g}
  BY <1>1, <1>2, <1>3 DEF AnswerLost, Taken
<1>5. /\ caller'[c] = [pc |-> "erroring", id |-> caller[c].id, sent |-> caller[c].sent,
                       got |-> caller[c].got, awaited |-> caller[c].awaited]
      /\ \A d \in Callers : d # c => caller'[d] = caller[d]
  <2>1. "erroring" \in Pcs /\ Goto(c, "erroring")
    BY DEF AnswerLost, Pcs, Refreshing
  <2>. QED  BY <2>1, GotoFacts DEF IInv, Control
<1>6. \A d \in Callers : Held(d)' = Held(d)
  BY <1>5 DEF Held
<1>7. flow[g] \in {"upserting", "closed"}
  <2>1. t \in Held(c) /\ t # NoToken
    BY <1>2, TokenFacts DEF Held
  <2>. QED  BY <1>3, <2>1 DEF IInv, TokenInv, HeldCirculate, Circulating
<1>8. \A d \in Callers : caller'[d].pc = "calling" => caller'[d] = caller[d]
  BY <1>5
<1>9. /\ \A u \in Tokens : Circulating(u) => Circulating(u)'
      /\ GrantedOnce'
      /\ \A h \in Grants : OutOfReach(h) => OutOfReach(h)'
      /\ OutOfReach(g)'
  BY <1>1, <1>4, <1>7, <1>8, NextSerial
<1>10. \A h \in Grants : latest'[h] = IF h = g THEN latest[h] + 1 ELSE latest[h]
  BY <1>4, TokenTypes DEF IInv
<1>11. \A d \in Callers : caller[d].pc = "storing" => caller[d].got.grant # g
  BY <1>1, <1>2, <1>3, TakenIsInReach
<1>12. /\ file \in Tokens /\ lost \subseteq Grants
       /\ \A d \in Callers : \A u \in Held(d) : u \in Tokens \cup {NoToken}
       /\ \A d \in Callers : caller[d].pc = "storing" => caller[d].got.grant \in Grants
  BY TokenTypes, TokenFacts DEF IInv, Control, HasItsData
<1>13. HeldCirculate'
  BY <1>1, <1>6, <1>9, <1>12 DEF IInv, TokenInv, HeldCirculate
<1>14. \A d \in Callers : caller'[d].pc = "storing" <=> caller[d].pc = "storing"
  BY <1>1, <1>5
<1>15. \A d \in Callers : caller[d].pc = "storing" => caller'[d] = caller[d]
  BY <1>1, <1>5
<1>16. NewestOnItsWay'
  BY <1>4, <1>9, <1>10, <1>11, <1>12, <1>14, <1>15 DEF IInv, TokenInv, NewestOnItsWay
<1>17. LostIsOutOfReach'
  BY <1>1, <1>4, <1>7, <1>9, <1>12 DEF IInv, TokenInv, LostIsOutOfReach
<1>18. FileFollows'
  BY <1>1, <1>5 DEF IInv, TokenInv, FileFollows
<1>19. TokenNeverStranded'
  <2>1. CASE file.grant = g
    BY <1>1, <1>4, <2>1 DEF TokenNeverStranded
  <2>2. CASE file.grant # g
    <3>1. latest'[file.grant] = latest[file.grant]
      BY <1>10, <1>12, <2>2, TokenFacts
    <3>. QED  BY <1>1, <1>4, <1>15, <3>1 DEF IInv, TokenInv, TokenNeverStranded
  <2>. QED  BY <2>1, <2>2
<1>. QED  BY <1>9, <1>13, <1>16, <1>17, <1>18, <1>19 DEF TokenInv

\* What is stored is the newest token of its grant and nothing held is newer.
LEMMA TokenStoreCredentials ==
  ASSUME IInv, NEW c \in Callers, StoreCredentials(c)
  PROVE  TokenInv'
<1>1. caller[c].pc = "storing" /\ UNCHANGED <<latest, lost, flow>> /\ file' = caller[c].got
  BY DEF StoreCredentials
<1>2. PICK t \in Tokens : t = caller[c].got
  BY <1>1 DEF IInv, Control, HasItsData
<1>3. PICK g \in Grants : g = t.grant
  BY TokenFacts
<1>4. /\ caller'[c] = [pc |-> "updating", id |-> caller[c].id, sent |-> caller[c].sent,
                       got |-> caller[c].got, awaited |-> caller[c].awaited]
      /\ \A d \in Callers : d # c => caller'[d] = caller[d]
  <2>1. "updating" \in Pcs /\ Goto(c, "updating")
    BY DEF StoreCredentials, Pcs, Refreshing
  <2>. QED  BY <2>1, GotoFacts DEF IInv, Control
<1>5. \A d \in Callers : Held(d)' = Held(d)
  BY <1>4 DEF Held
<1>6. /\ t.serial = latest[g] /\ g \notin lost
      /\ \A d \in Callers : caller[d].pc = "storing" /\ caller[d].got.grant = g => d = c
  BY <1>1, <1>2, <1>3 DEF IInv, TokenInv, NewestOnItsWay
<1>7. \A u : Circulating(u)' <=> Circulating(u)
  BY <1>1 DEF Circulating
<1>8. HeldCirculate'
  <2>1. t \in Held(c) /\ t # NoToken
    BY <1>2, TokenFacts DEF Held
  <2>2. Circulating(t)
    BY <2>1 DEF IInv, TokenInv, HeldCirculate
  <2>. QED  BY <1>1, <1>2, <1>5, <1>7, <2>2 DEF IInv, TokenInv, HeldCirculate, Circulating
<1>9. GrantedOnce'
  BY <1>1 DEF IInv, TokenInv, GrantedOnce
<1>10. \A h : h # g /\ OutOfReach(h) => OutOfReach(h)'
  BY <1>1, <1>2, <1>3, <1>4 DEF OutOfReach
<1>11. NewestOnItsWay'
  <2>. SUFFICES ASSUME NEW d \in Callers, caller'[d].pc = "storing"
                PROVE  /\ caller'[d].got.serial = latest'[caller'[d].got.grant]
                       /\ caller'[d].got.grant \notin lost'
                       /\ OutOfReach(caller[d].got.grant)'
                       /\ \A e \in Callers :
                            /\ caller'[e].pc = "storing"
                            /\ caller'[e].got.grant = caller'[d].got.grant
                            => e = d
    BY DEF NewestOnItsWay
  <2>1. d # c /\ caller'[d] = caller[d]
    BY <1>4
  <2>2. caller[d].got.grant # g
    BY <1>6, <2>1
  <2>3. OutOfReach(caller[d].got.grant)'
    BY <1>10, <2>1, <2>2 DEF IInv, TokenInv, NewestOnItsWay
  <2>. QED  BY <1>1, <1>4, <2>1, <2>3 DEF IInv, TokenInv, NewestOnItsWay
<1>12. LostIsOutOfReach'
  BY <1>1, <1>6, <1>10 DEF IInv, TokenInv, LostIsOutOfReach
<1>13. FileFollows'
  <2>1. \A d \in Callers : \A u \in Held(d) : u \in Tokens /\ u.grant = g => u.serial <= t.serial
    BY <1>6, TokenFacts DEF IInv, TokenInv, HeldCirculate, Circulating
  <2>2. \A d \in Callers : \A u \in Held(d) : u \in Tokens \cup {NoToken}
    BY TokenTypes DEF IInv
  <2>3. \A d \in Callers :
          caller[d].pc \in {"updating", "activating", "storing"} => caller[d].got \in Tokens
    BY DEF IInv, Control, HasItsData
  <2>. SUFFICES ASSUME NEW d \in Callers
                PROVE  /\ /\ caller'[d].pc \in {"updating", "activating"}
                          /\ file'.grant = caller'[d].got.grant
                          => file'.serial >= caller'[d].got.serial
                       /\ /\ caller'[d].pc = "leasing" /\ caller'[d].awaited # NoToken
                          /\ file'.grant = caller'[d].awaited.grant
                          => file'.serial >= caller'[d].awaited.serial
                       /\ /\ caller'[d].pc = "leased" /\ caller'[d].awaited # NoToken
                          /\ caller'[d].got.grant = caller'[d].awaited.grant
                          => caller'[d].got.serial >= caller'[d].awaited.serial
    BY DEF FileFollows
  <2>4. CASE d = c
    BY <1>1, <1>2, <1>4, <2>4, TokenFacts
  <2>5. CASE d # c
    <3>1. caller'[d] = caller[d] /\ file' = t
      BY <1>1, <1>2, <1>4, <2>5
    <3>2. /\ caller[d].pc \in {"updating", "activating"} /\ g = caller[d].got.grant
             => caller[d].got.serial <= t.serial
          /\ caller[d].awaited # NoToken /\ g = caller[d].awaited.grant
             => caller[d].awaited.serial <= t.serial
      BY <2>1, <2>2, <2>3 DEF Held
    <3>3. /\ caller[d].pc \in {"updating", "activating"} => caller[d].got.serial \in Nat
          /\ caller[d].awaited # NoToken => caller[d].awaited.serial \in Nat
      BY <2>2, <2>3, TokenFacts DEF Held
    <3>. QED  BY <1>3, <3>1, <3>2, <3>3, TokenFacts DEF IInv, TokenInv, FileFollows
  <2>. QED  BY <2>4, <2>5
<1>14. TokenNeverStranded'
  BY <1>1, <1>2, <1>3, <1>6 DEF TokenNeverStranded
<1>. QED  BY <1>8, <1>9, <1>11, <1>12, <1>13, <1>14 DEF TokenInv

\* Before the first token of a grant is stored, the gateway has none of it.
LEMMA NoneHeldBefore ==
  ASSUME IInv, NEW g \in Grants, flow[g] \in {"open", "storing"}
  PROVE  /\ file.grant # g /\ g \notin lost
         /\ \A c \in Callers : \A t \in Held(c) : t # NoToken => t.grant # g
         /\ \A c \in Callers : caller[c].pc = "storing" => caller[c].got.grant # g
<1>1. \A c \in Callers : \A t \in Held(c) : t # NoToken => t.grant # g
  BY DEF IInv, TokenInv, HeldCirculate, Circulating
<1>2. \A c \in Callers : caller[c].pc = "storing" => caller[c].got \in Held(c) /\ caller[c].got # NoToken
  BY TokenFacts DEF IInv, Control, HasItsData, Held
<1>. QED  BY <1>1, <1>2 DEF IInv, TokenInv, HeldCirculate, Circulating, LostIsOutOfReach

\* A new grant meets no token of its own.
LEMMA TokenGrantGiven ==
  ASSUME IInv, NEW g \in Grants, GrantGiven(g)
  PROVE  TokenInv'
<1>1. /\ flow[g] = "open" /\ flow' = [flow EXCEPT ![g] = "storing"]
      /\ latest' = [latest EXCEPT ![g] = 1] /\ UNCHANGED <<file, lost, caller>>
  BY DEF GrantGiven
<1>2. /\ file.grant # g /\ g \notin lost
      /\ \A c \in Callers : \A t \in Held(c) : t # NoToken => t.grant # g
      /\ \A c \in Callers : caller[c].pc = "storing" => caller[c].got.grant # g
  BY <1>1, NoneHeldBefore
<1>3. \A h \in Grants : /\ latest'[h] = IF h = g THEN 1 ELSE latest[h]
                        /\ flow'[h] = IF h = g THEN "storing" ELSE flow[h]
  BY <1>1, TokenTypes DEF IInv
<1>4. /\ file \in Tokens /\ lost \subseteq Grants
      /\ \A c \in Callers : \A t \in Held(c) : t \in Tokens \cup {NoToken}
      /\ \A c \in Callers : caller[c].pc = "storing" => caller[c].got \in Tokens
  BY TokenTypes DEF IInv, Control, HasItsData
<1>5. \A t \in Tokens : t.grant # g /\ Circulating(t) => Circulating(t)'
  BY <1>3, TokenFacts DEF Circulating
<1>6. \A h \in Grants : h # g /\ OutOfReach(h) => OutOfReach(h)'
  BY <1>1, <1>3 DEF OutOfReach
<1>7. HeldCirculate'
  <2>1. \A c \in Callers : Held(c)' = Held(c)
    BY <1>1 DEF Held
  <2>. QED  BY <1>1, <1>2, <1>4, <1>5, <2>1 DEF IInv, TokenInv, HeldCirculate
<1>8. GrantedOnce'
  BY <1>3 DEF IInv, TokenInv, GrantedOnce
<1>9. NewestOnItsWay'
  <2>1. \A c \in Callers : caller[c].pc = "storing" => caller[c].got.grant \in Grants
    BY <1>4, TokenFacts
  <2>. QED  BY <1>1, <1>2, <1>3, <1>6, <2>1 DEF IInv, TokenInv, NewestOnItsWay
<1>10. LostIsOutOfReach'
  BY <1>1, <1>2, <1>3, <1>4, <1>6 DEF IInv, TokenInv, LostIsOutOfReach
<1>11. FileFollows'
  BY <1>1 DEF IInv, TokenInv, FileFollows
<1>12. TokenNeverStranded'
  BY <1>1, <1>2, <1>3, <1>4, TokenFacts DEF IInv, TokenInv, TokenNeverStranded
<1>. QED  BY <1>7, <1>8, <1>9, <1>10, <1>11, <1>12 DEF TokenInv

\* The first token of a grant replaces what was in the file.
LEMMA TokenStoreGrant ==
  ASSUME IInv, NEW g \in Grants, StoreGrant(g)
  PROVE  TokenInv'
<1>1. /\ flow[g] = "storing" /\ flow' = [flow EXCEPT ![g] = "upserting"]
      /\ file' = FirstToken(g) /\ UNCHANGED <<latest, lost, caller>>
  BY DEF StoreGrant
<1>2. /\ g \notin lost
      /\ \A c \in Callers : \A t \in Held(c) : t # NoToken => t.grant # g
      /\ \A c \in Callers : caller[c].pc = "storing" => caller[c].got.grant # g
  BY <1>1, NoneHeldBefore
<1>3. file'.grant = g /\ file'.serial = 1 /\ latest[g] = 1
  BY <1>1, FirstTokenFacts DEF IInv, TokenInv, GrantedOnce
<1>4. \A h \in Grants : flow'[h] = IF h = g THEN "upserting" ELSE flow[h]
  BY <1>1, TokenTypes DEF IInv
<1>5. /\ lost \subseteq Grants
      /\ \A c \in Callers : \A t \in Held(c) : t \in Tokens \cup {NoToken}
  BY TokenTypes DEF IInv
<1>6. \A h : h # g /\ OutOfReach(h) => OutOfReach(h)'
  BY <1>1, <1>3 DEF OutOfReach
<1>7. HeldCirculate'
  <2>1. \A t \in Tokens : Circulating(t) => Circulating(t)'
    BY <1>1, <1>4, TokenFacts DEF Circulating
  <2>2. \A c \in Callers : Held(c)' = Held(c)
    BY <1>1 DEF Held
  <2>3. Circulating(file)'
    BY <1>1, <1>3, <1>4 DEF Circulating
  <2>. QED  BY <1>5, <2>1, <2>2, <2>3 DEF IInv, TokenInv, HeldCirculate
<1>8. GrantedOnce'
  BY <1>1, <1>4 DEF IInv, TokenInv, GrantedOnce
<1>9. NewestOnItsWay'
  BY <1>1, <1>2, <1>6 DEF IInv, TokenInv, NewestOnItsWay
<1>10. LostIsOutOfReach'
  BY <1>1, <1>2, <1>4, <1>5, <1>6 DEF IInv, TokenInv, LostIsOutOfReach
<1>11. FileFollows'
  <2>1. \A c \in Callers : caller[c].awaited # NoToken => caller[c].awaited.grant # g
    BY <1>2 DEF Held
  <2>2. \A c \in Callers : caller[c].pc \in {"updating", "activating"} => caller[c].got.grant # g
    <3>1. \A c \in Callers : caller[c].pc \in {"updating", "activating"} => caller[c].got # NoToken
      BY TokenFacts DEF IInv, Control, HasItsData
    <3>. QED  BY <1>2, <3>1 DEF Held
  <2>. QED  BY <1>1, <1>3, <2>1, <2>2 DEF IInv, TokenInv, FileFollows
<1>12. TokenNeverStranded'
  BY <1>1, <1>3 DEF TokenNeverStranded
<1>. QED  BY <1>7, <1>8, <1>9, <1>10, <1>11, <1>12 DEF TokenInv

\* A crash loses the tokens on their way; only the file keeps one.
LEMMA TokenCrash ==
  ASSUME IInv, Crash
  PROVE  TokenInv'
<1>1. /\ UNCHANGED <<file, latest>>
      /\ lost' = lost \cup {caller[c].got.grant : c \in {d \in Callers : caller[d].pc = "storing"}}
      /\ \A g \in Grants : flow'[g] = IF flow[g] = "open" THEN "open" ELSE "closed"
  BY DEF Crash
<1>2. \A c \in Callers : caller'[c].pc = "idle" /\ Held(c)' = {NoToken}
  BY DEF Crash, Idle, At, Held
<1>3. file \in Tokens /\ lost \subseteq Grants
  BY TokenTypes DEF IInv
<1>4. HeldCirculate'
  BY <1>1, <1>2, <1>3, TokenFacts DEF IInv, TokenInv, HeldCirculate, Circulating
<1>5. GrantedOnce'
  BY <1>1 DEF IInv, TokenInv, GrantedOnce
<1>6. NewestOnItsWay' /\ FileFollows'
  BY <1>2 DEF NewestOnItsWay, FileFollows
<1>7. \A g : OutOfReach(g) => OutOfReach(g)'
  BY <1>1, <1>2 DEF OutOfReach
<1>8. LostIsOutOfReach'
  <2>. SUFFICES ASSUME NEW g \in lost'
                PROVE  flow'[g] \in {"upserting", "closed"} /\ OutOfReach(g)'
    BY DEF LostIsOutOfReach
  <2>1. CASE g \in lost
    BY <1>1, <1>3, <1>7, <2>1 DEF IInv, TokenInv, LostIsOutOfReach
  <2>2. CASE g \notin lost
    <3>1. PICK c \in Callers : caller[c].pc = "storing" /\ g = caller[c].got.grant
      BY <1>1, <2>2
    <3>2. caller[c].got \in Tokens /\ caller[c].got # NoToken /\ g \in Grants
      BY <3>1, TokenFacts DEF IInv, Control, HasItsData
    <3>3. flow[g] \in {"upserting", "closed"}
      BY <3>1, <3>2 DEF Held, IInv, TokenInv, HeldCirculate, Circulating
    <3>4. OutOfReach(g)
      BY <3>1 DEF IInv, TokenInv, NewestOnItsWay
    <3>. QED  BY <1>1, <1>7, <3>2, <3>3, <3>4
  <2>. QED  BY <2>1, <2>2
<1>9. TokenNeverStranded'
  <2>1. CASE file.serial = latest[file.grant] \/ file.grant \in lost
    BY <1>1, <2>1 DEF TokenNeverStranded
  <2>2. ASSUME NEW c \in Callers, caller[c].pc = "storing",
               caller[c].got = [grant |-> file.grant, serial |-> latest[file.grant]]
        PROVE  TokenNeverStranded'
    <3>1. caller[c].got.grant = file.grant
      BY <2>2
    <3>. QED  BY <1>1, <2>2, <3>1 DEF TokenNeverStranded
  <2>. QED  BY <2>1, <2>2 DEF IInv, TokenInv, TokenNeverStranded
<1>. QED  BY <1>4, <1>5, <1>6, <1>8, <1>9 DEF TokenInv

\* Every step keeps TokenInv.
LEMMA TokenNext == IInv /\ [Next]_vars => TokenInv'
<1>. SUFFICES ASSUME IInv, [Next]_vars PROVE TokenInv'
  OBVIOUS
<1>1. CASE UNCHANGED vars
  <2>1. UNCHANGED <<file, latest, lost, flow, caller>>
    BY <1>1 DEF vars
  <2>2. Quiet
    BY <2>1, QuietSame DEF Quiet
  <2>. QED  BY <2>2, QuietStep
<1>2. CASE QuietAction
  BY <1>2, QuietActions, QuietStep DEF IInv
<1>3. CASE \/ \E r \in Requests : Lease(r)
           \/ \E c \in Callers : \/ ReadCredentials(c) \/ ProviderRefreshes(c) \/ AnswerLost(c)
                                 \/ StoreCredentials(c)
           \/ \E g \in Grants : GrantGiven(g) \/ StoreGrant(g)
           \/ Crash
  BY <1>3, TokenLease, TokenReadCredentials, TokenProviderRefreshes, TokenAnswerLost,
     TokenStoreCredentials, TokenGrantGiven, TokenStoreGrant, TokenCrash
<1>. QED  BY <1>1, <1>2, <1>3 DEF Next, RefreshStep, QuietAction
-----------------------------------------------------------------------------
\* Who runs a refresh and where the tokens of a grant may be: the invariant of
\* both parts, kept by every step of requests, job, operator, provider and crash.
THEOREM AccountsInvariant == Spec => []IInv
<1>1. Init => IInv
  BY ControlInit, TokenInit DEF IInv
<1>2. IInv /\ [Next]_vars => IInv'
  BY ControlNext, TokenNext DEF IInv
<1>. QED  BY <1>1, <1>2, PTL DEF Spec

\* Whatever _doRefresh, completeAuthFlow and deletions overlap, the file keeps
\* the token the provider takes, unless it is on its way or was lost on its way.
THEOREM NoTokenStranded == Spec => []TokenNeverStranded
<1>1. IInv => TokenNeverStranded
  BY DEF IInv, TokenInv
<1>. QED  BY <1>1, AccountsInvariant, PTL

\* getCredentials after a refresh leases what the refresh obtained or something
\* newer, also for a request that only joined the refresh of another.
THEOREM LeaseAfterRefresh == Spec => []RefreshedLeaseIsNew
<1>1. IInv => RefreshedLeaseIsNew
  BY CallerFacts DEF IInv, TokenInv, FileFollows, RefreshedLeaseIsNew
<1>. QED  BY <1>1, AccountsInvariant, PTL

-----------------------------------------------------------------------------
(* ------------------------- the lists of the pages ------------------------ *)

\* The requests of a method that lists a table.
ListSteps == {"list", "write", "mint"}

\* A request has the fields its handlers change.
ShapeOf(c) ==
  /\ c.kind # "mint" => {"kind", "state", "answer"} \subseteq DOMAIN c
  /\ c.kind \in ListSteps => {"kind", "state", "writes"} \subseteq DOMAIN c
  /\ c.kind \in Steps => {"left", "at", "provider"} \subseteq DOMAIN c

\* A table has finitely many rows.
TableOK(t) == IsFiniteSet(DOMAIN t) /\ DOMAIN t \subseteq Rows

\* The answer with a list is the table as it was after so many changes.
RequestOK(c) ==
  /\ c.kind \in Steps \cup ListSteps /\ c.state \in {"sent", "changed", "answered"}
  /\ ShapeOf(c)
  /\ c.kind \in ListSteps => c.writes \in Int /\ c.writes <= writes
  /\ c.kind = "list" /\ c.state = "answered" /\ c.answer # Null =>
       TableOK(c.answer) /\ (c.writes = writes => c.answer = table)

\* A request of a method that made the newest change or listed since.
Promises(c) == c.kind \in ListSteps /\ c.writes = writes

\* The newest change has been shown, or missed, or its method is under way still.
ListsInv ==
  /\ IsABag(requests) /\ \A c \in BagToSet(requests) : RequestOK(c)
  /\ writes \in Nat
  /\ listWrites \in Int /\ shownWrites \in Int /\ missed \in Int
  /\ listWrites <= writes /\ shownWrites <= writes /\ missed <= writes
  /\ TableOK(table) /\ TableOK(list)
  /\ listWrites = writes /\ ~listFailed => list = table
  /\ \/ shownWrites = writes \/ missed = writes
     \/ \E c \in BagToSet(requests) : Promises(c)

LEMMA MaxOfTwo ==
  ASSUME NEW a \in Int, NEW b \in Int
  PROVE  Max({a, b}) = IF a >= b THEN a ELSE b
<1>1. ASSUME NEW x \in Int, NEW y \in Int, x >= y  PROVE Max({x, y}) = x
  BY <1>1 DEF Max
<1>2. {a, b} = {b, a}
  OBVIOUS
<1>. QED  BY <1>1, <1>2

\* One copy of a request fewer: the others stay.
LEMMA EndedKeeps ==
  ASSUME NEW c, IsABag(requests)
  PROVE  /\ IsABag(Ended(c))
         /\ BagToSet(Ended(c)) \subseteq BagToSet(requests)
         /\ BagToSet(requests) \ {c} \subseteq BagToSet(Ended(c))
<1>. DEFINE left == [e \in DOMAIN requests |-> IF e = c THEN requests[e] - 1 ELSE requests[e]]
<1>1. Ended(c) = [e \in {d \in DOMAIN left : left[d] > 0} |-> left[e]]
  BY DEF Ended, (-), SetToBag
<1>2. \A e \in DOMAIN requests : requests[e] \in Nat /\ requests[e] > 0
  BY DEF IsABag
<1>. QED  BY <1>1, <1>2 DEF IsABag, BagToSet

\* One request more.
LEMMA AddedTo ==
  ASSUME NEW B, IsABag(B), NEW d
  PROVE  IsABag(B (+) SetToBag({d})) /\ BagToSet(B (+) SetToBag({d})) = BagToSet(B) \cup {d}
<1>1. \A e \in DOMAIN B : B[e] \in Nat /\ B[e] > 0
  BY DEF IsABag
<1>. QED  BY <1>1 DEF IsABag, BagToSet, SetToBag, (+)

ListsKept == UNCHANGED <<table, writes, list, listFailed, listWrites, shownWrites, missed>>

LEMMA SameRequests ==
  ASSUME UNCHANGED <<table, writes>>
  PROVE  \A x : RequestOK(x)' = RequestOK(x) /\ Promises(x)' = Promises(x)
BY DEF RequestOK, Promises, ShapeOf

\* A request of the operator's.
LEMMA Sends ==
  ASSUME ListsInv, ListsKept, NEW d, RequestOK(d), Send(d)
  PROVE  ListsInv'
<1>1. IsABag(requests') /\ BagToSet(requests') = BagToSet(requests) \cup {d}
  BY AddedTo DEF Send, ListsInv
<1>2. \A x : RequestOK(x)' = RequestOK(x) /\ Promises(x)' = Promises(x)
  BY SameRequests DEF ListsKept
<1>. QED  BY <1>1, <1>2 DEF ListsInv, ListsKept

\* The requests when one gives way to another.
LEMMA ThenAdds ==
  ASSUME IsABag(requests), NEW c \in BagToSet(requests), NEW d, requests' = Then(c, d)
  PROVE  /\ IsABag(requests')
         /\ BagToSet(requests') \subseteq BagToSet(requests) \cup {d}
         /\ BagToSet(requests) \ {c} \subseteq BagToSet(requests') /\ d \in BagToSet(requests')
BY EndedKeeps, AddedTo DEF Then

\* A request gives way to the next of its chain, which promises what it did.
LEMMA GoesOn ==
  ASSUME ListsInv, ListsKept, NEW c \in BagToSet(requests), NEW d, RequestOK(d),
         Promises(c) => Promises(d), requests' = Then(c, d)
  PROVE  ListsInv'
<1>1. /\ IsABag(requests')
      /\ BagToSet(requests') \subseteq BagToSet(requests) \cup {d}
      /\ BagToSet(requests) \ {c} \subseteq BagToSet(requests') /\ d \in BagToSet(requests')
  BY ThenAdds DEF ListsInv
<1>2. \A x : RequestOK(x)' = RequestOK(x) /\ Promises(x)' = Promises(x)
  BY SameRequests DEF ListsKept
<1>. QED  BY <1>1, <1>2 DEF ListsInv, ListsKept

\* A chain ends that promised nothing.
LEMMA Ends ==
  ASSUME ListsInv, ListsKept, NEW c \in BagToSet(requests), ~Promises(c), requests' = Ended(c)
  PROVE  ListsInv'
<1>1. /\ IsABag(requests')
      /\ BagToSet(requests') \subseteq BagToSet(requests)
      /\ BagToSet(requests) \ {c} \subseteq BagToSet(requests')
  BY EndedKeeps DEF ListsInv
<1>2. \A x : RequestOK(x)' = RequestOK(x) /\ Promises(x)' = Promises(x)
  BY SameRequests DEF ListsKept
<1>. QED  BY <1>1, <1>2 DEF ListsInv, ListsKept

\* A method ends without its list, and what it promised counts as missed.
LEMMA EndsMissing ==
  ASSUME ListsInv, UNCHANGED <<table, writes, list, listFailed, listWrites, shownWrites>>,
         NEW c \in BagToSet(requests), c.kind \in ListSteps, requests' = Ended(c), Misses(c)
  PROVE  ListsInv'
<1>1. /\ IsABag(requests')
      /\ BagToSet(requests') \subseteq BagToSet(requests)
      /\ BagToSet(requests) \ {c} \subseteq BagToSet(requests')
  BY EndedKeeps DEF ListsInv
<1>2. \A x : RequestOK(x)' = RequestOK(x) /\ Promises(x)' = Promises(x)
  BY SameRequests
<1>3. /\ missed \in Int /\ c.writes \in Int /\ writes \in Int
      /\ missed <= writes /\ c.writes <= writes
  BY DEF ListsInv, RequestOK
<1>4. missed' = IF missed >= c.writes THEN missed ELSE c.writes
  BY <1>3, MaxOfTwo DEF Misses
<1>5. missed' \in Int /\ missed' <= writes /\ (missed = writes \/ c.writes = writes => missed' = writes)
  BY <1>3, <1>4
<1>. QED  BY <1>1, <1>2, <1>5 DEF ListsInv, Promises

\* The table changes, and the method that changed it promises a list.
LEMMA Changes ==
  ASSUME ListsInv, NEW c \in BagToSet(requests), NEW d, requests' = Then(c, d),
         TableOK(table'), writes' = writes + 1, d.kind = "write", d.writes = writes + 1,
         d.state \in {"sent", "changed", "answered"}, ShapeOf(d),
         UNCHANGED <<list, listFailed, listWrites, shownWrites, missed>>
  PROVE  ListsInv'
<1>1. /\ IsABag(requests') /\ d \in BagToSet(requests')
      /\ BagToSet(requests') \subseteq BagToSet(requests) \cup {d}
  BY ThenAdds DEF ListsInv
<1>2. writes \in Nat /\ writes' \in Nat /\ writes + 1 \in Int
  BY DEF ListsInv
<1>3. \A x \in BagToSet(requests') : RequestOK(x)'
  <2>. SUFFICES ASSUME NEW x \in BagToSet(requests') PROVE RequestOK(x)'
    OBVIOUS
  <2>1. CASE x = d
    BY <2>1, <1>2 DEF RequestOK, ListSteps, ShapeOf
  <2>2. CASE x \in BagToSet(requests)
    <3>1. RequestOK(x)
      BY <2>2 DEF ListsInv
    <3>2. x.kind \in ListSteps => x.writes \in Int /\ x.writes <= writes' /\ x.writes # writes'
      BY <3>1, <1>2 DEF RequestOK
    <3>3. x.kind = "list" => x.kind \in ListSteps
      BY DEF ListSteps
    <3>. QED  BY <3>1, <3>2, <3>3 DEF RequestOK, ShapeOf
  <2>. QED  BY <1>1, <2>1, <2>2
<1>4. Promises(d)'
  BY DEF Promises, ListSteps
<1>5. listWrites # writes' /\ listWrites <= writes' /\ shownWrites <= writes' /\ missed <= writes'
  BY <1>2 DEF ListsInv
<1>. QED  BY <1>1, <1>2, <1>3, <1>4, <1>5 DEF ListsInv

LEMMA GetListOK ==
  ASSUME writes \in Nat, NEW n \in Int, n <= writes
  PROVE  RequestOK(GetList(n)) /\ (n = writes => Promises(GetList(n)))
BY DEF GetList, RequestOK, Promises, ShapeOf, Steps, SaveSteps, ListSteps

\* A change leaves the table finite.
LEMMA ChangedTable ==
  ASSUME TableOK(table), NEW c, NEW r, Changed(c, r) \/ table' = WithoutRow(r)
  PROVE  TableOK(table')
<1>1. IsFiniteSet(DOMAIN table \cup {r}) /\ IsFiniteSet(DOMAIN table \ {r})
  BY FS_AddElement, FS_RemoveElement DEF TableOK
<1>2. CASE Created(c, r)
  BY <1>1, <1>2 DEF Created, With, TableOK
<1>3. CASE Updated(c, r)
  BY <1>1, <1>3 DEF Updated, With, TableOK
<1>4. CASE table' = WithoutRow(r)
  BY <1>1, <1>4 DEF WithoutRow, TableOK
<1>. QED  BY <1>2, <1>3, <1>4 DEF Changed, Removed

\* A write that goes on, or is answered.
LEMMA WriteMoves ==
  ASSUME NEW c, RequestOK(c), c.kind = "write"
  PROVE  \A s \in {"changed", "answered"} : \A a :
           /\ RequestOK([c EXCEPT !.state = s, !.answer = a])
           /\ Promises([c EXCEPT !.state = s, !.answer = a]) <=> Promises(c)
<1>1. {"kind", "state", "answer", "writes"} \subseteq DOMAIN c
  BY DEF RequestOK, ShapeOf, ListSteps
<1>. SUFFICES ASSUME NEW s \in {"changed", "answered"}, NEW a
              PROVE  /\ RequestOK([c EXCEPT !.state = s, !.answer = a])
                     /\ Promises([c EXCEPT !.state = s, !.answer = a]) <=> Promises(c)
  OBVIOUS
<1>. DEFINE d == [c EXCEPT !.state = s, !.answer = a]
<1>2. /\ d.kind = "write" /\ d.state = s /\ d.writes = c.writes /\ ShapeOf(d)
  BY <1>1 DEF ShapeOf, Steps, SaveSteps, ListSteps
<1>. HIDE DEF d
<1>. QED  BY <1>2 DEF RequestOK, Promises, ListSteps, d

\* The gateway serves a write: a list asked for from now on has it.
LEMMA ServeWriteStep ==
  ASSUME ListsInv, NEW c \in BagToSet(requests), ServeWrite(c)
  PROVE  ListsInv'
<1>1. /\ c.kind = "write" /\ RequestOK(c) /\ writes \in Nat
      /\ UNCHANGED <<list, listFailed, listWrites, shownWrites, missed>>
  BY DEF ServeWrite, ListsInv
<1>. DEFINE no == [c EXCEPT !.state = "answered", !.answer = "error"]
<1>2. CASE requests' = Then(c, no) /\ UNCHANGED <<table, writes>>
  <2>1. RequestOK(no) /\ (Promises(c) => Promises(no))
    BY <1>1, WriteMoves
  <2>. HIDE DEF no
  <2>. QED  BY <1>1, <1>2, <2>1, GoesOn DEF ListsKept
<1>3. CASE /\ writes' = writes + 1
           /\ \E r \in Rows \cup {c.row} :
                /\ Changed(c, r)
                /\ requests' = Then(c, [c EXCEPT !.row = r, !.writes = writes + 1, !.answer = "ok",
                                        !.state = IF GoesOnAfter(c) THEN "changed" ELSE "answered"])
  <2>1. PICK r \in Rows \cup {c.row} :
          /\ Changed(c, r)
          /\ requests' = Then(c, [c EXCEPT !.row = r, !.writes = writes + 1, !.answer = "ok",
                                  !.state = IF GoesOnAfter(c) THEN "changed" ELSE "answered"])
    BY <1>3
  <2>. DEFINE s == IF GoesOnAfter(c) THEN "changed" ELSE "answered"
              d == [c EXCEPT !.row = r, !.writes = writes + 1, !.answer = "ok", !.state = s]
  <2>2. {"kind", "state", "answer", "writes"} \subseteq DOMAIN c
    BY <1>1 DEF RequestOK, ShapeOf, ListSteps
  <2>3. s \in {"changed", "answered"}
    OBVIOUS
  <2>4. requests' = Then(c, d)
    BY <2>1
  <2>. HIDE DEF s
  <2>5. /\ d.kind = "write" /\ d.writes = writes + 1 /\ d.state = s /\ ShapeOf(d)
    BY <1>1, <2>2 DEF ShapeOf, Steps, SaveSteps, ListSteps
  <2>6. TableOK(table')
    BY <2>1, ChangedTable DEF ListsInv
  <2>. HIDE DEF d
  <2>. QED  BY <1>1, <1>3, <2>3, <2>4, <2>5, <2>6, Changes
<1>. QED  BY <1>2, <1>3 DEF ServeWrite

\* The handler ends, with the row changed or, once more, deleted.
LEMMA FinishWriteStep ==
  ASSUME ListsInv, NEW c \in BagToSet(requests), FinishWrite(c)
  PROVE  ListsInv'
<1>1. /\ c.kind = "write" /\ RequestOK(c) /\ writes \in Nat
      /\ UNCHANGED <<list, listFailed, listWrites, shownWrites, missed>>
  BY DEF FinishWrite, ListsInv
<1>2. ASSUME UNCHANGED <<table, writes>>, NEW answer,
             requests' = Then(c, [c EXCEPT !.state = "answered", !.answer = answer])
      PROVE  ListsInv'
  <2>. DEFINE d == [c EXCEPT !.state = "answered", !.answer = answer]
  <2>1. RequestOK(d) /\ (Promises(c) => Promises(d))
    BY <1>1, WriteMoves
  <2>2. requests' = Then(c, d)
    BY <1>2
  <2>. HIDE DEF d
  <2>. QED  BY <1>1, <1>2, <2>1, <2>2, GoesOn DEF ListsKept
<1>. DEFINE d == [c EXCEPT !.state = "answered", !.answer = "error", !.writes = writes + 1]
<1>3. CASE writes' = writes + 1 /\ table' = WithoutRow(c.row) /\ requests' = Then(c, d)
  <2>1. {"kind", "state", "answer", "writes"} \subseteq DOMAIN c
    BY <1>1 DEF RequestOK, ShapeOf, ListSteps
  <2>2. /\ d.kind = "write" /\ d.writes = writes + 1 /\ d.state = "answered" /\ ShapeOf(d)
    BY <1>1, <2>1 DEF ShapeOf, Steps, SaveSteps, ListSteps
  <2>3. TableOK(table')
    BY <1>3, ChangedTable DEF ListsInv
  <2>. HIDE DEF d
  <2>. QED  BY <1>1, <1>3, <2>2, <2>3, Changes
<1>. QED  BY <1>2, <1>3 DEF FinishWrite

\* The gateway lists: the answer is the table of this moment, or an error.
LEMMA ServeListStep ==
  ASSUME ListsInv, NEW c \in BagToSet(requests), ServeList(c)
  PROVE  ListsInv'
<1>1. PICK a \in {table, Null} :
        requests' = Then(c, [c EXCEPT !.state = "answered", !.answer = a, !.writes = writes])
  BY DEF ServeList
<1>. DEFINE d == [c EXCEPT !.state = "answered", !.answer = a, !.writes = writes]
<1>2. c.kind = "list" /\ {"kind", "state", "answer", "writes"} \subseteq DOMAIN c
  BY DEF ServeList, ListsInv, RequestOK, ShapeOf, ListSteps
<1>3. /\ d.kind = "list" /\ d.state = "answered" /\ d.answer = a /\ d.writes = writes
      /\ ShapeOf(d)
  BY <1>2 DEF ShapeOf, Steps, SaveSteps, ListSteps
<1>4. requests' = Then(c, d) /\ ListsKept
  BY <1>1 DEF ServeList, listVars, history, ListsKept
<1>. HIDE DEF d
<1>5. RequestOK(d) /\ Promises(d)
  BY <1>3 DEF RequestOK, Promises, ListsInv, ListSteps
<1>. QED  BY <1>4, <1>5, GoesOn

\* The answer to a write: one the method goes on with is followed by a list.
LEMMA TakeWriteStep ==
  ASSUME ListsInv, NEW c \in BagToSet(requests), TakeWrite(c)
  PROVE  ListsInv'
<1>. DEFINE mint == [kind |-> "mint", state |-> "sent", writes |-> c.writes]
<1>1. /\ UNCHANGED <<table, writes, list, listFailed, listWrites, shownWrites>>
      /\ c.kind = "write" /\ c.kind \in ListSteps /\ RequestOK(c) /\ writes \in Nat
      /\ c.writes \in Int /\ c.writes <= writes
  BY DEF TakeWrite, ListsInv, RequestOK, ListSteps
<1>2. CASE ~Goes(c)
  BY <1>1, <1>2, EndsMissing DEF TakeWrite
<1>3. CASE Goes(c) /\ c.mint
  <2>1. RequestOK(mint) /\ (Promises(c) => Promises(mint))
    BY <1>1 DEF RequestOK, Promises, ShapeOf, Steps, SaveSteps, ListSteps
  <2>2. requests' = Then(c, mint) /\ UNCHANGED missed
    BY <1>3 DEF TakeWrite
  <2>. HIDE DEF mint
  <2>. QED  BY <1>1, <2>1, <2>2, GoesOn DEF ListsKept
<1>4. CASE Goes(c) /\ ~c.mint
  <2>1. requests' = Then(c, GetList(c.writes)) /\ UNCHANGED missed
    BY <1>4 DEF TakeWrite, Reload
  <2>2. RequestOK(GetList(c.writes)) /\ (Promises(c) => Promises(GetList(c.writes)))
    BY <1>1, GetListOK DEF Promises
  <2>. QED  BY <1>1, <2>1, <2>2, GoesOn DEF ListsKept
<1>. QED  BY <1>2, <1>3, <1>4

\* A list arrives: what it had seen is what the page has shown.
LEMMA TakeListStep ==
  ASSUME ListsInv, NEW c \in BagToSet(requests), TakeList(c)
  PROVE  ListsInv'
<1>1. /\ c.kind = "list" /\ c.state = "answered" /\ RequestOK(c)
      /\ list' = IF c.answer = Null THEN <<>> ELSE c.answer
      /\ listFailed' = (c.answer = Null) /\ listWrites' = c.writes
      /\ shownWrites' = Max({shownWrites, c.writes})
      /\ requests' = Ended(c) /\ UNCHANGED <<table, writes, missed>>
  BY DEF TakeList, ListsInv
<1>2. /\ writes \in Nat /\ shownWrites \in Int /\ shownWrites <= writes
      /\ c.writes \in Int /\ c.writes <= writes
  BY <1>1 DEF ListsInv, RequestOK, ListSteps
<1>3. shownWrites' = IF shownWrites >= c.writes THEN shownWrites ELSE c.writes
  BY <1>1, <1>2, MaxOfTwo
<1>4. /\ IsABag(requests')
      /\ BagToSet(requests') \subseteq BagToSet(requests)
      /\ BagToSet(requests) \ {c} \subseteq BagToSet(requests')
  BY <1>1, EndedKeeps DEF ListsInv
<1>5. \A x : RequestOK(x)' = RequestOK(x) /\ Promises(x)' = Promises(x)
  BY <1>1, SameRequests
<1>6. TableOK(list')
  <2>1. DOMAIN <<>> = {}
    OBVIOUS
  <2>2. TableOK(<<>>)
    BY <2>1, FS_EmptySet DEF TableOK
  <2>. QED  BY <1>1, <2>2 DEF RequestOK
<1>7. listWrites' = writes' /\ ~listFailed' => list' = table'
  BY <1>1 DEF RequestOK
<1>8. /\ shownWrites' \in Int /\ shownWrites' <= writes
      /\ shownWrites = writes \/ Promises(c) => shownWrites' = writes
  BY <1>2, <1>3 DEF Promises
<1>. QED  BY <1>1, <1>2, <1>4, <1>5, <1>6, <1>7, <1>8 DEF ListsInv

\* The router signs a key, and the keys are listed, or refuses.
LEMMA MintStep ==
  ASSUME ListsInv, NEW c \in BagToSet(requests), MintUserKey(c)
  PROVE  ListsInv'
<1>1. /\ UNCHANGED <<table, writes, list, listFailed, listWrites, shownWrites>>
      /\ c.kind \in ListSteps /\ writes \in Nat /\ c.writes \in Int /\ c.writes <= writes
  BY DEF MintUserKey, ListsInv, RequestOK, ListSteps
<1>2. CASE requests' = Reload(c) /\ UNCHANGED missed
  <2>1. RequestOK(GetList(c.writes)) /\ (Promises(c) => Promises(GetList(c.writes)))
    BY <1>1, GetListOK DEF Promises
  <2>. QED  BY <1>1, <1>2, <2>1, GoesOn DEF ListsKept, Reload
<1>3. CASE requests' = Ended(c) /\ Misses(c)
  BY <1>1, <1>3, EndsMissing
<1>. QED  BY <1>2, <1>3 DEF MintUserKey

LEMMA LoseStep ==
  ASSUME ListsInv, NEW c \in BagToSet(requests), Lose(c)
  PROVE  ListsInv'
<1>1. /\ UNCHANGED <<table, writes, list, listFailed, listWrites, shownWrites>>
      /\ requests' = Ended(c) /\ c.kind # "mint"
  BY DEF Lose
<1>2. CASE c.kind \in {"list", "write"}
  BY <1>1, <1>2, EndsMissing DEF Lose, ListSteps
<1>3. CASE c.kind \notin {"list", "write"}
  <2>1. ~Promises(c) /\ UNCHANGED missed
    BY <1>1, <1>3 DEF Lose, Promises, ListSteps
  <2>. QED  BY <1>1, <2>1, Ends DEF ListsKept
<1>. QED  BY <1>2, <1>3

\* The composer's requests promise nothing; the last of a save is followed by a list.
LEMMA ComposerRequestOK ==
  ASSUME NEW kind \in Steps, NEW p
  PROVE  RequestOK(ComposerRequest(kind, p)) /\ ~Promises(ComposerRequest(kind, p))
BY DEF ComposerRequest, RequestOK, Promises, ShapeOf, Steps, SaveSteps, ListSteps

LEMMA StepChanged ==
  ASSUME NEW c, RequestOK(c), c.kind \in Steps
  PROVE  /\ ~Promises(c)
         /\ \A a : RequestOK([c EXCEPT !.state = "answered", !.answer = a])
         /\ \A l : RequestOK([c EXCEPT !.left = l])
         /\ \A n, a : RequestOK([c EXCEPT !.at = n, !.answer = a])
<1>1. /\ {"kind", "state", "answer", "left", "at"} \subseteq DOMAIN c
      /\ c.state \in {"sent", "changed", "answered"} /\ c.kind # "list"
      /\ c.kind \notin ListSteps
  BY DEF RequestOK, ShapeOf, Steps, SaveSteps, ListSteps
<1>2. ASSUME NEW a  PROVE RequestOK([c EXCEPT !.state = "answered", !.answer = a])
  BY <1>1 DEF RequestOK, ShapeOf
<1>3. ASSUME NEW l  PROVE RequestOK([c EXCEPT !.left = l])
  BY <1>1 DEF RequestOK, ShapeOf
<1>4. ASSUME NEW n, NEW a  PROVE RequestOK([c EXCEPT !.at = n, !.answer = a])
  BY <1>1 DEF RequestOK, ShapeOf
<1>5. ~Promises(c)
  BY <1>1 DEF Promises
<1>. QED  BY <1>2, <1>3, <1>4, <1>5

LEMMA ServeStepStep ==
  ASSUME ListsInv, NEW c \in BagToSet(requests), ServeStep(c)
  PROVE  ListsInv'
<1>. DEFINE answer == IF c.kind \in {"open", "current"} THEN BindingsOf(c.provider) ELSE c.answer
            d == [c EXCEPT !.state = "answered", !.answer = answer]
<1>1. requests' = Then(c, d) /\ ListsKept /\ c.kind \in Steps
  BY DEF ServeStep, Compose, listVars, history, ListsKept, Steps, SaveSteps
<1>2. RequestOK(d) /\ ~Promises(c)
  <2>1. RequestOK(c)
    BY DEF ListsInv
  <2>. HIDE DEF answer
  <2>. QED  BY <1>1, <2>1, StepChanged
<1>. QED  BY <1>1, <1>2, GoesOn

LEMMA RefuseStepStep ==
  ASSUME ListsInv, NEW c \in BagToSet(requests), RefuseStep(c)
  PROVE  ListsInv'
<1>. DEFINE d == [c EXCEPT !.state = "answered"]
<1>1. requests' = Then(c, d) /\ ListsKept /\ c.kind \in Steps /\ RequestOK(c)
  BY DEF RefuseStep, Compose, listVars, history, ListsKept, ListsInv
<1>2. d = [c EXCEPT !.state = "answered", !.answer = c.answer]
  BY <1>1 DEF RequestOK, ShapeOf, Steps, SaveSteps
<1>. HIDE DEF d
<1>3. RequestOK(d) /\ ~Promises(c)
  BY <1>1, <1>2, StepChanged
<1>. QED  BY <1>1, <1>3, GoesOn

LEMMA GoOnStep ==
  ASSUME ListsInv, NEW c \in BagToSet(requests), c.kind \in Steps, ListsKept,
         NEW left, NEW at, GoOn(c, left, at)
  PROVE  ListsInv'
<1>. DEFINE del(l) == [ComposerRequest("delete", c.provider) EXCEPT !.left = l]
            ups(n, a) == [ComposerRequest("upsert", c.provider) EXCEPT !.at = n, !.answer = a]
<1>1. /\ \A l : RequestOK(del(l))
      /\ \A n, a : RequestOK(ups(n, a))
  <2>1. /\ RequestOK(ComposerRequest("delete", c.provider))
        /\ RequestOK(ComposerRequest("upsert", c.provider))
    BY ComposerRequestOK DEF Steps, SaveSteps
  <2>2. /\ ComposerRequest("delete", c.provider).kind \in Steps
        /\ ComposerRequest("upsert", c.provider).kind \in Steps
    BY DEF ComposerRequest, Steps, SaveSteps
  <2>. QED  BY <2>1, <2>2, StepChanged
<1>2. ~Promises(c)
  BY StepChanged DEF ListsInv
<1>3. \/ \E l : requests' = Then(c, del(l))
      \/ \E n, a : requests' = Then(c, ups(n, a))
      \/ requests' = Then(c, GetList(NoWrite))
  BY DEF GoOn
<1>. HIDE DEF del, ups
<1>4. RequestOK(GetList(NoWrite))
  BY GetListOK DEF ListsInv, NoWrite
<1>. QED  BY <1>1, <1>2, <1>3, <1>4, GoesOn

LEMMA TakeStepStep ==
  ASSUME ListsInv, NEW c \in BagToSet(requests), TakeStep(c)
  PROVE  ListsInv'
<1>1. ListsKept /\ c.kind \in SaveSteps /\ c.kind \in Steps
  BY DEF TakeStep, Compose, listVars, history, ListsKept, Steps, SaveSteps
<1>2. CASE c.kind = "patch"
  <2>1. requests' = Then(c, ComposerRequest("current", c.provider))
    BY <1>2 DEF TakeStep, Compose
  <2>2. RequestOK(ComposerRequest("current", c.provider))
    BY ComposerRequestOK DEF Steps, SaveSteps
  <2>3. ~Promises(c)
    BY <1>2 DEF Promises, ListSteps
  <2>. QED  BY <1>1, <2>1, <2>2, <2>3, GoesOn
<1>3. CASE c.kind = "current"
  BY <1>1, <1>3, GoOnStep DEF TakeStep, Compose
<1>4. CASE c.kind = "delete"
  BY <1>1, <1>4, GoOnStep DEF TakeStep, Compose
<1>5. CASE c.kind = "upsert"
  BY <1>1, <1>5, GoOnStep DEF TakeStep, Compose
<1>. QED  BY <1>1, <1>2, <1>3, <1>4, <1>5 DEF SaveSteps

LEMMA TakeOpenedStep ==
  ASSUME ListsInv, NEW c \in BagToSet(requests), TakeOpened(c)
  PROVE  ListsInv'
<1>1. requests' = Ended(c) /\ ListsKept /\ ~Promises(c)
  BY DEF TakeOpened, Compose, listVars, history, ListsKept, Promises, ListSteps
<1>. QED  BY <1>1, Ends

\* A click sends a request of its method, or changes what the page shows only.
LEMMA ClickStep ==
  ASSUME ListsInv, \/ ProviderPage \/ ModelPage \/ TierPage \/ KeyPage \/ RulePage
                   \/ MiddlewarePage \/ ComposerPage \/ \E g \in Groups : ToggleGroup(g)
  PROVE  ListsInv'
<1>1. ASSUME ListsKept, UNCHANGED requests  PROVE ListsInv'
  BY <1>1, SameRequests DEF ListsKept, ListsInv
<1>2. ASSUME NEW p, NEW write, NEW row, NEW value, NEW checked,
             Change(p, write, row, value, checked)
      PROVE  ListsInv'
  <2>1. RequestOK(Write(write, row, value, checked, FALSE, FALSE))
    BY DEF RequestOK, ShapeOf, Write, Steps, SaveSteps, ListSteps, NoWrite, ListsInv
  <2>. QED  BY <1>2, <2>1, Sends DEF Change, listVars, history, ListsKept
<1>3. ASSUME NEW p, NEW value, NEW checked, NEW mint, SaveForm(p, value, checked, mint)
      PROVE  ListsInv'
  <2>1. \A write, row, m : RequestOK(Write(write, row, value, checked, TRUE, m))
    BY DEF RequestOK, ShapeOf, Write, Steps, SaveSteps, ListSteps, NoWrite, ListsInv
  <2>. QED  BY <1>3, <2>1, Sends DEF SaveForm, listVars, history, ListsKept
<1>4. ASSUME NEW p, NEW row, OpenForm(p, row)  PROVE ListsInv'
  BY <1>1, <1>4 DEF OpenForm, history, ListsKept
<1>5. ASSUME NEW p, ListPage(p)  PROVE ListsInv'
  <2>1. RequestOK(GetList(writes))
    BY GetListOK DEF ListsInv
  <2>. QED  BY <1>5, <2>1, Sends DEF ListPage, listVars, history, ListsKept
<1>6. ASSUME NEW p, OpenComposer(p)  PROVE ListsInv'
  BY <1>6, ComposerRequestOK, Sends DEF OpenComposer, Compose, listVars, history, ListsKept, Steps, SaveSteps
<1>7. ASSUME SaveComposer  PROVE ListsInv'
  BY <1>7, ComposerRequestOK, Sends DEF SaveComposer, Compose, listVars, history, ListsKept, Steps, SaveSteps
<1>8. ASSUME NEW items, Edit(items)  PROVE ListsInv'
  BY <1>1, <1>8 DEF Edit, Compose, listVars, history, ListsKept
<1>9. ASSUME CloseComposer  PROVE ListsInv'
  BY <1>1, <1>9 DEF CloseComposer, Compose, listVars, history, ListsKept
<1>10. ASSUME FilterEnabled \/ \E g \in Groups : ToggleGroup(g)  PROVE ListsInv'
  BY <1>1, <1>10 DEF FilterEnabled, ToggleGroup, listVars, history, ListsKept
<1>11. CASE ProviderPage
  BY <1>2, <1>3, <1>4, <1>5, <1>11 DEF ProviderPage, ListProviders, NewProvider,
     CreateProvider, SyncModels, SaveProvider, EditProvider, RemoveProvider
<1>12. CASE ModelPage
  BY <1>2, <1>3, <1>4, <1>5, <1>10, <1>12 DEF ModelPage, ListModels, NewModel,
     CreateNewModel, SaveModel, EditModel, ToggleModel, ToggleFree, DeleteModel
<1>13. CASE TierPage
  BY <1>2, <1>3, <1>4, <1>5, <1>13 DEF TierPage, ListTiers, NewTier, SaveTier, EditTier,
     RemoveTier, ToggleTier
<1>14. CASE KeyPage
  BY <1>2, <1>3, <1>4, <1>5, <1>14 DEF KeyPage, ListKeys, NewKey, SubmitCreateKey, SaveKey,
     EditKey, RevokeKey, ResetBudget
<1>15. CASE RulePage
  BY <1>2, <1>3, <1>4, <1>5, <1>15 DEF RulePage, ListRules, NewRule, SaveRule, EditRule,
     ToggleRule, RemoveRule
<1>16. CASE MiddlewarePage
  BY <1>2, <1>5, <1>16 DEF MiddlewarePage, ListMiddlewares, Rescan
<1>17. CASE ComposerPage
  BY <1>6, <1>7, <1>8, <1>9, <1>17 DEF ComposerPage, AddMiddleware, RemoveMiddleware,
     MoveMiddleware
<1>. QED  BY <1>10, <1>11, <1>12, <1>13, <1>14, <1>15, <1>16, <1>17

LEMMA ListsInit == AdminInit => ListsInv
<1>. SUFFICES ASSUME AdminInit PROVE ListsInv
  OBVIOUS
<1>1. requests = [c \in {GetList(0)} |-> 2]
  BY DEF AdminInit
<1>2. IsABag(requests) /\ BagToSet(requests) = {GetList(0)}
  BY <1>1 DEF IsABag, BagToSet
<1>3. writes = 0 /\ listWrites = 0 - 1 /\ shownWrites = 0 - 1 /\ missed = 0 - 1
  BY DEF AdminInit, NoWrite
<1>5. RequestOK(GetList(0)) /\ Promises(GetList(0))
  BY <1>3, GetListOK
<1>4. TableOK(table) /\ TableOK(list)
  <2>1. DOMAIN <<>> = {}
    OBVIOUS
  <2>. QED  BY <2>1, FS_EmptySet, TablesAssumption DEF AdminInit, TableOK
<1>. QED  BY <1>2, <1>3, <1>4, <1>5 DEF ListsInv

LEMMA ListsNext == ListsInv /\ [AdminNext]_adminVars => ListsInv'
<1>. SUFFICES ASSUME ListsInv, [AdminNext]_adminVars PROVE ListsInv'
  OBVIOUS
<1>1. ASSUME NEW c \in BagToSet(requests), Served(c)  PROVE ListsInv'
  BY <1>1, ServeWriteStep, FinishWriteStep, ServeListStep, ServeStepStep, RefuseStepStep
     DEF Served
<1>2. ASSUME NEW c \in BagToSet(requests), Answered(c)  PROVE ListsInv'
  BY <1>2, TakeWriteStep, TakeListStep, TakeOpenedStep, TakeStepStep, MintStep DEF Answered
<1>3. CASE UNCHANGED adminVars
  BY <1>3, SameRequests DEF adminVars, listVars, history, ListsInv
<1>. QED  BY <1>1, <1>2, <1>3, LoseStep, ClickStep DEF AdminNext

(* ------------------------------- ranks ---------------------------------- *)

\* A total order on a finite set gives its elements the ranks from 1 on.
LEMMA Ranks ==
  ASSUME NEW S, IsFiniteSet(S), NEW R,
         \A a, b \in S : <<a, b>> \in R \/ <<b, a>> \in R,
         \A a, b \in S : <<a, b>> \in R /\ <<b, a>> \in R => a = b,
         \A a, b, c \in S : <<a, b>> \in R /\ <<b, c>> \in R => <<a, c>> \in R
  PROVE  /\ Cardinality(S) \in Nat
         /\ \A b \in S : Cardinality({a \in S : <<a, b>> \in R}) \in 1 .. Cardinality(S)
         /\ \A i \in 1 .. Cardinality(S) : \E b \in S : Cardinality({a \in S : <<a, b>> \in R}) = i
         /\ \A b, c \in S : Cardinality({a \in S : <<a, b>> \in R})
                              = Cardinality({a \in S : <<a, c>> \in R}) => b = c
<1>. DEFINE upTo(b) == {a \in S : <<a, b>> \in R}
            rank == [b \in S |-> Cardinality(upTo(b))]
            N == Cardinality(S)
<1>1. N \in Nat
  BY FS_CardinalityType
<1>2. ASSUME NEW b \in S  PROVE rank[b] \in 1 .. N
  <2>1. IsFiniteSet(upTo(b)) /\ Cardinality(upTo(b)) <= N
    BY FS_Subset
  <2>2. upTo(b) # {}
    OBVIOUS
  <2>3. Cardinality(upTo(b)) \in Nat /\ Cardinality(upTo(b)) # 0
    <3>. HIDE DEF upTo
    <3>. QED  BY <2>1, <2>2, FS_CardinalityType, FS_EmptySet
  <2>. QED  BY <1>1, <2>1, <2>3
<1>3. ASSUME NEW a \in S, NEW b \in S, a # b, <<a, b>> \in R  PROVE rank[a] # rank[b]
  <2>1. IsFiniteSet(upTo(b))
    BY FS_Subset
  <2>2. upTo(a) \in SUBSET upTo(b) /\ b \in upTo(b) /\ b \notin upTo(a)
    BY <1>3
  <2>. QED  BY <2>1, <2>2, FS_Subset
<1>4. rank \in Injection(S, 1 .. N)
  <2>. HIDE DEF rank
  <2>1. rank \in [S -> 1 .. N]
    BY <1>2 DEF rank
  <2>2. \A a, b \in S : rank[a] = rank[b] => a = b
    BY <1>3
  <2>. QED  BY <2>1, <2>2 DEF Injection, IsInjective
<1>5. IsFiniteSet(1 .. N) /\ Cardinality(1 .. N) = N
  BY <1>1, FS_Interval
<1>6. rank \in Surjection(S, 1 .. N)
  BY <1>4, <1>5, FS_Injection
<1>7. \A b \in S : rank[b] = Cardinality(upTo(b))
  OBVIOUS
<1>. HIDE DEF rank
<1>8. /\ \A i \in 1 .. N : \E b \in S : rank[b] = i
      /\ \A a, b \in S : rank[a] = rank[b] => a = b
  BY <1>4, <1>6 DEF Surjection, Injection, IsInjective
<1>9. /\ N \in Nat
      /\ \A b \in S : Cardinality(upTo(b)) \in 1 .. N
      /\ \A i \in 1 .. N : \E b \in S : Cardinality(upTo(b)) = i
      /\ \A b, c \in S : Cardinality(upTo(b)) = Cardinality(upTo(c)) => b = c
  <2>. HIDE DEF upTo, N
  <2>. QED  BY <1>1, <1>2, <1>7, <1>8
<1>. QED  BY <1>9

\* A set of n numbers has an element of every rank up to n.
LEMMA NumberRanks ==
  ASSUME NEW S, IsFiniteSet(S), S \subseteq Nat
  PROVE  /\ Cardinality(S) \in Nat
         /\ \A i \in 1 .. Cardinality(S) : \E n \in S : Cardinality({m \in S : m <= n}) = i
<1>. DEFINE R == {x \in S \X S : x[1] <= x[2]}
            below(n) == {m \in S : <<m, n>> \in R}
<1>1. /\ \A a, b \in S : <<a, b>> \in R <=> a <= b
      /\ \A n \in S : below(n) = {m \in S : m <= n}
  OBVIOUS
<1>2. /\ \A a, b \in S : <<a, b>> \in R \/ <<b, a>> \in R
      /\ \A a, b \in S : <<a, b>> \in R /\ <<b, a>> \in R => a = b
      /\ \A a, b, c \in S : <<a, b>> \in R /\ <<b, c>> \in R => <<a, c>> \in R
  BY <1>1
<1>. HIDE DEF R
<1>3. /\ Cardinality(S) \in Nat
      /\ \A b \in S : Cardinality(below(b)) \in 1 .. Cardinality(S)
      /\ \A i \in 1 .. Cardinality(S) : \E b \in S : Cardinality(below(b)) = i
      /\ \A b, c \in S : Cardinality(below(b)) = Cardinality(below(c)) => b = c
  BY <1>2, Ranks
<1>. HIDE DEF below
<1>. QED  BY <1>1, <1>3

LEMMA AscendingOf ==
  ASSUME NEW S, IsFiniteSet(S), S \subseteq Nat
  PROVE  Ascending(S) \in Seq(S) /\ Len(Ascending(S)) = Cardinality(S)
<1>1. \A i \in 1 .. Cardinality(S) : Ascending(S)[i] \in S
  BY NumberRanks DEF Ascending
<1>2. Ascending(S) = [i \in 1 .. Cardinality(S) |-> Ascending(S)[i]]
  BY DEF Ascending
<1>. QED  BY <1>1, <1>2, NumberRanks, IsASeq

LEMMA LeastOf ==
  ASSUME NEW S, IsFiniteSet(S), S \subseteq Nat, S # {}
  PROVE  Min(S) \in S /\ \A i \in S : Min(S) <= i
<1>1. 1 \in 1 .. Cardinality(S)
  <2>1. Cardinality(S) \in Nat /\ Cardinality(S) # 0
    BY FS_CardinalityType, FS_EmptySet
  <2>. QED  BY <2>1
<1>2. PICK n \in S : Cardinality({m \in S : m <= n}) = 1
  BY <1>1, NumberRanks
<1>3. \A i \in S : n <= i
  <2>. DEFINE below == {m \in S : m <= n}
  <2>1. IsFiniteSet(below) /\ n \in below
    BY FS_Subset
  <2>2. PICK x : below = {x}
    <3>. HIDE DEF below
    <3>. QED  BY <1>2, <2>1, FS_Singleton DEF below
  <2>. QED  BY <2>1, <2>2
<1>. QED  BY <1>3 DEF Min

(* -------------------------------- sums ---------------------------------- *)

\* The equation of the recursive function that a sum over S is defined by.
SumsTo(f, m, S) ==
  f = [s \in SUBSET S |-> IF s = {} THEN 0
                          ELSE m[CHOOSE x \in s : TRUE] + f[s \ {CHOOSE x \in s : TRUE}]]

\* It has one solution on a finite set.
LEMMA OneSum ==
  ASSUME NEW S, IsFiniteSet(S), NEW m, NEW f, SumsTo(f, m, S), NEW g, SumsTo(g, m, S)
  PROVE  f[S] = g[S]
<1>. DEFINE Bad == {n \in 0 .. Cardinality(S) :
                      \E s \in SUBSET S : Cardinality(s) = n /\ f[s] # g[s]}
<1>1. Cardinality(S) \in Nat
  BY FS_CardinalityType
<1>2. Bad = {}
  <2>. SUFFICES ASSUME Bad # {} PROVE FALSE
    OBVIOUS
  <2>1. IsFiniteSet(Bad) /\ Bad \subseteq Nat
    <3>1. IsFiniteSet(0 .. Cardinality(S)) /\ 0 .. Cardinality(S) \subseteq Nat
      BY <1>1, FS_Interval
    <3>2. Bad \in SUBSET (0 .. Cardinality(S))
      OBVIOUS
    <3>. HIDE DEF Bad
    <3>. QED  BY <3>1, <3>2, FS_Subset
  <2>2. Min(Bad) \in Bad /\ \A n \in Bad : Min(Bad) <= n
    <3>. HIDE DEF Bad
    <3>. QED  BY <2>1, LeastOf
  <2>3. PICK s \in SUBSET S : Cardinality(s) = Min(Bad) /\ f[s] # g[s]
    BY <2>2
  <2>. DEFINE x == CHOOSE y \in s : TRUE
              t == s \ {x}
  <2>4. s # {}
    BY <2>3 DEF SumsTo
  <2>5. x \in s
    BY <2>4
  <2>6. f[s] = m[x] + f[t] /\ g[s] = m[x] + g[t]
    BY <2>4 DEF SumsTo
  <2>. HIDE DEF x
  <2>7. IsFiniteSet(s)
    BY FS_Subset
  <2>8. Cardinality(t) = Cardinality(s) - 1 /\ Cardinality(s) \in Nat /\ Cardinality(t) \in Nat
    BY <2>5, <2>7, FS_RemoveElement, FS_CardinalityType
  <2>9. Cardinality(t) \in 0 .. Cardinality(S) /\ t \in SUBSET S /\ f[t] # g[t]
    BY <1>1, <2>2, <2>3, <2>6, <2>8
  <2>10. Cardinality(t) \in Bad
    BY <2>9
  <2>. HIDE DEF Bad, t
  <2>. QED  BY <2>2, <2>3, <2>8, <2>10
<1>3. Cardinality(S) \in 0 .. Cardinality(S)
  BY <1>1
<1>. QED  BY <1>2, <1>3

\* The sums of the property are solutions of that equation.
LEMMA CountSum ==
  ASSUME NEW S, IsFiniteSet(S), NEW m, \A w \in S : m[w] = w.count, NEW f, SumsTo(f, m, S)
  PROVE  MapThenSumSet(LAMBDA w : w.count, S) = f[S]
<1>. DEFINE E(h) == h = [s \in SUBSET S |-> IF s = {} THEN 0
                  ELSE (CHOOSE x \in s : TRUE).count + h[s \ {CHOOSE x \in s : TRUE}]]
            g == CHOOSE h : E(h)
<1>1. MapThenSumSet(LAMBDA w : w.count, S) = g[S]
  BY DEF MapThenSumSet, MapThenFoldSet
<1>2. \A s \in SUBSET S : s # {} => m[CHOOSE x \in s : TRUE] = (CHOOSE x \in s : TRUE).count
  OBVIOUS
<1>3. \A h : E(h) <=> SumsTo(h, m, S)
  BY <1>2 DEF SumsTo
<1>. HIDE DEF E
<1>4. SumsTo(g, m, S)
  BY <1>3
<1>. HIDE DEF g
<1>. QED  BY <1>1, <1>4, OneSum

LEMMA EnabledSum ==
  ASSUME NEW S, IsFiniteSet(S), NEW m, \A w \in S : m[w] = w.enabledCount, NEW f, SumsTo(f, m, S)
  PROVE  MapThenSumSet(LAMBDA w : w.enabledCount, S) = f[S]
<1>. DEFINE E(h) == h = [s \in SUBSET S |-> IF s = {} THEN 0
                  ELSE (CHOOSE x \in s : TRUE).enabledCount + h[s \ {CHOOSE x \in s : TRUE}]]
            g == CHOOSE h : E(h)
<1>1. MapThenSumSet(LAMBDA w : w.enabledCount, S) = g[S]
  BY DEF MapThenSumSet, MapThenFoldSet
<1>2. \A s \in SUBSET S : s # {} => m[CHOOSE x \in s : TRUE] = (CHOOSE x \in s : TRUE).enabledCount
  OBVIOUS
<1>3. \A h : E(h) <=> SumsTo(h, m, S)
  BY <1>2 DEF SumsTo
<1>. HIDE DEF E
<1>4. SumsTo(g, m, S)
  BY <1>3
<1>. HIDE DEF g
<1>. QED  BY <1>1, <1>4, OneSum

Sizes(cov, S) == [w \in S |-> Cardinality(cov[w])]
UnionSizes(cov, S) == [s \in SUBSET S |-> Cardinality(UNION {cov[w] : w \in s})]

\* The sizes of disjoint sets add up to that of their union.
LEMMA SizesAddUp ==
  ASSUME NEW S, IsFiniteSet(S), NEW U, IsFiniteSet(U), NEW cov \in [S -> SUBSET U],
         \A v, w \in S : v # w => cov[v] \cap cov[w] = {}
  PROVE  SumsTo(UnionSizes(cov, S), Sizes(cov, S), S)
<1>. DEFINE size(s) == Cardinality(UNION {cov[w] : w \in s})
            f == [s \in SUBSET S |-> size(s)]
            m == [w \in S |-> Cardinality(cov[w])]
<1>1. size({}) = 0
  <2>1. UNION {cov[w] : w \in {}} = {}
    OBVIOUS
  <2>. QED  BY <2>1, FS_EmptySet
<1>2. ASSUME NEW s \in SUBSET S, NEW x \in s  PROVE size(s) = m[x] + size(s \ {x})
  <2>. DEFINE A == UNION {cov[w] : w \in s \ {x}}
              B == UNION {cov[w] : w \in s}
  <2>1. B = cov[x] \cup A /\ cov[x] \cap A = {} /\ A \subseteq U /\ cov[x] \subseteq U
    OBVIOUS
  <2>. HIDE DEF A, B
  <2>2. IsFiniteSet(A) /\ IsFiniteSet(cov[x])
    BY <2>1, FS_Subset
  <2>3. Cardinality(B) = Cardinality(cov[x]) + Cardinality(A) - Cardinality({})
    BY <2>1, <2>2, FS_Union
  <2>4. Cardinality({}) = 0 /\ Cardinality(A) \in Nat /\ Cardinality(cov[x]) \in Nat
    BY <2>2, FS_EmptySet, FS_CardinalityType
  <2>5. Cardinality(B) = Cardinality(cov[x]) + Cardinality(A)
    BY <2>3, <2>4
  <2>. QED  BY <2>5 DEF A, B
<1>. HIDE DEF size
<1>3. ASSUME NEW s \in SUBSET S, s # {}
      PROVE  size(s) = m[CHOOSE x \in s : TRUE] + f[s \ {CHOOSE x \in s : TRUE}]
  <2>. DEFINE x == CHOOSE y \in s : TRUE
  <2>1. x \in s
    BY <1>3
  <2>. HIDE DEF x
  <2>2. size(s) = m[x] + f[s \ {x}]
    BY <1>2, <2>1
  <2>. QED  BY <2>2 DEF x
<1>. HIDE DEF m
<1>4. SumsTo(f, m, S)
  BY <1>1, <1>3 DEF SumsTo
<1>. QED  BY <1>4 DEF m, size, Sizes, UnionSizes

(* ------------------------------- the trees ------------------------------- *)

\* What a row of a tree stands for: an item, or all that lies in its group.
Stands(items, w) == IF w.type = "leaf" THEN w.items ELSE Under(items, w.path)

RowOK(items, w) ==
  \/ \E r, d : w = LeafRow(r, d)
  \/ \E p, d, o : w = GroupRow(p, d, Under(items, p), o)

Shown(R) == {w \in R : w.type = "leaf" \/ ~w.expanded}

\* The rows R, of a tree of items, account for the items U: each of them is in one
\* row that is not an opened group.
Tally(items, R, U) ==
  /\ IsFiniteSet(R) /\ \A w \in R : RowOK(items, w)
  /\ \A w \in Shown(R) : Stands(items, w) \subseteq U
  /\ \A r \in U : \E w \in Shown(R) : r \in Stands(items, w)
  /\ \A v, w \in Shown(R) : v # w => Stands(items, v) \cap Stands(items, w) = {}

Together(F, I) == UNION {F[i] : i \in I}

\* A row says how many items it stands for, and how many of them are enabled.
LEMMA RowCounts ==
  ASSUME NEW items, NEW w, RowOK(items, w)
  PROVE  /\ w.count = Cardinality(Stands(items, w))
         /\ w.enabledCount = Cardinality({r \in Stands(items, w) : list[r]})
<1>1. CASE \E r, d : w = LeafRow(r, d)
  <2>1. PICK r, d : w = LeafRow(r, d)
    BY <1>1
  <2>2. w.type = "leaf" /\ w.count = 1 /\ w.enabledCount = (IF list[r] THEN 1 ELSE 0) /\ w.items = {r}
    BY <2>1 DEF LeafRow
  <2>3. Stands(items, w) = {r}
    BY <2>2 DEF Stands
  <2>4. CASE list[r]
    <3>1. {x \in {r} : list[x]} = {r}
      BY <2>4
    <3>. QED  BY <2>2, <2>3, <2>4, <3>1, FS_Singleton
  <2>5. CASE ~list[r]
    <3>1. {x \in {r} : list[x]} = {}
      BY <2>5
    <3>. QED  BY <2>2, <2>3, <2>5, <3>1, FS_Singleton, FS_EmptySet
  <2>. QED  BY <2>4, <2>5
<1>2. CASE \E p, d, o : w = GroupRow(p, d, Under(items, p), o)
  BY <1>2 DEF GroupRow, Stands
<1>. QED  BY <1>1, <1>2 DEF RowOK

\* Rows that account for the items, count them.
LEMMA TallyCounts ==
  ASSUME NEW items, NEW U, IsFiniteSet(U), NEW R, Tally(items, R, U)
  PROVE  AccountsFor(R, U)
<1>. DEFINE S == Shown(R)
            on(T) == {r \in T : list[r]}
            cov == [w \in S |-> Stands(items, w)]
            ena == [w \in S |-> on(Stands(items, w))]
<1>1. IsFiniteSet(S) /\ IsFiniteSet(U)
  BY FS_Subset DEF Tally, Shown
<1>2. cov \in [S -> SUBSET U] /\ ena \in [S -> SUBSET U]
  BY DEF Tally
<1>3. \A v, w \in S : v # w => cov[v] \cap cov[w] = {} /\ ena[v] \cap ena[w] = {}
  BY DEF Tally
<1>4. UNION {cov[w] : w \in S} = U
  <2>1. \A w \in S : cov[w] \subseteq U
    BY DEF Tally
  <2>2. \A r \in U : \E w \in S : r \in cov[w]
    BY DEF Tally
  <2>. HIDE DEF cov, S
  <2>. QED  BY <2>1, <2>2
<1>5. UNION {ena[w] : w \in S} = on(U)
  <2>1. \A w \in S : ena[w] = on(cov[w])
    OBVIOUS
  <2>. HIDE DEF cov, S, ena
  <2>. QED  BY <2>1, <1>4
<1>6. \A w \in S : RowOK(items, w)
  BY DEF Tally, Shown
<1>7. MapThenSumSet(LAMBDA w : w.count, S) = Cardinality(U)
  <2>. DEFINE m == Sizes(cov, S)
              f == UnionSizes(cov, S)
  <2>1. \A w \in S : m[w] = w.count
    BY <1>6, RowCounts DEF Sizes
  <2>. HIDE DEF cov, S
  <2>2. SumsTo(f, m, S)
    BY <1>1, <1>2, <1>3, SizesAddUp
  <2>3. f[S] = Cardinality(U)
    BY <1>4 DEF UnionSizes
  <2>. HIDE DEF f, m
  <2>. QED  BY <1>1, <2>1, <2>2, <2>3, CountSum
<1>8. MapThenSumSet(LAMBDA w : w.enabledCount, S) = Cardinality(on(U))
  <2>. DEFINE m == Sizes(ena, S)
              f == UnionSizes(ena, S)
  <2>1. \A w \in S : m[w] = w.enabledCount
    BY <1>6, RowCounts DEF Sizes
  <2>. HIDE DEF ena, S, on
  <2>2. SumsTo(f, m, S)
    BY <1>1, <1>2, <1>3, SizesAddUp
  <2>3. f[S] = Cardinality(on(U))
    BY <1>5 DEF UnionSizes
  <2>. HIDE DEF f, m
  <2>. QED  BY <1>1, <2>1, <2>2, <2>3, EnabledSum
<1>9. ASSUME NEW v \in R, NEW w \in R, v.type = "leaf", w.type = "leaf", v.items = w.items
      PROVE  v = w
  <2>1. v \in S /\ w \in S
    BY <1>9 DEF Shown
  <2>2. Stands(items, v) = v.items /\ Stands(items, w) = v.items
    BY <1>9 DEF Stands
  <2>3. v.items # {}
    <3>1. RowOK(items, v)
      BY DEF Tally
    <3>2. \A p, d, o : GroupRow(p, d, Under(items, p), o).type = "group"
      BY DEF GroupRow
    <3>3. \A r, d : LeafRow(r, d).items = {r}
      BY DEF LeafRow
    <3>4. PICK r, d : v = LeafRow(r, d)
      BY <1>9, <3>1, <3>2 DEF RowOK
    <3>. QED  BY <3>3, <3>4
  <2>. QED  BY <2>1, <2>2, <2>3 DEF Tally
<1>. QED  BY <1>7, <1>8, <1>9 DEF AccountsFor, Shown

\* Rows of items that have nothing in common, put together.
LEMMA TallyUnion ==
  ASSUME NEW items, NEW I, IsFiniteSet(I), NEW R, NEW U, \A i \in I : Tally(items, R[i], U[i]),
         \A i, j \in I : i # j => U[i] \cap U[j] = {}
  PROVE  Tally(items, Together(R, I), Together(U, I))
<1>. DEFINE RR == UNION {R[i] : i \in I}
            UU == UNION {U[i] : i \in I}
<1>1. IsFiniteSet(RR)
  <2>. DEFINE image == {R[i] : i \in I}
              f == [i \in I |-> R[i]]
  <2>1. f \in Surjection(I, image)
    BY DEF Surjection
  <2>2. IsFiniteSet(image)
    <3>. HIDE DEF f, image
    <3>. QED  BY <2>1, FS_Surjection
  <2>3. \A T \in image : IsFiniteSet(T)
    BY DEF Tally
  <2>. HIDE DEF image
  <2>4. IsFiniteSet(UNION image)
    BY <2>2, <2>3, FS_UNION
  <2>. QED  BY <2>4 DEF image
<1>2. \A w \in RR : RowOK(items, w)
  BY DEF Tally
<1>3. \A w \in Shown(RR) : \E i \in I : w \in Shown(R[i])
  BY DEF Shown
<1>4. \A i \in I : \A w \in Shown(R[i]) : w \in Shown(RR) /\ Stands(items, w) \subseteq U[i]
  BY DEF Shown, Tally
<1>5. \A r \in UU : \E w \in Shown(RR) : r \in Stands(items, w)
  <2>. SUFFICES ASSUME NEW r \in UU PROVE \E w \in Shown(RR) : r \in Stands(items, w)
    OBVIOUS
  <2>1. PICK i \in I : r \in U[i]
    OBVIOUS
  <2>2. PICK w \in Shown(R[i]) : r \in Stands(items, w)
    BY <2>1 DEF Tally
  <2>. HIDE DEF RR
  <2>. QED  BY <1>4, <2>2
<1>6. ASSUME NEW v \in Shown(RR), NEW w \in Shown(RR), v # w
      PROVE  Stands(items, v) \cap Stands(items, w) = {}
  <2>. HIDE DEF RR
  <2>1. PICK i \in I : v \in Shown(R[i])
    BY <1>3
  <2>2. PICK j \in I : w \in Shown(R[j])
    BY <1>3
  <2>3. CASE i = j
    BY <1>6, <2>1, <2>2, <2>3 DEF Tally
  <2>4. CASE i # j
    BY <1>4, <2>1, <2>2, <2>4
  <2>. QED  BY <2>3, <2>4
<1>7. \A w \in Shown(RR) : Stands(items, w) \subseteq UU
  <2>. HIDE DEF RR
  <2>. QED  BY <1>3, <1>4
<1>. HIDE DEF RR, UU
<1>8. Tally(items, RR, UU)
  BY <1>1, <1>2, <1>5, <1>6, <1>7 DEF Tally
<1>. QED  BY <1>8 DEF RR, UU, Together

\* The same of two sets of rows.
LEMMA TallyTwo ==
  ASSUME NEW items, NEW R, NEW U, Tally(items, R, U), NEW Q, NEW V, Tally(items, Q, V),
         U \cap V = {}
  PROVE  Tally(items, R \cup Q, U \cup V)
<1>. DEFINE I == {1, 2}
            RR == [i \in I |-> IF i = 1 THEN R ELSE Q]
            UU == [i \in I |-> IF i = 1 THEN U ELSE V]
<1>1. IsFiniteSet(I)
  <2>1. IsFiniteSet({1})
    BY FS_Singleton
  <2>2. IsFiniteSet({1} \cup {2})
    BY <2>1, FS_AddElement
  <2>3. I = {1} \cup {2}
    OBVIOUS
  <2>. QED  BY <2>2, <2>3
<1>2. \A i \in I : Tally(items, RR[i], UU[i])
  OBVIOUS
<1>3. \A i, j \in I : i # j => UU[i] \cap UU[j] = {}
  OBVIOUS
<1>4. Together(RR, I) = R \cup Q /\ Together(UU, I) = U \cup V
  BY DEF Together
<1>. HIDE DEF RR, UU, I
<1>5. Tally(items, Together(RR, I), Together(UU, I))
  BY <1>1, <1>2, <1>3, TallyUnion
<1>. QED  BY <1>4, <1>5

\* Leaves account for their items.
LEMMA TallyLeaves ==
  ASSUME NEW items, NEW U, IsFiniteSet(U), NEW d
  PROVE  Tally(items, {LeafRow(r, d) : r \in U}, U)
<1>. DEFINE R == {LeafRow(r, d) : r \in U}
            f == [r \in U |-> LeafRow(r, d)]
<1>1. IsFiniteSet(R)
  <2>1. f \in Surjection(U, R)
    BY DEF Surjection
  <2>. HIDE DEF f, R
  <2>. QED  BY <2>1, FS_Surjection
<1>2. \A r \in U : LeafRow(r, d).type = "leaf" /\ Stands(items, LeafRow(r, d)) = {r}
  BY DEF LeafRow, Stands
<1>3. Shown(R) = R
  BY <1>2 DEF Shown
<1>4. \A w \in R : RowOK(items, w)
  BY DEF RowOK
<1>5. \A w \in R : \E r \in U : w = LeafRow(r, d) /\ Stands(items, w) = {r}
  BY <1>2
<1>6. \A r \in U : \E w \in R : r \in Stands(items, w)
  BY <1>2
<1>7. \A v, w \in R : v # w => Stands(items, v) \cap Stands(items, w) = {}
  BY <1>5
<1>. HIDE DEF R
<1>8. Tally(items, R, U)
  BY <1>1, <1>3, <1>4, <1>5, <1>6, <1>7 DEF Tally
<1>. QED  BY <1>8 DEF R

\* A group accounts for all that lies in it, or, opened, for nothing.
LEMMA TallyGroup ==
  ASSUME NEW items, NEW p, NEW d, NEW o \in BOOLEAN
  PROVE  Tally(items, {GroupRow(p, d, Under(items, p), o)}, IF o THEN {} ELSE Under(items, p))
<1>. DEFINE g == GroupRow(p, d, Under(items, p), o)
<1>1. g.type = "group" /\ g.path = p /\ g.expanded = o
  BY DEF GroupRow
<1>2. Stands(items, g) = Under(items, p)
  BY <1>1 DEF Stands
<1>3. Shown({g}) = IF o THEN {} ELSE {g}
  BY <1>1 DEF Shown
<1>4. RowOK(items, g)
  BY DEF RowOK
<1>. HIDE DEF g
<1>5. CASE o
  BY <1>3, <1>4, <1>5, FS_Singleton DEF Tally, g
<1>6. CASE ~o
  <2>1. Shown({g}) = {g}
    BY <1>3, <1>6
  <2>2. Tally(items, {g}, Under(items, p))
    BY <1>2, <1>4, <2>1, FS_Singleton DEF Tally
  <2>. QED  BY <1>6, <2>2 DEF g
<1>. QED  BY <1>5, <1>6

(* A path and what lies below it. *)

\* The first n segments of the path of an item.
Cut(r, n) == SubSeq(PathOf[r], 1, n)

HavePaths(items) == \A r \in items : PathOf[r] \in Seq(STRING) /\ PathOf[r] # <<>>

PathsOf(items) == UNION {{SubSeq(PathOf[r], 1, n) : n \in 1 .. Len(PathOf[r])} : r \in items}

\* The first n segments of a path.
LEMMA CutIs ==
  ASSUME NEW s \in Seq(STRING), NEW n \in 0 .. Len(s)
  PROVE  SubSeq(s, 1, n) \in Seq(STRING) /\ Len(SubSeq(s, 1, n)) = n
<1>1. n \in Nat /\ Len(s) \in Nat /\ n <= Len(s)
  OBVIOUS
<1>. QED  BY <1>1

\* Cutting twice is cutting once.
LEMMA CutAgain ==
  ASSUME NEW s \in Seq(STRING), NEW n \in 0 .. Len(s), NEW m \in 0 .. n
  PROVE  SubSeq(SubSeq(s, 1, n), 1, m) = SubSeq(s, 1, m)
<1>1. n \in Nat /\ Len(s) \in Nat /\ n <= Len(s) /\ m \in Nat /\ m <= n
  OBVIOUS
<1>. QED  BY <1>1

\* A prefix is a cut of the path.
LEMMA PrefixIs ==
  ASSUME NEW s \in Seq(STRING), NEW p \in Seq(STRING)
  PROVE  /\ IsPrefix(p, s) <=> Len(p) <= Len(s) /\ SubSeq(s, 1, Len(p)) = p
         /\ IsStrictPrefix(p, s) <=> Len(p) < Len(s) /\ SubSeq(s, 1, Len(p)) = p
<1>1. Len(p) \in Nat /\ Len(s) \in Nat
  OBVIOUS
<1>2. SubSeq(p, 1, Len(p)) = p /\ SubSeq(s, 1, Len(s)) = s
  OBVIOUS
<1>3. IsPrefix(p, s) <=> Len(p) <= Len(s) /\ SubSeq(s, 1, Len(p)) = p
  BY <1>2 DEF IsPrefix
<1>4. Len(p) <= Len(s) /\ SubSeq(s, 1, Len(p)) = p => (p # s <=> Len(p) < Len(s))
  BY <1>1, <1>2
<1>. QED  BY <1>1, <1>3, <1>4 DEF IsStrictPrefix

\* What lies at a path and below it, in terms of cuts.
LEMMA UnderIs ==
  ASSUME NEW items, HavePaths(items), NEW p \in Seq(STRING)
  PROVE  /\ \A r : r \in Under(items, p) <=>
              r \in items /\ PathOf[r] \in Seq(STRING) /\ Len(p) <= Len(PathOf[r]) /\ Cut(r, Len(p)) = p
         /\ \A r : r \in UnderProper(items, p) <=>
              r \in items /\ PathOf[r] \in Seq(STRING) /\ Len(p) < Len(PathOf[r]) /\ Cut(r, Len(p)) = p
<1>1. \A r \in items : PathOf[r] \in Seq(STRING)
  BY DEF HavePaths
<1>. QED  BY <1>1, PrefixIs DEF Under, UnderProper, Cut

\* Nothing lies below two paths of the same length.
LEMMA UnderApart ==
  ASSUME NEW items, HavePaths(items), NEW p \in Seq(STRING), NEW q \in Seq(STRING),
         Len(p) = Len(q), p # q
  PROVE  Under(items, p) \cap Under(items, q) = {}
BY UnderIs

\* The paths of a group's children, and what lies below the group.
Children(items, p) == {SubSeq(PathOf[r], 1, Len(p) + 1) : r \in UnderProper(items, p)}
Exactly(items, p) == {r \in items : PathOf[r] = p}

\* A group has finitely many children, whose paths are one segment longer.
LEMMA ChildrenAre ==
  ASSUME NEW items, IsFiniteSet(items), HavePaths(items), NEW p \in Seq(STRING)
  PROVE  /\ IsFiniteSet(Children(items, p))
         /\ \A q \in Children(items, p) :
              q \in PathsOf(items) /\ q \in Seq(STRING) /\ Len(q) = Len(p) + 1
<1>. DEFINE B == UnderProper(items, p)
            C == Children(items, p)
            f == [r \in B |-> SubSeq(PathOf[r], 1, Len(p) + 1)]
<1>1. IsFiniteSet(B)
  BY FS_Subset DEF UnderProper
<1>2. f \in Surjection(B, C)
  BY DEF Surjection, Children
<1>3. IsFiniteSet(C)
  <2>. HIDE DEF f, B, C
  <2>. QED  BY <1>1, <1>2, FS_Surjection
<1>4. ASSUME NEW q \in C
      PROVE  q \in PathsOf(items) /\ q \in Seq(STRING) /\ Len(q) = Len(p) + 1
  <2>1. PICK r \in B : q = SubSeq(PathOf[r], 1, Len(p) + 1)
    BY DEF Children
  <2>2. r \in items /\ PathOf[r] \in Seq(STRING) /\ Len(p) < Len(PathOf[r])
    BY UnderIs
  <2>3. Len(p) \in Nat /\ Len(PathOf[r]) \in Nat
    BY <2>2
  <2>4. Len(p) + 1 \in 1 .. Len(PathOf[r]) /\ Len(p) + 1 \in 0 .. Len(PathOf[r])
    BY <2>2, <2>3
  <2>5. q \in Seq(STRING) /\ Len(q) = Len(p) + 1
    BY <2>1, <2>2, <2>4, CutIs
  <2>6. q \in PathsOf(items)
    BY <2>1, <2>2, <2>4 DEF PathsOf
  <2>. QED  BY <2>5, <2>6
<1>. QED  BY <1>3, <1>4

\* What lies at a path and below it lies exactly there or below one child.
LEMMA UnderParts ==
  ASSUME NEW items, IsFiniteSet(items), HavePaths(items), NEW p \in Seq(STRING)
  PROVE  /\ Under(items, p) =
              Exactly(items, p) \cup Together([q \in Children(items, p) |-> Under(items, q)],
                                              Children(items, p))
         /\ \A q \in Children(items, p) : Exactly(items, p) \cap Under(items, q) = {}
<1>. DEFINE C == Children(items, p)
            U == [q \in C |-> Under(items, q)]
<1>1. ASSUME NEW r \in Under(items, p)  PROVE r \in Exactly(items, p) \cup Together(U, C)
  <2>1. /\ r \in items /\ PathOf[r] \in Seq(STRING) /\ Len(p) <= Len(PathOf[r])
        /\ SubSeq(PathOf[r], 1, Len(p)) = p
    BY UnderIs DEF Cut
  <2>2. Len(p) \in Nat /\ Len(PathOf[r]) \in Nat
    BY <2>1
  <2>3. CASE Len(p) = Len(PathOf[r])
    <3>1. SubSeq(PathOf[r], 1, Len(PathOf[r])) = PathOf[r]
      BY <2>1
    <3>. QED  BY <2>1, <2>3, <3>1 DEF Exactly
  <2>4. CASE Len(p) # Len(PathOf[r])
    <3>. DEFINE q == SubSeq(PathOf[r], 1, Len(p) + 1)
    <3>1. Len(p) + 1 \in 0 .. Len(PathOf[r]) /\ Len(p) < Len(PathOf[r])
      BY <2>1, <2>2, <2>4
    <3>2. q \in Seq(STRING) /\ Len(q) = Len(p) + 1
      BY <2>1, <3>1, CutIs
    <3>3. r \in UnderProper(items, p)
      BY <2>1, <3>1, UnderIs DEF Cut
    <3>4. q \in C
      BY <3>3 DEF Children
    <3>5. r \in Under(items, q)
      <4>1. Len(q) <= Len(PathOf[r]) /\ Cut(r, Len(q)) = q
        BY <2>2, <3>1, <3>2 DEF Cut
      <4>. HIDE DEF q
      <4>. QED  BY <2>1, <3>2, <4>1, UnderIs
    <3>. HIDE DEF q, C
    <3>. QED  BY <3>4, <3>5 DEF Together
  <2>. QED  BY <2>3, <2>4
<1>2. ASSUME NEW q \in C, NEW r \in Under(items, q)  PROVE r \in Under(items, p) /\ PathOf[r] # p
  <2>1. q \in Seq(STRING) /\ Len(q) = Len(p) + 1
    BY ChildrenAre
  <2>2. /\ r \in items /\ PathOf[r] \in Seq(STRING) /\ Len(q) <= Len(PathOf[r])
        /\ SubSeq(PathOf[r], 1, Len(q)) = q
    BY <2>1, UnderIs DEF Cut
  <2>3. Len(p) \in Nat /\ Len(PathOf[r]) \in Nat
    BY <2>2
  <2>4. /\ Len(q) \in 0 .. Len(PathOf[r]) /\ Len(p) \in 0 .. Len(q) /\ Len(p) < Len(PathOf[r])
    BY <2>1, <2>2, <2>3
  <2>5. SubSeq(q, 1, Len(p)) = SubSeq(PathOf[r], 1, Len(p))
    BY <2>2, <2>4, CutAgain
  <2>6. SubSeq(q, 1, Len(p)) = p
    <3>1. PICK o \in UnderProper(items, p) : q = SubSeq(PathOf[o], 1, Len(p) + 1)
      BY DEF Children
    <3>2. /\ o \in items /\ PathOf[o] \in Seq(STRING) /\ Len(p) < Len(PathOf[o])
          /\ SubSeq(PathOf[o], 1, Len(p)) = p
      BY UnderIs DEF Cut
    <3>3. Len(p) + 1 \in 0 .. Len(PathOf[o]) /\ Len(p) \in 0 .. (Len(p) + 1)
      BY <2>3, <3>2
    <3>. QED  BY <3>1, <3>2, <3>3, CutAgain
  <2>7. r \in Under(items, p)
    BY <2>2, <2>4, <2>5, <2>6, UnderIs DEF Cut
  <2>. QED  BY <2>4, <2>7
<1>3. Exactly(items, p) \subseteq Under(items, p)
  <2>. SUFFICES ASSUME NEW r \in items, PathOf[r] = p PROVE r \in Under(items, p)
    BY DEF Exactly
  <2>1. SubSeq(p, 1, Len(p)) = p /\ Len(p) <= Len(p)
    OBVIOUS
  <2>. QED  BY <2>1, UnderIs DEF Cut
<1>. HIDE DEF C
<1>4. \A r \in Together(U, C) : r \in Under(items, p)
  BY <1>2 DEF Together
<1>5. \A q \in C : Exactly(items, p) \cap Under(items, q) = {}
  BY <1>2 DEF Exactly
<1>6. Under(items, p) = Exactly(items, p) \cup Together(U, C)
  BY <1>1, <1>3, <1>4
<1>. QED  BY <1>5, <1>6 DEF C

(* The tree of the models. *)

IsOpen(p) == enabledOnly \/ p \in expanded

\* The rows of a child, and of a group, of a tree that has the rows f for the groups below.
Below(items, f, p, q) ==
  IF Cardinality(Under(items, q)) >= 2 THEN f[q] ELSE {LeafRow(r, Len(p)) : r \in Under(items, q)}

Branch(items, f, p) ==
  {GroupRow(p, Len(p) - 1, Under(items, p), IsOpen(p))}
  \cup IF IsOpen(p) THEN {LeafRow(r, Len(p)) : r \in Exactly(items, p)}
                         \cup UNION {Below(items, f, p, q) : q \in Children(items, p)}
       ELSE {}

\* The equation of the tree's recursive function, for the groups P.
Grows(f, items, P) == f = [p \in P |-> Branch(items, f, p)]

\* Every path of a tree is a cut of the path of an item.
LEMMA PathShape ==
  ASSUME NEW items, HavePaths(items), NEW p \in PathsOf(items)
  PROVE  p \in Seq(STRING) /\ Len(p) \in Nat \ {0} /\ \E r \in items : Len(p) <= Len(PathOf[r])
<1>1. PICK r \in items : \E n \in 1 .. Len(PathOf[r]) : p = SubSeq(PathOf[r], 1, n)
  BY DEF PathsOf
<1>2. PICK n \in 1 .. Len(PathOf[r]) : p = SubSeq(PathOf[r], 1, n)
  BY <1>1
<1>3. PathOf[r] \in Seq(STRING)
  BY DEF HavePaths
<1>4. Len(PathOf[r]) \in Nat
  BY <1>3
<1>5. n \in 0 .. Len(PathOf[r]) /\ n \in Nat /\ n # 0 /\ n <= Len(PathOf[r])
  BY <1>4
<1>6. p \in Seq(STRING) /\ Len(p) = n
  BY <1>2, <1>3, <1>5, CutIs
<1>. QED  BY <1>5, <1>6

\* A branch accounts for its items, if the branches below it do.
LEMMA BranchTally ==
  ASSUME NEW items, IsFiniteSet(items), HavePaths(items), NEW p \in PathsOf(items), NEW f,
         \A q \in PathsOf(items) : Len(q) = Len(p) + 1 => Tally(items, f[q], Under(items, q))
  PROVE  Tally(items, Branch(items, f, p), Under(items, p))
<1>. DEFINE C == Children(items, p)
            U == [q \in C |-> Under(items, q)]
            R == [q \in C |-> Below(items, f, p, q)]
            L == {LeafRow(r, Len(p)) : r \in Exactly(items, p)}
            G(o) == {GroupRow(p, Len(p) - 1, Under(items, p), o)}
<1>1. p \in Seq(STRING) /\ Len(p) \in Nat
  BY PathShape
<1>2. CASE ~IsOpen(p)
  <2>1. Tally(items, G(FALSE), Under(items, p))
    BY TallyGroup
  <2>2. Branch(items, f, p) = G(FALSE)
    <3>1. IsOpen(p) = FALSE
      BY <1>2 DEF IsOpen
    <3>. QED  BY <1>2, <3>1 DEF Branch
  <2>. QED  BY <2>1, <2>2
<1>3. CASE IsOpen(p)
  <2>1. Tally(items, G(TRUE), {})
    BY TallyGroup
  <2>2. Tally(items, L, Exactly(items, p))
    <3>1. IsFiniteSet(Exactly(items, p))
      BY FS_Subset DEF Exactly
    <3>. QED  BY <1>1, <3>1, TallyLeaves
  <2>3. ASSUME NEW q \in C  PROVE Tally(items, R[q], U[q])
    <3>1. q \in PathsOf(items) /\ Len(q) = Len(p) + 1
      BY <1>1, ChildrenAre
    <3>2. CASE Cardinality(Under(items, q)) >= 2
      BY <3>1, <3>2 DEF Below
    <3>3. CASE ~(Cardinality(Under(items, q)) >= 2)
      <4>1. IsFiniteSet(Under(items, q))
        BY FS_Subset DEF Under
      <4>2. Tally(items, {LeafRow(r, Len(p)) : r \in Under(items, q)}, Under(items, q))
        BY <1>1, <4>1, TallyLeaves
      <4>. QED  BY <3>3, <4>2 DEF Below
    <3>. QED  BY <3>2, <3>3
  <2>4. \A q, s \in C : q # s => U[q] \cap U[s] = {}
    <3>. SUFFICES ASSUME NEW q \in C, NEW s \in C, q # s PROVE Under(items, q) \cap Under(items, s) = {}
      OBVIOUS
    <3>1. q \in Seq(STRING) /\ s \in Seq(STRING) /\ Len(q) = Len(s)
      BY <1>1, ChildrenAre
    <3>. QED  BY <3>1, UnderApart
  <2>5. IsFiniteSet(C)
    BY <1>1, ChildrenAre
  <2>6. Tally(items, Together(R, C), Together(U, C))
    <3>. HIDE DEF R, U, C
    <3>. QED  BY <2>3, <2>4, <2>5, TallyUnion
  <2>7. /\ Under(items, p) = Exactly(items, p) \cup Together(U, C)
        /\ \A q \in C : Exactly(items, p) \cap Under(items, q) = {}
    BY <1>1, UnderParts
  <2>8. Exactly(items, p) \cap Together(U, C) = {}
    BY <2>7 DEF Together
  <2>9. UNION {Below(items, f, p, q) : q \in C} = Together(R, C)
    BY DEF Together
  <2>10. Branch(items, f, p) = G(TRUE) \cup (L \cup Together(R, C))
    <3>1. IsOpen(p) = TRUE
      BY <1>3 DEF IsOpen
    <3>. QED  BY <1>3, <2>9, <3>1 DEF Branch
  <2>. HIDE DEF R, U, C, L, G
  <2>11. Tally(items, L \cup Together(R, C), Exactly(items, p) \cup Together(U, C))
    BY <2>2, <2>6, <2>8, TallyTwo
  <2>12. Tally(items, G(TRUE) \cup (L \cup Together(R, C)), {} \cup (Exactly(items, p) \cup Together(U, C)))
    BY <2>1, <2>11, TallyTwo
  <2>. QED  BY <2>7, <2>10, <2>12
<1>. QED  BY <1>2, <1>3

\* The paths of finitely many items have a length that none exceeds.
LEMMA LongestPath ==
  ASSUME NEW items, IsFiniteSet(items), HavePaths(items)
  PROVE  \E M \in Nat : \A p \in PathsOf(items) : Len(p) <= M
<1>. DEFINE f == [r \in items |-> Len(PathOf[r])]
            lengths == {Len(PathOf[r]) : r \in items}
            upTo(n) == {m \in lengths : m <= n}
<1>1. lengths \subseteq Nat
  BY DEF HavePaths
<1>2. IsFiniteSet(lengths)
  <2>1. f \in Surjection(items, lengths)
    BY DEF Surjection
  <2>. HIDE DEF f, lengths
  <2>. QED  BY <2>1, FS_Surjection
<1>3. CASE items = {}
  <2>1. PathsOf(items) = {}
    BY <1>3 DEF PathsOf
  <2>. QED  BY <2>1
<1>4. CASE items # {}
  <2>1. lengths # {}
    BY <1>4
  <2>2. PICK M \in lengths : Cardinality(upTo(M)) = Cardinality(lengths)
    <3>1. Cardinality(lengths) \in Nat /\ Cardinality(lengths) # 0
      <4>. HIDE DEF lengths
      <4>. QED  BY <1>2, <2>1, FS_CardinalityType, FS_EmptySet
    <3>2. Cardinality(lengths) \in 1 .. Cardinality(lengths)
      BY <3>1
    <3>. HIDE DEF lengths
    <3>. QED  BY <1>1, <1>2, <3>2, NumberRanks
  <2>3. upTo(M) = lengths
    <3>1. upTo(M) \in SUBSET lengths
      OBVIOUS
    <3>. HIDE DEF lengths, upTo
    <3>. QED  BY <1>2, <2>2, <3>1, FS_Subset
  <2>4. \A r \in items : Len(PathOf[r]) <= M
    BY <2>3
  <2>5. \A p \in PathsOf(items) : Len(p) <= M
    <3>. SUFFICES ASSUME NEW p \in PathsOf(items) PROVE Len(p) <= M
      OBVIOUS
    <3>1. Len(p) \in Nat /\ \E r \in items : Len(p) <= Len(PathOf[r])
      BY PathShape
    <3>. QED  BY <1>1, <2>4, <3>1
  <2>. QED  BY <1>1, <2>5
<1>. QED  BY <1>3, <1>4

\* The function of a tree exists: the rows of a group depend on longer paths only.
LEMMA TreeGrows ==
  ASSUME NEW items, IsFiniteSet(items), HavePaths(items)
  PROVE  \E f : Grows(f, items, PathsOf(items))
<1>1. PICK M \in Nat : \A p \in PathsOf(items) : Len(p) <= M
  BY LongestPath
<1>. DEFINE P(n) == {p \in PathsOf(items) : Len(p) + n > M}
            Bad == {n \in 0 .. M : ~\E f : Grows(f, items, P(n))}
<1>2. \E f : Grows(f, items, P(0))
  <2>1. P(0) = {}
    BY <1>1, PathShape
  <2>. HIDE DEF P
  <2>2. Grows([p \in {} |-> {}], items, P(0))
    BY <2>1 DEF Grows
  <2>. QED  BY <2>2
<1>3. ASSUME NEW n \in 0 .. M, n # 0, NEW f, Grows(f, items, P(n - 1))
      PROVE  \E g : Grows(g, items, P(n))
  <2>. DEFINE g == [p \in P(n) |-> Branch(items, f, p)]
  <2>1. ASSUME NEW p \in P(n)  PROVE Branch(items, g, p) = Branch(items, f, p)
    <3>1. p \in Seq(STRING) /\ Len(p) \in Nat
      BY PathShape
    <3>2. ASSUME NEW q \in Children(items, p)  PROVE f[q] = g[q]
      <4>1. q \in PathsOf(items) /\ Len(q) = Len(p) + 1
        BY <3>1, ChildrenAre
      <4>2. q \in P(n - 1) /\ q \in P(n)
        BY <1>1, <3>1, <4>1
      <4>. HIDE DEF P
      <4>. QED  BY <1>3, <4>2 DEF Grows
    <3>3. \A q \in Children(items, p) : Below(items, g, p, q) = Below(items, f, p, q)
      BY <3>2 DEF Below
    <3>4. {Below(items, g, p, q) : q \in Children(items, p)}
            = {Below(items, f, p, q) : q \in Children(items, p)}
      BY <3>3
    <3>. HIDE DEF g
    <3>. QED  BY <3>4 DEF Branch
  <2>2. g = [p \in P(n) |-> Branch(items, g, p)]
    <3>. HIDE DEF P
    <3>. QED  BY <2>1
  <2>. HIDE DEF g, P
  <2>3. Grows(g, items, P(n))
    BY <2>2 DEF Grows
  <2>. QED  BY <2>3
<1>4. Bad = {}
  <2>. SUFFICES ASSUME Bad # {} PROVE FALSE
    OBVIOUS
  <2>1. IsFiniteSet(Bad) /\ Bad \subseteq Nat
    <3>1. IsFiniteSet(0 .. M) /\ 0 .. M \subseteq Nat
      BY FS_Interval
    <3>2. Bad \in SUBSET (0 .. M)
      OBVIOUS
    <3>. HIDE DEF Bad
    <3>. QED  BY <3>1, <3>2, FS_Subset
  <2>2. Min(Bad) \in Bad /\ \A n \in Bad : Min(Bad) <= n
    <3>. HIDE DEF Bad
    <3>. QED  BY <2>1, LeastOf
  <2>. DEFINE n == Min(Bad)
  <2>. HIDE DEF P
  <2>3. n \in 0 .. M /\ ~\E f : Grows(f, items, P(n))
    BY <2>2
  <2>. HIDE DEF n
  <2>4. n # 0
    BY <1>2, <2>3
  <2>5. n - 1 \in 0 .. M /\ ~(n <= n - 1)
    BY <2>3, <2>4
  <2>6. n - 1 \notin Bad
    <3>. HIDE DEF Bad
    <3>. QED  BY <2>2, <2>5 DEF n
  <2>7. PICK f : Grows(f, items, P(n - 1))
    BY <2>5, <2>6
  <2>. QED  BY <1>3, <2>3, <2>4, <2>7
<1>5. PICK f : Grows(f, items, P(M))
  <2>1. M \in 0 .. M
    OBVIOUS
  <2>. HIDE DEF P
  <2>. QED  BY <1>4, <2>1
<1>6. P(M) = PathsOf(items)
  <2>1. \A p \in PathsOf(items) : Len(p) \in Nat \ {0}
    BY PathShape
  <2>. QED  BY <2>1
<1>. QED  BY <1>5, <1>6

\* Every branch of it accounts for what lies in its group.
LEMMA TreeTally ==
  ASSUME NEW items, IsFiniteSet(items), HavePaths(items), NEW f, Grows(f, items, PathsOf(items)),
         NEW p \in PathsOf(items)
  PROVE  Tally(items, f[p], Under(items, p))
<1>1. PICK M \in Nat : \A q \in PathsOf(items) : Len(q) <= M
  BY LongestPath
<1>. DEFINE Bad == {n \in 0 .. M : \E q \in PathsOf(items) : /\ Len(q) + n = M
                                                            /\ ~Tally(items, f[q], Under(items, q))}
<1>2. \A q \in PathsOf(items) : Len(q) \in Nat /\ f[q] = Branch(items, f, q)
  BY PathShape DEF Grows
<1>3. Bad = {}
  <2>. SUFFICES ASSUME Bad # {} PROVE FALSE
    OBVIOUS
  <2>1. IsFiniteSet(Bad) /\ Bad \subseteq Nat
    <3>1. IsFiniteSet(0 .. M) /\ 0 .. M \subseteq Nat
      BY FS_Interval
    <3>2. Bad \in SUBSET (0 .. M)
      OBVIOUS
    <3>. HIDE DEF Bad
    <3>. QED  BY <3>1, <3>2, FS_Subset
  <2>2. Min(Bad) \in Bad /\ \A n \in Bad : Min(Bad) <= n
    <3>. HIDE DEF Bad
    <3>. QED  BY <2>1, LeastOf
  <2>. DEFINE n == Min(Bad)
  <2>3. n \in 0 .. M
    BY <2>2
  <2>4. PICK q \in PathsOf(items) : Len(q) + n = M /\ ~Tally(items, f[q], Under(items, q))
    BY <2>2
  <2>5. ASSUME NEW s \in PathsOf(items), Len(s) = Len(q) + 1
        PROVE  Tally(items, f[s], Under(items, s))
    <3>. SUFFICES ASSUME ~Tally(items, f[s], Under(items, s)) PROVE FALSE
      OBVIOUS
    <3>. HIDE DEF n
    <3>1. Len(s) <= M /\ Len(q) \in Nat
      BY <1>1, <1>2
    <3>2. n - 1 \in 0 .. M /\ Len(s) + (n - 1) = M /\ ~(n <= n - 1)
      BY <2>3, <2>4, <2>5, <3>1
    <3>3. n - 1 \in Bad
      BY <3>2
    <3>. HIDE DEF Bad
    <3>. QED  BY <2>2, <3>2, <3>3 DEF n
  <2>6. Tally(items, Branch(items, f, q), Under(items, q))
    BY <2>5, BranchTally
  <2>. QED  BY <1>2, <2>4, <2>6
<1>4. M - Len(p) \in 0 .. M /\ Len(p) + (M - Len(p)) = M
  BY <1>1, <1>2
<1>. QED  BY <1>3, <1>4

RootsOf(items) == {<<PathOf[r][1]>> : r \in items}

\* The roots of a tree are finitely many and part its items.
LEMMA RootsAre ==
  ASSUME NEW items, IsFiniteSet(items), HavePaths(items)
  PROVE  /\ IsFiniteSet(RootsOf(items))
         /\ \A q \in RootsOf(items) : q \in PathsOf(items) /\ q \in Seq(STRING) /\ Len(q) = 1
         /\ Together([q \in RootsOf(items) |-> Under(items, q)], RootsOf(items)) = items
         /\ \A p, q \in RootsOf(items) : p # q => Under(items, p) \cap Under(items, q) = {}
<1>. DEFINE I == RootsOf(items)
            f == [r \in items |-> <<PathOf[r][1]>>]
            U == [q \in I |-> Under(items, q)]
<1>1. IsFiniteSet(I)
  <2>1. f \in Surjection(items, I)
    BY DEF Surjection, RootsOf
  <2>. HIDE DEF f, I
  <2>. QED  BY <2>1, FS_Surjection
<1>2. ASSUME NEW r \in items
      PROVE  /\ PathOf[r] \in Seq(STRING) /\ 1 \in 1 .. Len(PathOf[r])
             /\ <<PathOf[r][1]>> = SubSeq(PathOf[r], 1, 1)
  <2>1. PathOf[r] \in Seq(STRING) /\ PathOf[r] # <<>>
    BY DEF HavePaths
  <2>2. Len(PathOf[r]) \in Nat /\ Len(PathOf[r]) # 0
    BY <2>1
  <2>. QED  BY <2>1, <2>2
<1>3. ASSUME NEW q \in I  PROVE q \in PathsOf(items) /\ q \in Seq(STRING) /\ Len(q) = 1
  <2>1. PICK r \in items : q = <<PathOf[r][1]>>
    BY DEF RootsOf
  <2>2. q \in PathsOf(items)
    BY <1>2, <2>1 DEF PathsOf
  <2>. QED  BY <2>1, <2>2, PathShape
<1>4. ASSUME NEW r \in items  PROVE r \in Together(U, I)
  <2>. DEFINE q == <<PathOf[r][1]>>
  <2>1. q \in I
    BY DEF RootsOf
  <2>2. Len(q) <= Len(PathOf[r]) /\ Cut(r, Len(q)) = q
    <3>1. Len(q) = 1 /\ 1 <= Len(PathOf[r])
      BY <1>2
    <3>2. SubSeq(PathOf[r], 1, 1) = q
      BY <1>2
    <3>. HIDE DEF q
    <3>. QED  BY <3>1, <3>2 DEF Cut
  <2>3. q \in Seq(STRING)
    BY <1>3, <2>1
  <2>. HIDE DEF q, I
  <2>4. r \in Under(items, q)
    BY <1>2, <2>2, <2>3, UnderIs
  <2>. QED  BY <2>1, <2>4 DEF Together
<1>5. Together(U, I) \subseteq items
  BY DEF Together, Under
<1>6. ASSUME NEW p \in I, NEW q \in I, p # q  PROVE Under(items, p) \cap Under(items, q) = {}
  <2>1. Len(p) = Len(q) /\ p \in Seq(STRING) /\ q \in Seq(STRING)
    BY <1>3
  <2>. QED  BY <1>6, <2>1, UnderApart
<1>. HIDE DEF I
<1>7. Together(U, I) = items
  BY <1>4, <1>5
<1>. QED  BY <1>1, <1>3, <1>6, <1>7 DEF I


\* The roots of a tree account for its items, leaves beside it for the others.
LEMMA RootsTally ==
  ASSUME NEW all, IsFiniteSet(all), NEW items \in SUBSET all, HavePaths(items), NEW R,
         \A q \in RootsOf(items) : Tally(items, R[q], Under(items, q))
  PROVE  AccountsFor({LeafRow(r, 0) : r \in all \ items} \cup Together(R, RootsOf(items)), all)
<1>. DEFINE I == RootsOf(items)
            U == [q \in I |-> Under(items, q)]
            L == {LeafRow(r, 0) : r \in all \ items}
<1>1. IsFiniteSet(items) /\ IsFiniteSet(all \ items)
  BY FS_Subset, FS_Difference
<1>2. IsFiniteSet(I) /\ Together(U, I) = items
  BY <1>1, RootsAre
<1>3. (\A q \in I : Tally(items, R[q], U[q])) /\ \A p, q \in I : p # q => U[p] \cap U[q] = {}
  BY <1>1, RootsAre
<1>4. Tally(items, L, all \ items)
  BY <1>1, TallyLeaves
<1>. HIDE DEF I, U, L
<1>5. Tally(items, Together(R, I), Together(U, I))
  BY <1>2, <1>3, TallyUnion
<1>6. Tally(items, L \cup Together(R, I), (all \ items) \cup items)
  BY <1>2, <1>4, <1>5, TallyTwo
<1>7. (all \ items) \cup items = all
  OBVIOUS
<1>. QED  BY <1>6, <1>7, TallyCounts DEF I, L

\* buildModelTreeRows accounts for the models the filter lets through.
LEMMA ModelsAccounted ==
  ASSUME IsFiniteSet(DOMAIN list), HavePaths(DOMAIN list)
  PROVE  AccountsFor(ModelTreeRows, FilteredModels)
<1>. DEFINE singles == {r \in FilteredModels : Len(PathOf[r]) = 1}
            items == FilteredModels \ singles
            f == CHOOSE g : Grows(g, items, PathsOf(items))
<1>1. ModelTreeRows = {LeafRow(r, 0) : r \in singles} \cup UNION {f[<<PathOf[r][1]>>] : r \in items}
  BY DEF ModelTreeRows, Grows, Branch, Below, IsOpen, Exactly, Children, PathsOf
<1>2. IsFiniteSet(FilteredModels) /\ FilteredModels \subseteq DOMAIN list
  BY FS_Subset DEF FilteredModels
<1>3. items \in SUBSET FilteredModels /\ IsFiniteSet(items) /\ HavePaths(items)
  BY <1>2, FS_Subset DEF HavePaths
<1>4. FilteredModels \ items = singles
  OBVIOUS
<1>. HIDE DEF items
<1>5. Grows(f, items, PathsOf(items))
  BY <1>3, TreeGrows
<1>. HIDE DEF f
<1>6. UNION {f[<<PathOf[r][1]>>] : r \in items} = Together(f, RootsOf(items))
  BY DEF Together, RootsOf
<1>7. \A q \in RootsOf(items) : Tally(items, f[q], Under(items, q))
  BY <1>3, <1>5, RootsAre, TreeTally
<1>. HIDE DEF singles
<1>8. AccountsFor({LeafRow(r, 0) : r \in FilteredModels \ items} \cup Together(f, RootsOf(items)),
                  FilteredModels)
  BY <1>2, <1>3, <1>7, RootsTally
<1>. QED  BY <1>1, <1>4, <1>6, <1>8

\* buildProviderTreeRows accounts for the providers, grouped by their first segment.
LEMMA ProvidersAccounted ==
  ASSUME IsFiniteSet(DOMAIN list), HavePaths(DOMAIN list)
  PROVE  AccountsFor(ProviderTreeRows, DOMAIN list)
<1>. DEFINE items == {r \in DOMAIN list : Len(PathOf[r]) >= 2}
            group(g, o) == {GroupRow(g, 0, Under(items, g), o)}
            leaves(g) == {LeafRow(r, 1) : r \in Under(items, g)}
            drawn(g) == group(g, g \in expanded) \cup IF g \in expanded THEN leaves(g) ELSE {}
            R == [g \in RootsOf(items) |-> drawn(g)]
<1>1. items \in SUBSET DOMAIN list /\ HavePaths(items) /\ IsFiniteSet(items)
  BY FS_Subset DEF HavePaths
<1>2. ProviderTreeRows = {LeafRow(r, 0) : r \in (DOMAIN list) \ items} \cup Together(R, RootsOf(items))
  <2>1. ProviderTreeRows = {LeafRow(r, 0) : r \in (DOMAIN list) \ items}
                           \cup UNION {drawn(<<PathOf[r][1]>>) : r \in items}
    BY DEF ProviderTreeRows
  <2>. HIDE DEF drawn, items
  <2>2. UNION {drawn(<<PathOf[r][1]>>) : r \in items} = Together(R, RootsOf(items))
    BY DEF Together, RootsOf
  <2>. QED  BY <2>1, <2>2
<1>. HIDE DEF items
<1>3. ASSUME NEW g \in RootsOf(items)  PROVE Tally(items, R[g], Under(items, g))
  <2>1. CASE g \notin expanded
    <3>1. R[g] = group(g, FALSE)
      <4>1. (g \in expanded) = FALSE
        BY <2>1
      <4>. QED  BY <2>1, <4>1
    <3>2. Tally(items, group(g, FALSE), Under(items, g))
      BY TallyGroup
    <3>. QED  BY <3>1, <3>2
  <2>2. CASE g \in expanded
    <3>1. R[g] = group(g, TRUE) \cup leaves(g)
      <4>1. (g \in expanded) = TRUE
        BY <2>2
      <4>. QED  BY <2>2, <4>1
    <3>2. Tally(items, group(g, TRUE), {})
      BY TallyGroup
    <3>3. Tally(items, leaves(g), Under(items, g))
      <4>1. IsFiniteSet(Under(items, g))
        BY <1>1, FS_Subset DEF Under
      <4>. QED  BY <4>1, TallyLeaves
    <3>. HIDE DEF R, group, leaves
    <3>4. Tally(items, group(g, TRUE) \cup leaves(g), {} \cup Under(items, g))
      BY <3>2, <3>3, TallyTwo
    <3>. QED  BY <3>1, <3>4
  <2>. QED  BY <2>1, <2>2
<1>. HIDE DEF R
<1>4. AccountsFor({LeafRow(r, 0) : r \in (DOMAIN list) \ items} \cup Together(R, RootsOf(items)), DOMAIN list)
  BY <1>1, <1>3, RootsTally
<1>. QED  BY <1>2, <1>4

(* --------------------- the composer of a pipeline ----------------------- *)

BindingType == [id : Bindings, provider : Providers, middleware : AllMiddlewares, order : Nat]
ItemType == [id : Bindings \cup {Null}, middleware : AllMiddlewares]

\* The table of bindings, with its primary key and its unique index.
BindingsOK ==
  /\ bindings \subseteq BindingType /\ IsFiniteSet(bindings)
  /\ \A a, b \in bindings :
       a.id = b.id \/ (a.provider = b.provider /\ a.middleware = b.middleware) => a = b

\* What is remembered of a binding under its id is still true of it.
Known(items) ==
  \A i \in DOMAIN items : \A b \in bindings : b.id = items[i].id => b.middleware = items[i].middleware

StepOK(c) ==
  /\ "provider" \in DOMAIN c /\ c.provider \in Providers
  /\ c.kind \in {"open", "current"} => c.answer \in Seq(BindingType) /\ Known(c.answer)
  /\ c.kind = "upsert" =>
       c.at \in Nat /\ c.answer[1].id \in Bindings \cup {Null}
       /\ c.answer[1].middleware \in AllMiddlewares

ComposerOK ==
  /\ composer \in [provider : Providers \cup {Null}, pipeline : Seq(ItemType), shown : BOOLEAN]
  /\ Known(composer.pipeline)
  /\ \A c \in BagToSet(requests) : c.kind \in Steps => StepOK(c)

OwnBindings(p) == {b \in bindings : b.provider = p}

\* The bindings of the pipeline are bindings of the provider.
Owned(p) ==
  \A i \in DOMAIN composer.pipeline : composer.pipeline[i].id # Null =>
    \E b \in OwnBindings(p) : b.id = composer.pipeline[i].id

\* What a save still has to delete is on its list.
Covers(left, p) == \A b \in OwnBindings(p) : Kept(b) \/ \E i \in DOMAIN left : left[i].id = b.id

\* Of the pipeline the first k items are stored, and nothing else is left.
Progress(k, p) ==
  LET items == composer.pipeline
  IN  /\ \A b \in OwnBindings(p) : \E i \in DOMAIN items :
           /\ b.middleware = items[i].middleware
           /\ b.id = items[i].id \/ (items[i].id = Null /\ i <= k)
           /\ i <= k => b.order = i
      /\ \A i \in 1 .. k : \E b \in OwnBindings(p) : b.middleware = items[i].middleware

Sound(c) ==
  /\ c.provider = composed.provider
  /\ composed.middlewares = MiddlewaresOf(composer.pipeline)
  /\ ~Doubled
  /\ Owned(c.provider)
  /\ c.kind = "current" /\ c.state = "answered" => Covers(c.answer, c.provider)
  /\ c.kind = "delete" =>
       /\ c.left \in Seq(BindingType) /\ c.left # <<>> /\ ~Kept(c.left[1])
       /\ Covers(IF c.state = "sent" THEN c.left ELSE Tail(c.left), c.provider)
  /\ c.kind = "upsert" =>
       /\ c.at \in DOMAIN composer.pipeline /\ c.answer = <<composer.pipeline[c.at]>>
       /\ Progress(IF c.state = "sent" THEN c.at - 1 ELSE c.at, c.provider)

OnlySave(c) ==
  /\ c \in BagToSet(requests) /\ c.kind \in SaveSteps /\ requests[c] = 1
  /\ \A d \in BagToSet(requests) : d.kind \in SaveSteps => d = c

StoredInOrder ==
  LET mws == composed.middlewares
      own == OwnBindings(composed.provider)
  IN  /\ mws \in Seq(AllMiddlewares)
      /\ \A i, j \in DOMAIN mws : mws[i] = mws[j] => i = j
      /\ \A b \in own : \E i \in DOMAIN mws : b.middleware = mws[i] /\ b.order = i
      /\ \A i \in DOMAIN mws : \E b \in own : b.middleware = mws[i]

SaveInv ==
  composed # Null =>
    IF stored THEN ~Saving /\ StoredInOrder
    ELSE Saving => \E c \in BagToSet(requests) : OnlySave(c) /\ Sound(c)

Precedes(a, b) == a.order < b.order \/ (a.order = b.order /\ a.id <= b.id)

\* The gateway lists every binding of a provider, each in the place its rank gives it.
LEMMA BindingsListed ==
  ASSUME BindingsOK, NEW p
  PROVE  /\ BindingsOf(p) \in Seq(BindingType)
         /\ Len(BindingsOf(p)) = Cardinality(OwnBindings(p))
         /\ \A i \in DOMAIN BindingsOf(p) :
              /\ BindingsOf(p)[i] \in OwnBindings(p)
              /\ Cardinality({a \in OwnBindings(p) : Precedes(a, BindingsOf(p)[i])}) = i
         /\ \A b \in OwnBindings(p) : \E i \in DOMAIN BindingsOf(p) : BindingsOf(p)[i] = b
<1>. DEFINE own == OwnBindings(p)
            R == {x \in own \X own : Precedes(x[1], x[2])}
            rank(b) == Cardinality({a \in own : Precedes(a, b)})
            N == Cardinality(own)
<1>1. IsFiniteSet(own) /\ own \subseteq BindingType /\ own \subseteq bindings
  BY FS_Subset DEF BindingsOK, OwnBindings
<1>2. \A b \in own : b.order \in Nat /\ b.id \in Nat
  BY <1>1, AdminAssumption DEF BindingType
<1>3. /\ \A a, b \in own : <<a, b>> \in R <=> Precedes(a, b)
      /\ \A b \in own : {a \in own : <<a, b>> \in R} = {a \in own : Precedes(a, b)}
  OBVIOUS
<1>4. /\ \A a, b \in own : <<a, b>> \in R \/ <<b, a>> \in R
      /\ \A a, b \in own : <<a, b>> \in R /\ <<b, a>> \in R => a = b
      /\ \A a, b, c \in own : <<a, b>> \in R /\ <<b, c>> \in R => <<a, c>> \in R
  <2>. HIDE DEF R, own
  <2>1. \A a, b \in own : Precedes(a, b) \/ Precedes(b, a)
    BY <1>2 DEF Precedes
  <2>2. \A a, b \in own : Precedes(a, b) /\ Precedes(b, a) => a.id = b.id
    BY <1>2 DEF Precedes
  <2>3. \A a, b, c \in own : Precedes(a, b) /\ Precedes(b, c) => Precedes(a, c)
    BY <1>2 DEF Precedes
  <2>4. \A a, b \in own : a.id = b.id => a = b
    BY <1>1 DEF BindingsOK
  <2>. QED  BY <1>3, <2>1, <2>2, <2>3, <2>4
<1>. HIDE DEF R
<1>5. /\ N \in Nat
      /\ \A b \in own : rank(b) \in 1 .. N
      /\ \A i \in 1 .. N : \E b \in own : rank(b) = i
      /\ \A b, c \in own : rank(b) = rank(c) => b = c
  <2>. DEFINE below(b) == {a \in own : <<a, b>> \in R}
  <2>1. \A b \in own : Cardinality(below(b)) = rank(b)
    BY <1>3
  <2>2. /\ N \in Nat
        /\ \A b \in own : Cardinality(below(b)) \in 1 .. N
        /\ \A i \in 1 .. N : \E b \in own : Cardinality(below(b)) = i
        /\ \A b, c \in own : Cardinality(below(b)) = Cardinality(below(c)) => b = c
    <3>. HIDE DEF own
    <3>. QED  BY <1>1, <1>4, Ranks
  <2>. HIDE DEF own, rank, below, N
  <2>. QED  BY <2>1, <2>2
<1>6. BindingsOf(p) = [i \in 1 .. N |-> CHOOSE b \in own : rank(b) = i]
  BY DEF BindingsOf, OwnBindings, Precedes
<1>. HIDE DEF own, N, rank
<1>7. \A i \in 1 .. N : BindingsOf(p)[i] \in own /\ rank(BindingsOf(p)[i]) = i
  BY <1>5, <1>6
<1>8. BindingsOf(p) = [i \in 1 .. N |-> BindingsOf(p)[i]]
  BY <1>6
<1>9. BindingsOf(p) \in Seq(BindingType)
  <2>. DEFINE e(i) == BindingsOf(p)[i]
  <2>1. \A i \in 1 .. N : e(i) \in BindingType
    BY <1>1, <1>7
  <2>2. [i \in 1 .. N |-> e(i)] \in Seq(BindingType)
    <3>. HIDE DEF e
    <3>. QED  BY <1>5, <2>1, IsASeq
  <2>. QED  BY <1>8, <2>2
<1>10. DOMAIN BindingsOf(p) = 1 .. N /\ Len(BindingsOf(p)) = N
  BY <1>5, <1>6, <1>9, LenProperties
<1>11. \A b \in own : \E i \in 1 .. N : BindingsOf(p)[i] = b
  BY <1>5, <1>7
<1>. QED  BY <1>7, <1>9, <1>10, <1>11 DEF own, N, rank

\* Where the middlewares of a save are stored in their order, they are listed in it.
LEMMA InOrderIsStored ==
  ASSUME BindingsOK, StoredInOrder
  PROVE  MiddlewaresOf(Pipeline(BindingsOf(composed.provider))) = composed.middlewares
<1>. DEFINE p == composed.provider
            mws == composed.middlewares
            own == OwnBindings(p)
            n == Len(mws)
            f == [b \in own |-> b.order]
            upTo(b) == {a \in own : Precedes(a, b)}
            bs == BindingsOf(p)
<1>1. n \in Nat /\ DOMAIN mws = 1 .. n
  BY LenProperties DEF StoredInOrder
<1>2. \A b \in own : b.order \in 1 .. n /\ b.middleware = mws[b.order]
  BY <1>1 DEF StoredInOrder
<1>3. \A a, b \in own : a.order = b.order => a = b
  BY <1>2 DEF BindingsOK, OwnBindings
<1>4. \A i \in 1 .. n : \E b \in own : b.order = i
  BY <1>1, <1>2 DEF StoredInOrder
<1>. HIDE DEF own, n, mws
<1>5. Cardinality(own) = n
  <2>1. f \in Bijection(own, 1 .. n)
    <3>. HIDE DEF f
    <3>1. f \in [own -> 1 .. n] /\ \A b \in own : f[b] = b.order
      BY <1>2 DEF f
    <3>. QED  BY <3>1, <1>3, <1>4 DEF Bijection, Injection, IsInjective, Surjection
  <2>2. IsFiniteSet(own)
    BY FS_Subset DEF own, OwnBindings, BindingsOK
  <2>. QED  BY <1>1, <2>1, <2>2, FS_Bijection, FS_Interval DEF ExistsBijection
<1>6. ASSUME NEW b \in own  PROVE Cardinality(upTo(b)) = b.order
  <2>. DEFINE g == [a \in upTo(b) |-> a.order]
  <2>1. \A a \in own : a \in upTo(b) <=> a.order <= b.order
    <3>1. \A a \in own : a.order \in Nat /\ a.id \in Nat
      BY AdminAssumption DEF own, OwnBindings, BindingsOK, BindingType
    <3>. QED  BY <1>3, <3>1 DEF Precedes
  <2>2. g \in Bijection(upTo(b), 1 .. b.order)
    <3>1. \A a \in upTo(b) : a.order \in 1 .. b.order
      BY <1>2, <2>1
    <3>2. \A i \in 1 .. b.order : \E a \in upTo(b) : a.order = i
      BY <1>1, <1>2, <1>4, <2>1
    <3>3. \A a, c \in upTo(b) : a.order = c.order => a = c
      BY <1>3
    <3>. HIDE DEF g, upTo
    <3>4. g \in [upTo(b) -> 1 .. b.order] /\ \A a \in upTo(b) : g[a] = a.order
      BY <3>1 DEF g
    <3>. QED  BY <3>2, <3>3, <3>4 DEF Bijection, Injection, IsInjective, Surjection
  <2>3. IsFiniteSet(upTo(b))
    BY FS_Subset DEF own, OwnBindings, BindingsOK
  <2>4. b.order \in 1 .. n
    BY <1>2
  <2>. QED  BY <1>1, <2>2, <2>3, <2>4, FS_Bijection, FS_Interval DEF ExistsBijection
<1>7. /\ bs \in Seq(BindingType) /\ Len(bs) = n /\ DOMAIN bs = 1 .. n
      /\ \A i \in 1 .. n : bs[i] \in own /\ bs[i].order = i
  <2>1. /\ bs \in Seq(BindingType) /\ Len(bs) = n
        /\ \A i \in DOMAIN bs : bs[i] \in own /\ Cardinality(upTo(bs[i])) = i
    BY <1>5, BindingsListed DEF own
  <2>. HIDE DEF bs, upTo
  <2>2. DOMAIN bs = 1 .. n
    BY <2>1, LenProperties
  <2>. QED  BY <2>1, <2>2, <1>6
<1>8. \A i \in 1 .. n : bs[i].middleware = mws[i]
  BY <1>2, <1>7
<1>9. MiddlewaresOf(Pipeline(bs)) = [i \in 1 .. n |-> bs[i].middleware]
  BY <1>7 DEF MiddlewaresOf, Pipeline, Item
<1>10. mws \in Seq(AllMiddlewares) /\ mws = [i \in 1 .. n |-> mws[i]]
  BY <1>1, LenProperties DEF StoredInOrder, mws, n
<1>. QED  BY <1>8, <1>9, <1>10 DEF mws

ComposerTypes == BindingsOK /\ ComposerOK

\* The requests of these kinds are the same, and as many.
Untouched(kinds) ==
  \A e : e.kind \in kinds =>
    /\ e \in BagToSet(requests') <=> e \in BagToSet(requests)
    /\ e \in BagToSet(requests) => requests'[e] = requests[e]

LEMMA Counted ==
  ASSUME NEW B, IsABag(B), NEW d
  PROVE  /\ \A e \in BagToSet(B) \ {d} : (B (+) SetToBag({d}))[e] = B[e]
         /\ d \notin BagToSet(B) => (B (+) SetToBag({d}))[d] = 1
<1>1. \A e \in DOMAIN B : B[e] \in Nat /\ B[e] > 0
  BY DEF IsABag
<1>. QED  BY <1>1 DEF BagToSet, SetToBag, (+)

LEMMA EndedCounts ==
  ASSUME NEW c, IsABag(requests)
  PROVE  /\ \A e \in BagToSet(requests) \ {c} : Ended(c)[e] = requests[e]
         /\ requests[c] = 1 => c \notin BagToSet(Ended(c))
<1>. DEFINE left == [e \in DOMAIN requests |-> IF e = c THEN requests[e] - 1 ELSE requests[e]]
<1>1. Ended(c) = [e \in {d \in DOMAIN left : left[d] > 0} |-> left[e]]
  BY DEF Ended, (-), SetToBag
<1>2. \A e \in DOMAIN requests : requests[e] \in Nat /\ requests[e] > 0
  BY DEF IsABag
<1>. QED  BY <1>1, <1>2 DEF BagToSet

\* Requests of other kinds come and go.
LEMMA UntouchedBy ==
  ASSUME NEW kinds, IsABag(requests), NEW c, NEW d, c.kind \notin kinds, d.kind \notin kinds,
         \/ requests' = Then(c, d) \/ requests' = Ended(c) \/ Send(d) \/ UNCHANGED requests
  PROVE  Untouched(kinds)
<1>. SUFFICES ASSUME NEW e, e.kind \in kinds
              PROVE  /\ e \in BagToSet(requests') <=> e \in BagToSet(requests)
                     /\ e \in BagToSet(requests) => requests'[e] = requests[e]
  BY DEF Untouched
<1>1. e # c /\ e # d
  OBVIOUS
<1>2. /\ IsABag(Ended(c))
      /\ e \in BagToSet(Ended(c)) <=> e \in BagToSet(requests)
      /\ e \in BagToSet(requests) => Ended(c)[e] = requests[e]
  BY <1>1, EndedKeeps, EndedCounts
<1>3. ASSUME NEW B, IsABag(B), requests' = B (+) SetToBag({d}),
             e \in BagToSet(B) <=> e \in BagToSet(requests),
             e \in BagToSet(B) => B[e] = requests[e]
      PROVE  /\ e \in BagToSet(requests') <=> e \in BagToSet(requests)
             /\ e \in BagToSet(requests) => requests'[e] = requests[e]
  <2>1. BagToSet(requests') = BagToSet(B) \cup {d}
    BY <1>3, AddedTo
  <2>2. e \in BagToSet(B) => requests'[e] = B[e]
    BY <1>1, <1>3, Counted
  <2>. QED  BY <1>1, <1>3, <2>1, <2>2
<1>4. requests' = Then(c, d) => requests' = Ended(c) (+) SetToBag({d})
  BY DEF Then
<1>5. Send(d) => requests' = requests (+) SetToBag({d})
  BY DEF Send
<1>. QED  BY <1>2, <1>3, <1>4, <1>5

\* The bindings stay, and what is new is of the right kind.
LEMMA TypesKept ==
  ASSUME ComposerTypes, UNCHANGED bindings, NEW d, d.kind \in Steps => StepOK(d),
         BagToSet(requests') \subseteq BagToSet(requests) \cup {d},
         composer' \in [provider : Providers \cup {Null}, pipeline : Seq(ItemType), shown : BOOLEAN],
         Known(composer'.pipeline)
  PROVE  ComposerTypes'
<1>1. BindingsOK'
  BY DEF ComposerTypes, BindingsOK
<1>2. \A items : Known(items)' = Known(items)
  BY DEF Known
<1>3. \A e : StepOK(e)' = StepOK(e)
  BY <1>2 DEF StepOK
<1>4. Known(composer.pipeline)'
  BY DEF Known
<1>. QED  BY <1>1, <1>3, <1>4 DEF ComposerTypes, ComposerOK

\* What the gateway lists is known.
LEMMA ListedKnown ==
  ASSUME BindingsOK, NEW p
  PROVE  BindingsOf(p) \in Seq(BindingType) /\ Known(BindingsOf(p))
<1>1. /\ BindingsOf(p) \in Seq(BindingType)
      /\ \A i \in DOMAIN BindingsOf(p) : BindingsOf(p)[i] \in bindings
  BY BindingsListed DEF OwnBindings
<1>2. Known(BindingsOf(p))
  BY <1>1 DEF Known, BindingsOK
<1>. QED  BY <1>1, <1>2

\* A binding deleted: the others stay what they were.
LEMMA DeletedOK ==
  ASSUME BindingsOK, NEW id, bindings' = {b \in bindings : b.id # id}
  PROVE  BindingsOK' /\ \A items : Known(items) => Known(items)'
<1>1. bindings' \subseteq bindings
  OBVIOUS
<1>2. IsFiniteSet(bindings')
  BY <1>1, FS_Subset DEF BindingsOK
<1>. QED  BY <1>1, <1>2 DEF BindingsOK, Known

\* A binding renumbered: the others stay what they were, and it is still what it was.
LEMMA RenumberedBindings ==
  ASSUME BindingsOK, NEW id, NEW n \in Nat, Renumber(id, n)
  PROVE  /\ \A b \in bindings' : \E a \in bindings :
              /\ a.id = b.id /\ a.provider = b.provider /\ a.middleware = b.middleware
              /\ b.order = IF b.id = id THEN n ELSE a.order
         /\ \A a \in bindings : \E b \in bindings' :
              /\ a.id = b.id /\ a.provider = b.provider /\ a.middleware = b.middleware
         /\ bindings' \subseteq BindingType /\ IsFiniteSet(bindings')
<1>. DEFINE new(a) == IF a.id = id THEN Renumbered(a, n) ELSE a
            f == [a \in bindings |-> new(a)]
<1>1. \A a \in bindings :
        /\ new(a).id = a.id /\ new(a).provider = a.provider /\ new(a).middleware = a.middleware
        /\ new(a).order = IF a.id = id THEN n ELSE a.order
        /\ new(a) \in BindingType
  BY DEF Renumbered, BindingsOK, BindingType
<1>2. bindings' = {new(a) : a \in bindings}
  BY DEF Renumber
<1>. HIDE DEF new
<1>3. f \in Surjection(bindings, bindings')
  BY <1>2 DEF Surjection
<1>4. IsFiniteSet(bindings')
  BY <1>3, FS_Surjection DEF BindingsOK
<1>. QED  BY <1>1, <1>2, <1>4

LEMMA RenumberOK ==
  ASSUME BindingsOK, NEW id, NEW n \in Nat, Renumber(id, n)
  PROVE  BindingsOK' /\ \A items : Known(items) => Known(items)'
<1>1. /\ \A b \in bindings' : \E a \in bindings :
           /\ a.id = b.id /\ a.provider = b.provider /\ a.middleware = b.middleware
           /\ b.order = IF b.id = id THEN n ELSE a.order
      /\ bindings' \subseteq BindingType /\ IsFiniteSet(bindings')
  BY RenumberedBindings
<1>2. \A items : Known(items) => Known(items)'
  BY <1>1 DEF Known
<1>3. ASSUME NEW a \in bindings', NEW b \in bindings',
             a.id = b.id \/ (a.provider = b.provider /\ a.middleware = b.middleware)
      PROVE  a = b
  <2>1. PICK x \in bindings : x.id = a.id /\ x.provider = a.provider
                              /\ x.middleware = a.middleware
                              /\ a.order = IF a.id = id THEN n ELSE x.order
    BY <1>1
  <2>2. PICK y \in bindings : y.id = b.id /\ y.provider = b.provider
                              /\ y.middleware = b.middleware
                              /\ b.order = IF b.id = id THEN n ELSE y.order
    BY <1>1
  <2>3. x = y
    BY <1>3, <2>1, <2>2 DEF BindingsOK
  <2>4. a.id = b.id /\ a.provider = b.provider /\ a.middleware = b.middleware /\ a.order = b.order
    BY <2>1, <2>2, <2>3
  <2>. QED  BY <1>1, <2>4 DEF BindingType
<1>. QED  BY <1>1, <1>2, <1>3 DEF BindingsOK

\* A binding made: nobody remembers anything under its id.
LEMMA BindOK ==
  ASSUME BindingsOK, NEW p \in Providers, NEW m \in AllMiddlewares, NEW n \in Nat, Bind(p, m, n)
  PROVE  /\ BindingsOK'
         /\ \A items : Known(items) /\ IdsOf(items) \subseteq Remembered => Known(items)'
<1>1. CASE UNCHANGED bindings
  BY <1>1 DEF BindingsOK, Known
<1>2. CASE ~\E b \in bindings : b.provider = p /\ b.middleware = m
  <2>1. PICK id \in Bindings \ Remembered :
          bindings' = bindings \cup {[id |-> id, provider |-> p, middleware |-> m, order |-> n]}
    BY <1>2 DEF Bind
  <2>. DEFINE new == [id |-> id, provider |-> p, middleware |-> m, order |-> n]
  <2>2. /\ new.id = id /\ new.provider = p /\ new.middleware = m
        /\ new \in BindingType
    BY DEF BindingType
  <2>. HIDE DEF new
  <2>3. bindings' = bindings \cup {new}
    BY <2>1 DEF new
  <2>4. \A b \in bindings : b.id # id
    BY DEF Remembered
  <2>5. IsFiniteSet(bindings')
    BY <2>3, FS_AddElement DEF BindingsOK
  <2>6. BindingsOK'
    BY <1>2, <2>2, <2>3, <2>4, <2>5 DEF BindingsOK
  <2>7. ASSUME NEW items, Known(items), IdsOf(items) \subseteq Remembered
        PROVE  Known(items)'
    BY <2>2, <2>3, <2>7 DEF Known, IdsOf
  <2>. QED  BY <2>6, <2>7
<1>. QED  BY <1>1, <1>2 DEF Bind

\* A step of the pages that has nothing to do with the composer.
Aside ==
  /\ UNCHANGED composerVars
  /\ \E c, d : /\ c.kind \notin Steps /\ d.kind \notin Steps
               /\ \/ requests' = Then(c, d) \/ requests' = Ended(c)
                  \/ Send(d) \/ UNCHANGED requests

LEMMA RequestsAfter ==
  ASSUME IsABag(requests), NEW c, NEW d,
         \/ requests' = Then(c, d) \/ requests' = Ended(c) \/ Send(d) \/ UNCHANGED requests
  PROVE  BagToSet(requests') \subseteq BagToSet(requests) \cup {d}
<1>1. IsABag(Ended(c)) /\ BagToSet(Ended(c)) \subseteq BagToSet(requests)
  BY EndedKeeps
<1>2. ASSUME NEW B, IsABag(B), BagToSet(B) \subseteq BagToSet(requests),
             requests' = B (+) SetToBag({d})
      PROVE  BagToSet(requests') \subseteq BagToSet(requests) \cup {d}
  BY <1>2, AddedTo
<1>3. requests' = Then(c, d) => requests' = Ended(c) (+) SetToBag({d})
  BY DEF Then
<1>4. Send(d) => requests' = requests (+) SetToBag({d})
  BY DEF Send
<1>. QED  BY <1>1, <1>2, <1>3, <1>4

LEMMA GetListKind ==
  (\A n : GetList(n).kind = "list") /\ GetList(NoWrite).kind = "list" /\ "list" \notin Steps
BY DEF GetList, Steps, SaveSteps

LEMMA AsideClick ==
  ASSUME \/ ProviderPage \/ ModelPage \/ TierPage \/ KeyPage \/ RulePage
         \/ MiddlewarePage \/ \E g \in Groups : ToggleGroup(g)
  PROVE  Aside
<1>1. ASSUME UNCHANGED composerVars, NEW d, d.kind \notin Steps, UNCHANGED requests \/ Send(d)
      PROVE  Aside
  BY <1>1 DEF Aside
<1>2. \A w, row, value, checked, closes, mint :
        Write(w, row, value, checked, closes, mint).kind \notin Steps
  BY DEF Write, Steps, SaveSteps
<1>3. ASSUME NEW p, NEW w, NEW row, NEW value, NEW checked, Change(p, w, row, value, checked)
      PROVE  Aside
  BY <1>1, <1>2, <1>3 DEF Change
<1>4. ASSUME NEW p, NEW value, NEW checked, NEW mint, SaveForm(p, value, checked, mint)
      PROVE  Aside
  BY <1>1, <1>2, <1>4 DEF SaveForm
<1>5. ASSUME NEW p, NEW row, OpenForm(p, row)  PROVE Aside
  BY <1>1, <1>5, GetListKind DEF OpenForm
<1>6. ASSUME NEW p, ListPage(p)  PROVE Aside
  BY <1>1, <1>6, GetListKind DEF ListPage
<1>7. ASSUME FilterEnabled \/ \E g \in Groups : ToggleGroup(g)  PROVE Aside
  BY <1>1, <1>7, GetListKind DEF FilterEnabled, ToggleGroup
<1>8. CASE ProviderPage
  BY <1>3, <1>4, <1>5, <1>6, <1>8 DEF ProviderPage, ListProviders, NewProvider,
     CreateProvider, SyncModels, SaveProvider, EditProvider, RemoveProvider
<1>9. CASE ModelPage
  BY <1>3, <1>4, <1>5, <1>6, <1>7, <1>9 DEF ModelPage, ListModels, NewModel,
     CreateNewModel, SaveModel, EditModel, ToggleModel, ToggleFree, DeleteModel
<1>10. CASE TierPage
  BY <1>3, <1>4, <1>5, <1>6, <1>10 DEF TierPage, ListTiers, NewTier, SaveTier, EditTier,
     RemoveTier, ToggleTier
<1>11. CASE KeyPage
  BY <1>3, <1>4, <1>5, <1>6, <1>11 DEF KeyPage, ListKeys, NewKey, SubmitCreateKey, SaveKey,
     EditKey, RevokeKey, ResetBudget
<1>12. CASE RulePage
  BY <1>3, <1>4, <1>5, <1>6, <1>12 DEF RulePage, ListRules, NewRule, SaveRule, EditRule,
     ToggleRule, RemoveRule
<1>13. CASE MiddlewarePage
  BY <1>3, <1>6, <1>13 DEF MiddlewarePage, ListMiddlewares, Rescan
<1>. QED  BY <1>7, <1>8, <1>9, <1>10, <1>11, <1>12, <1>13

LEMMA AsideServed ==
  ASSUME ListsInv, NEW c \in BagToSet(requests),
         \/ ServeWrite(c) \/ FinishWrite(c) \/ ServeList(c)
         \/ TakeWrite(c) \/ TakeList(c) \/ MintUserKey(c)
  PROVE  Aside
<1>1. ASSUME UNCHANGED composerVars, c.kind \notin Steps, NEW d, d.kind \notin Steps,
             requests' = Then(c, d) \/ requests' = Ended(c)
      PROVE  Aside
  BY <1>1 DEF Aside
<1>2. "write" \notin Steps /\ "mint" \notin Steps
  BY DEF Steps, SaveSteps
<1>3. c.kind # "mint" => {"kind", "state", "answer"} \subseteq DOMAIN c
  BY DEF ListsInv, RequestOK, ShapeOf
<1>4. CASE ServeWrite(c) \/ FinishWrite(c)
  <2>1. c.kind = "write" /\ UNCHANGED composerVars
    BY <1>4 DEF ServeWrite, FinishWrite
  <2>2. \E d : d.kind = "write" /\ requests' = Then(c, d)
    <3>1. \A s, a : [c EXCEPT !.state = s, !.answer = a].kind = "write"
      BY <1>3, <2>1
    <3>2. \A s, a, w : [c EXCEPT !.state = s, !.answer = a, !.writes = w].kind = "write"
      BY <1>3, <2>1
    <3>3. \A s, a, w, r :
            [c EXCEPT !.row = r, !.writes = w, !.answer = a, !.state = s].kind = "write"
      BY <1>3, <2>1
    <3>4. CASE ServeWrite(c)
      <4>1. \/ \E a : requests' = Then(c, [c EXCEPT !.state = "answered", !.answer = a])
            \/ \E s, a, w, r : requests' = Then(c, [c EXCEPT !.row = r, !.writes = w,
                                                           !.answer = a, !.state = s])
        BY <3>4, Zenon DEF ServeWrite
      <4>. QED  BY <3>1, <3>3, <4>1
    <3>5. CASE FinishWrite(c)
      <4>1. CASE \E a \in {"ok", "error"} :
                   requests' = Then(c, [c EXCEPT !.state = "answered", !.answer = a])
        BY <3>1, <4>1
      <4>2. CASE requests' = Then(c, [c EXCEPT !.state = "answered", !.answer = "error",
                                               !.writes = writes + 1])
        BY <3>2, <4>2
      <4>. QED  BY <3>5, <4>1, <4>2 DEF FinishWrite
    <3>. QED  BY <1>4, <3>4, <3>5
  <2>. QED  BY <1>1, <1>2, <2>1, <2>2
<1>5. CASE ServeList(c)
  <2>1. PICK a : /\ c.kind = "list" /\ UNCHANGED composerVars
                 /\ requests' = Then(c, [c EXCEPT !.state = "answered", !.answer = a,
                                                  !.writes = writes])
    BY <1>5 DEF ServeList
  <2>. DEFINE d == [c EXCEPT !.state = "answered", !.answer = a, !.writes = writes]
  <2>2. d.kind = "list" /\ requests' = Then(c, d)
    BY <1>3, <2>1
  <2>. HIDE DEF d
  <2>. QED  BY <1>1, <2>1, <2>2, GetListKind
<1>6. CASE TakeWrite(c)
  <2>. DEFINE mint == [kind |-> "mint", state |-> "sent", writes |-> c.writes]
              next == GetList(c.writes)
  <2>1. /\ c.kind = "write" /\ UNCHANGED composerVars
        /\ \/ requests' = Ended(c) \/ requests' = Then(c, mint) \/ requests' = Then(c, next)
    BY <1>6 DEF TakeWrite, Reload
  <2>2. mint.kind = "mint" /\ next.kind = "list"
    BY GetListKind
  <2>. HIDE DEF mint, next
  <2>. QED  BY <1>1, <1>2, <2>1, <2>2, GetListKind
<1>7. CASE TakeList(c)
  BY <1>1, <1>7, GetListKind DEF TakeList
<1>8. CASE MintUserKey(c)
  <2>. DEFINE next == GetList(c.writes)
  <2>1. /\ c.kind = "mint" /\ UNCHANGED composerVars
        /\ requests' = Ended(c) \/ requests' = Then(c, next)
    BY <1>8 DEF MintUserKey, Reload
  <2>2. next.kind = "list"
    BY GetListKind
  <2>. HIDE DEF next
  <2>. QED  BY <1>1, <1>2, <2>1, <2>2, GetListKind
<1>. QED  BY <1>4, <1>5, <1>6, <1>7, <1>8

ComposerType ==
  [provider : Providers \cup {Null}, pipeline : Seq(ItemType), shown : BOOLEAN]

\* Every item is one the pipeline had, or a new one.
EditOf(items, l) ==
  /\ items \in Seq(ItemType)
  /\ \A i \in DOMAIN items : items[i].id = Null \/ \E j \in DOMAIN l : items[i] = l[j]

LEMMA EditKnown ==
  ASSUME BindingsOK, NEW l, Known(l), NEW items, EditOf(items, l)
  PROVE  Known(items)
<1>1. \A b \in bindings : b.id # Null
  BY AdminAssumption DEF BindingsOK, BindingType
<1>. QED  BY <1>1 DEF EditOf, Known

LEMMA Edits ==
  ASSUME NEW l \in Seq(ItemType)
  PROVE  /\ \A m \in Middlewares : EditOf(Append(l, [id |-> Null, middleware |-> m]), l)
         /\ \A i \in DOMAIN l : EditOf(RemoveAt(l, i), l)
         /\ \A i \in 2 .. Len(l) : EditOf([l EXCEPT ![i - 1] = l[i], ![i] = l[i - 1]], l)
<1>1. DOMAIN l = 1 .. Len(l) /\ Len(l) \in Nat /\ \A i \in 1 .. Len(l) : l[i] \in ItemType
  BY LenProperties
<1>2. ASSUME NEW m \in Middlewares
      PROVE  EditOf(Append(l, [id |-> Null, middleware |-> m]), l)
  <2>. DEFINE e == [id |-> Null, middleware |-> m]
  <2>1. e \in ItemType /\ e.id = Null
    BY DEF ItemType, AllMiddlewares
  <2>. HIDE DEF e
  <2>2. /\ Append(l, e) \in Seq(ItemType) /\ Len(Append(l, e)) = Len(l) + 1
        /\ \A i \in 1 .. Len(l) : Append(l, e)[i] = l[i]
        /\ Append(l, e)[Len(l) + 1] = e
    BY <2>1, AppendProperties
  <2>3. DOMAIN Append(l, e) = 1 .. Len(l) + 1
    BY <2>2, LenProperties
  <2>4. \A i \in 1 .. Len(l) + 1 : i \in 1 .. Len(l) \/ i = Len(l) + 1
    BY <1>1
  <2>5. EditOf(Append(l, e), l)
    BY <1>1, <2>1, <2>2, <2>3, <2>4 DEF EditOf
  <2>. QED  BY <2>5 DEF e
<1>3. ASSUME NEW i \in DOMAIN l  PROVE EditOf(RemoveAt(l, i), l)
  <2>. DEFINE before == SubSeq(l, 1, i - 1)
              after == SubSeq(l, i + 1, Len(l))
  <2>1. /\ before \in Seq(ItemType) /\ Len(before) = i - 1
        /\ \A j \in 1 .. i - 1 : before[j] = l[j]
    BY <1>1, SubSeqProperties
  <2>2. /\ after \in Seq(ItemType) /\ Len(after) = Len(l) - i
        /\ \A j \in 1 .. Len(l) - i : after[j] = l[i + j]
    <3>1. \A j \in i + 1 .. Len(l) : l[j] \in ItemType
      BY <1>1
    <3>2. /\ after \in Seq(ItemType)
          /\ Len(after) = IF i + 1 <= Len(l) THEN Len(l) - (i + 1) + 1 ELSE 0
          /\ \A j \in 1 .. Len(l) - (i + 1) + 1 : after[j] = l[i + 1 + j - 1]
      BY <1>1, <3>1, SubSeqProperties
    <3>. HIDE DEF after
    <3>3. /\ i \in Nat /\ i <= Len(l)
          /\ i + 1 <= Len(l) => Len(l) - (i + 1) + 1 = Len(l) - i
          /\ ~(i + 1 <= Len(l)) => Len(l) - i = 0
      BY <1>1
    <3>4. Len(after) = Len(l) - i
      BY <3>2, <3>3
    <3>5. ASSUME NEW j \in 1 .. Len(l) - i  PROVE after[j] = l[i + j]
      <4>1. j \in 1 .. Len(l) - (i + 1) + 1 /\ i + 1 + j - 1 = i + j
        BY <1>1, <3>3
      <4>2. after[j] = l[i + 1 + j - 1]
        BY <3>2, <4>1
      <4>. QED  BY <4>1, <4>2
    <3>. QED  BY <3>2, <3>4, <3>5
  <2>. HIDE DEF before, after
  <2>3. /\ before \o after \in Seq(ItemType)
        /\ Len(before \o after) = Len(l) - 1
        /\ \A j \in 1 .. Len(l) - 1 :
             (before \o after)[j] = IF j <= i - 1 THEN before[j] ELSE after[j - (i - 1)]
    <3>1. /\ before \o after \in Seq(ItemType)
          /\ Len(before \o after) = Len(before) + Len(after)
          /\ \A j \in 1 .. Len(before) + Len(after) :
               (before \o after)[j] = IF j <= Len(before) THEN before[j] ELSE after[j - Len(before)]
      BY <2>1, <2>2, ConcatProperties
    <3>2. Len(before) + Len(after) = Len(l) - 1 /\ Len(before) = i - 1
      BY <1>1, <2>1, <2>2
    <3>. QED  BY <3>1, <3>2
  <2>4. DOMAIN (before \o after) = 1 .. Len(l) - 1
    BY <2>3, LenProperties
  <2>5. ASSUME NEW j \in 1 .. Len(l) - 1
        PROVE  \E k \in DOMAIN l : (before \o after)[j] = l[k]
    <3>1. CASE j <= i - 1
      BY <1>1, <2>1, <2>3, <3>1
    <3>2. CASE j > i - 1
      <4>1. j - (i - 1) \in 1 .. Len(l) - i /\ j + 1 \in DOMAIN l
        BY <1>1, <3>2
      <4>2. (before \o after)[j] = l[i + (j - (i - 1))]
        BY <1>1, <2>2, <2>3, <3>2, <4>1
      <4>3. i + (j - (i - 1)) = j + 1
        BY <1>1
      <4>4. (before \o after)[j] = l[j + 1]
        BY <4>2, <4>3
      <4>. QED  BY <4>1, <4>4
    <3>3. j <= i - 1 \/ j > i - 1
      BY <1>1
    <3>. QED  BY <3>1, <3>2, <3>3
  <2>. QED  BY <2>3, <2>4, <2>5 DEF EditOf, RemoveAt, before, after
<1>4. ASSUME NEW i \in 2 .. Len(l)
      PROVE  EditOf([l EXCEPT ![i - 1] = l[i], ![i] = l[i - 1]], l)
  <2>. DEFINE half == [l EXCEPT ![i - 1] = l[i]]
              whole == [half EXCEPT ![i] = l[i - 1]]
  <2>1. i \in 1 .. Len(l) /\ i - 1 \in 1 .. Len(l)
    BY <1>1
  <2>2. /\ half \in Seq(ItemType) /\ Len(half) = Len(l)
        /\ \A j \in 1 .. Len(l) : half[j] = IF j = i - 1 THEN l[i] ELSE l[j]
    BY <1>1, <2>1, ExceptSeq
  <2>. HIDE DEF half
  <2>3. /\ whole \in Seq(ItemType) /\ Len(whole) = Len(l)
        /\ \A j \in 1 .. Len(l) : whole[j] = IF j = i THEN l[i - 1] ELSE half[j]
    BY <1>1, <2>1, <2>2, ExceptSeq
  <2>. HIDE DEF whole
  <2>4. EditOf(whole, l)
    BY <1>1, <2>1, <2>2, <2>3, LenProperties DEF EditOf
  <2>5. whole = [l EXCEPT ![i - 1] = l[i], ![i] = l[i - 1]]
    BY DEF whole, half
  <2>. QED  BY <2>4, <2>5
<1>. QED  BY <1>2, <1>3, <1>4

\* An answer has the fields of its request.
LEMMA AnswerFields ==
  ASSUME NEW c, RequestOK(c), c.kind \in Steps, NEW a
  PROVE  LET d == [c EXCEPT !.state = "answered", !.answer = a]
         IN  /\ d.kind = c.kind /\ d.state = "answered" /\ d.answer = a
             /\ d.provider = c.provider /\ d.left = c.left /\ d.at = c.at
             /\ DOMAIN d = DOMAIN c
BY DEF RequestOK, ShapeOf, Steps, SaveSteps

LEMMA NewStepOK ==
  ASSUME NEW p \in Providers
  PROVE  /\ \A kind \in Steps \ {"upsert"} : StepOK(ComposerRequest(kind, p))
         /\ \A l : StepOK([ComposerRequest("delete", p) EXCEPT !.left = l])
         /\ \A n \in Nat : \A item \in ItemType :
              StepOK([ComposerRequest("upsert", p) EXCEPT !.at = n, !.answer = <<item>>])
<1>1. <<>> \in Seq(BindingType) /\ Known(<<>>)
  BY EmptySeq DEF Known
<1>. QED  BY <1>1 DEF ComposerRequest, StepOK, ItemType

\* The operator's clicks in the composer.
LEMMA ComposerClickTypes ==
  ASSUME ComposerTypes, ListsInv, ComposerPage
  PROVE  ComposerTypes'
<1>. DEFINE l == composer.pipeline
<1>1. composer \in ComposerType /\ l \in Seq(ItemType) /\ Known(l)
  BY DEF ComposerTypes, ComposerOK, ComposerType
<1>2. ASSUME NEW items, EditOf(items, l), Edit(items)  PROVE ComposerTypes'
  <2>1. composer' = [composer EXCEPT !.pipeline = items] /\ UNCHANGED <<requests, bindings>>
    BY <1>2 DEF Edit, Compose
  <2>2. composer' \in ComposerType /\ composer'.pipeline = items
    BY <1>1, <1>2, <2>1 DEF ComposerType, EditOf
  <2>3. Known(composer'.pipeline)
    BY <1>1, <1>2, <2>2, EditKnown DEF ComposerTypes
  <2>. QED  BY <2>1, <2>2, <2>3, GetListKind, TypesKept DEF ComposerType
<1>3. ASSUME NEW p \in Providers, OpenComposer(p)  PROVE ComposerTypes'
  <2>. DEFINE d == ComposerRequest("open", p)
  <2>1. /\ composer' = [provider |-> p, pipeline |-> <<>>, shown |-> FALSE]
        /\ UNCHANGED bindings /\ Send(d)
    BY <1>3 DEF OpenComposer, Compose
  <2>2. composer' \in ComposerType /\ Known(composer'.pipeline)
    BY <2>1, EmptySeq DEF ComposerType, Known
  <2>3. StepOK(d)
    BY NewStepOK DEF Steps
  <2>. HIDE DEF d
  <2>4. BagToSet(requests') \subseteq BagToSet(requests) \cup {d}
    BY <2>1, RequestsAfter DEF ListsInv
  <2>. QED  BY <2>1, <2>2, <2>3, <2>4, TypesKept DEF ComposerType
<1>4. CASE CloseComposer
  <2>1. /\ composer' = [composer EXCEPT !.shown = FALSE]
        /\ UNCHANGED <<requests, bindings>>
    BY <1>4 DEF CloseComposer, Compose
  <2>2. composer' \in ComposerType /\ composer'.pipeline = l
    BY <1>1, <2>1 DEF ComposerType
  <2>. QED  BY <1>1, <2>1, <2>2, GetListKind, TypesKept DEF ComposerType
<1>5. CASE SaveComposer
  <2>. DEFINE d == ComposerRequest("patch", composer.provider)
  <2>1. UNCHANGED <<bindings, composer>> /\ Send(d) /\ composer.provider # Null
    BY <1>5 DEF SaveComposer, Compose
  <2>2. StepOK(d)
    BY <1>1, <2>1, NewStepOK DEF ComposerType, Steps, SaveSteps
  <2>. HIDE DEF d
  <2>3. BagToSet(requests') \subseteq BagToSet(requests) \cup {d}
    BY <2>1, RequestsAfter DEF ListsInv
  <2>. QED  BY <1>1, <2>1, <2>2, <2>3, TypesKept DEF ComposerType
<1>6. ASSUME NEW m \in Middlewares, AddMiddleware(m)  PROVE ComposerTypes'
  BY <1>1, <1>2, <1>6, Edits DEF AddMiddleware
<1>7. CASE RemoveMiddleware
  BY <1>1, <1>2, <1>7, Edits DEF RemoveMiddleware
<1>8. CASE MoveMiddleware
  BY <1>1, <1>2, <1>8, Edits DEF MoveMiddleware
<1>. QED  BY <1>3, <1>4, <1>5, <1>6, <1>7, <1>8 DEF ComposerPage

\* A step of the composer served: its bindings are rows, and what is known stays true.
LEMMA ServedBindings ==
  ASSUME ComposerTypes, ListsInv, NEW c \in BagToSet(requests), ServeStep(c)
  PROVE  /\ BindingsOK'
         /\ \A items : Known(items) /\ IdsOf(items) \subseteq Remembered => Known(items)'
<1>1. BindingsOK /\ StepOK(c)
  BY DEF ServeStep, ComposerTypes, ComposerOK
<1>2. CASE c.kind = "delete"
  <2>1. bindings' = {b \in bindings : b.id # Head(c.left).id}
    BY <1>2 DEF ServeStep, Compose
  <2>. QED  BY <1>1, <2>1, DeletedOK
<1>3. CASE c.kind = "upsert" /\ c.answer[1].id # Null
  <2>1. Renumber(c.answer[1].id, c.at) /\ c.at \in Nat
    BY <1>1, <1>3 DEF ServeStep, Compose, StepOK
  <2>. QED  BY <1>1, <2>1, RenumberOK
<1>4. CASE c.kind = "upsert" /\ c.answer[1].id = Null
  <2>1. /\ Bind(c.provider, c.answer[1].middleware, c.at)
        /\ c.at \in Nat /\ c.provider \in Providers /\ c.answer[1].middleware \in AllMiddlewares
    BY <1>1, <1>4 DEF ServeStep, Compose, StepOK
  <2>. QED  BY <1>1, <2>1, BindOK
<1>5. CASE c.kind \notin {"delete", "upsert"}
  <2>1. UNCHANGED bindings
    BY <1>5 DEF ServeStep, Compose
  <2>. QED  BY <1>1, <2>1 DEF BindingsOK, Known
<1>. QED  BY <1>2, <1>3, <1>4, <1>5

LEMMA ServeStepTypes ==
  ASSUME ComposerTypes, ListsInv, NEW c \in BagToSet(requests), ServeStep(c)
  PROVE  ComposerTypes'
<1>. DEFINE answer == IF c.kind \in {"open", "current"} THEN BindingsOf(c.provider) ELSE c.answer
<1>1. PICK d : /\ d = [c EXCEPT !.state = "answered", !.answer = answer]
               /\ c.kind \in Steps /\ requests' = Then(c, d) /\ UNCHANGED composer
  BY DEF ServeStep, Compose
<1>2. RequestOK(c) /\ StepOK(c)
  BY <1>1 DEF ListsInv, ComposerTypes, ComposerOK
<1>3. /\ d.kind = c.kind /\ d.answer = answer
      /\ d.provider = c.provider /\ d.at = c.at /\ DOMAIN d = DOMAIN c
  <2>. HIDE DEF answer
  <2>. QED  BY <1>1, <1>2, AnswerFields
<1>4. BindingsOK' /\ \A items : Known(items) /\ IdsOf(items) \subseteq Remembered => Known(items)'
  BY ServedBindings
<1>5. StepOK(d)'
  <2>1. CASE c.kind \in {"open", "current"}
    <3>1. UNCHANGED bindings
      BY <2>1 DEF ServeStep, Compose
    <3>2. BindingsOf(c.provider) \in Seq(BindingType) /\ Known(BindingsOf(c.provider))
      BY ListedKnown DEF ComposerTypes
    <3>3. d.answer \in Seq(BindingType) /\ Known(d.answer)
      BY <1>3, <2>1, <3>2
    <3>4. Known(d.answer)'
      BY <3>1, <3>3 DEF Known
    <3>. QED  BY <1>2, <1>3, <2>1, <3>3, <3>4 DEF StepOK
  <2>2. CASE c.kind \notin {"open", "current"}
    BY <1>2, <1>3, <2>2 DEF StepOK
  <2>. QED  BY <2>1, <2>2
<1>6. ASSUME NEW e \in BagToSet(requests), e.kind \in Steps  PROVE StepOK(e)'
  <2>1. StepOK(e)
    BY <1>6 DEF ComposerTypes, ComposerOK
  <2>2. IdsOf(e.answer) \subseteq Remembered
    BY <1>6 DEF Remembered
  <2>. QED  BY <1>4, <2>1, <2>2 DEF StepOK
<1>7. BagToSet(requests') \subseteq BagToSet(requests) \cup {d}
  BY <1>1, RequestsAfter DEF ListsInv
<1>8. Known(composer.pipeline)'
  <2>1. PICK l : l = composer.pipeline
    OBVIOUS
  <2>2. IdsOf(l) \subseteq Remembered /\ Known(l)
    BY <2>1 DEF Remembered, ComposerTypes, ComposerOK
  <2>3. Known(l)'
    BY <1>4, <2>2
  <2>4. composer'.pipeline = l
    BY <1>1, <2>1
  <2>. QED  BY <2>3, <2>4 DEF Known
<1>9. composer' \in ComposerType
  BY <1>1 DEF ComposerTypes, ComposerOK, ComposerType
<1>. QED  BY <1>4, <1>5, <1>6, <1>7, <1>8, <1>9 DEF ComposerTypes, ComposerOK, ComposerType

\* A step of the composer refused: only an answer that says nothing.
LEMMA RefuseStepTypes ==
  ASSUME ComposerTypes, ListsInv, NEW c \in BagToSet(requests), RefuseStep(c)
  PROVE  ComposerTypes'
<1>. DEFINE d == [c EXCEPT !.state = "answered"]
<1>1. c.kind \in Steps /\ requests' = Then(c, d) /\ UNCHANGED <<bindings, composer>>
  BY DEF RefuseStep, Compose
<1>2. RequestOK(c) /\ StepOK(c)
  BY <1>1 DEF ListsInv, ComposerTypes, ComposerOK
<1>3. /\ d.kind = c.kind /\ d.answer = c.answer
      /\ d.provider = c.provider /\ d.at = c.at /\ DOMAIN d = DOMAIN c
  BY <1>1, <1>2 DEF RequestOK, ShapeOf, Steps, SaveSteps
<1>. HIDE DEF d
<1>5. StepOK(d)
  BY <1>2, <1>3 DEF StepOK
<1>6. BagToSet(requests') \subseteq BagToSet(requests) \cup {d}
  BY <1>1, RequestsAfter DEF ListsInv
<1>. QED  BY <1>1, <1>5, <1>6, TypesKept DEF ComposerTypes, ComposerOK

LEMMA TakeOpenedTypes ==
  ASSUME ComposerTypes, ListsInv, NEW c \in BagToSet(requests), TakeOpened(c)
  PROVE  ComposerTypes'
<1>. DEFINE items == Pipeline(c.answer)
<1>1. /\ c.kind = "open" /\ c.state = "answered"
      /\ composer' = [composer EXCEPT !.pipeline = items, !.shown = TRUE]
      /\ requests' = Ended(c) /\ UNCHANGED bindings
  BY DEF TakeOpened, Compose
<1>2. c.answer \in Seq(BindingType) /\ Known(c.answer)
  BY <1>1 DEF ComposerTypes, ComposerOK, StepOK, Steps
<1>3. /\ DOMAIN c.answer = 1 .. Len(c.answer) /\ Len(c.answer) \in Nat
      /\ \A i \in DOMAIN c.answer : c.answer[i] \in BindingType
  BY <1>2, LenProperties
<1>4. items \in Seq(ItemType)
  <2>. DEFINE e(i) == Item(c.answer[i])
  <2>1. \A i \in 1 .. Len(c.answer) : e(i) \in ItemType
    BY <1>3 DEF Item, ItemType, BindingType
  <2>2. [i \in 1 .. Len(c.answer) |-> e(i)] \in Seq(ItemType)
    <3>. HIDE DEF e
    <3>. QED  BY <1>3, <2>1, IsASeq
  <2>. QED  BY <1>3, <2>2 DEF Pipeline
<1>5. Known(items)
  BY <1>2 DEF Known, Pipeline, Item
<1>. HIDE DEF items
<1>6. composer' \in ComposerType /\ composer'.pipeline = items
  BY <1>1, <1>4 DEF ComposerType, ComposerTypes, ComposerOK
<1>7. BagToSet(requests') \subseteq BagToSet(requests) \cup {GetList(NoWrite)}
  BY <1>1, RequestsAfter DEF ListsInv
<1>. QED  BY <1>1, <1>5, <1>6, <1>7, GetListKind, TypesKept DEF ComposerType

\* The next request of a save, whatever it is.
GoesOnTo(c, left, at, d) ==
  LET gone  == {i \in DOMAIN left : ~Kept(left[i])}
      items == composer.pipeline
  IN  \/ /\ gone # {}
         /\ d = [ComposerRequest("delete", c.provider) EXCEPT
                   !.left = SubSeq(left, Min(gone), Len(left))]
         /\ UNCHANGED <<composer, stored>>
      \/ /\ gone = {} /\ at < Len(items)
         /\ d = [ComposerRequest("upsert", c.provider) EXCEPT
                   !.at = at + 1, !.answer = <<items[at + 1]>>]
         /\ UNCHANGED <<composer, stored>>
      \/ /\ gone = {} /\ ~(at < Len(items))
         /\ d = GetList(NoWrite) /\ stored' = TRUE
         /\ composer' = [composer EXCEPT !.shown = FALSE, !.provider = Null]

LEMMA GoOnTo ==
  ASSUME NEW c, NEW left, NEW at, GoOn(c, left, at)
  PROVE  \E d : requests' = Then(c, d) /\ GoesOnTo(c, left, at, d)
BY DEF GoOn, GoesOnTo

LEMMA TakeStepCases ==
  ASSUME NEW c, TakeStep(c)
  PROVE  /\ c.kind \in SaveSteps /\ c.state = "answered" /\ UNCHANGED <<bindings, composed>>
         /\ c.kind = "patch" =>
              /\ requests' = Then(c, ComposerRequest("current", c.provider))
              /\ UNCHANGED <<composer, stored>>
         /\ c.kind = "current" => GoOn(c, c.answer, 0)
         /\ c.kind = "delete" => GoOn(c, Tail(c.left), 0)
         /\ c.kind = "upsert" => GoOn(c, <<>>, c.at)
<1>1. CASE c.kind = "patch"
  BY <1>1 DEF TakeStep, Compose
<1>2. CASE c.kind = "current"
  BY <1>2 DEF TakeStep, Compose
<1>3. CASE c.kind = "delete"
  BY <1>3 DEF TakeStep, Compose
<1>4. CASE c.kind = "upsert"
  BY <1>4 DEF TakeStep, Compose
<1>. QED  BY <1>1, <1>2, <1>3, <1>4 DEF TakeStep, Compose, SaveSteps

LEMMA TakeStepTypes ==
  ASSUME ComposerTypes, ListsInv, NEW c \in BagToSet(requests), TakeStep(c)
  PROVE  ComposerTypes'
<1>1. c.kind \in SaveSteps /\ c.kind \in Steps /\ UNCHANGED <<bindings, composed>>
  BY TakeStepCases DEF Steps
<1>2. StepOK(c) /\ c.provider \in Providers
  BY <1>1 DEF ComposerTypes, ComposerOK, StepOK
<1>3. composer \in ComposerType /\ composer.pipeline \in Seq(ItemType) /\ Known(composer.pipeline)
  BY DEF ComposerTypes, ComposerOK, ComposerType
<1>4. ASSUME NEW d, requests' = Then(c, d), d.kind \in Steps => StepOK(d),
             composer' \in ComposerType, composer'.pipeline = composer.pipeline
      PROVE  ComposerTypes'
  <2>1. BagToSet(requests') \subseteq BagToSet(requests) \cup {d}
    BY <1>4, RequestsAfter DEF ListsInv
  <2>. QED  BY <1>1, <1>3, <1>4, <2>1, TypesKept DEF ComposerType
<1>5. ASSUME NEW left, NEW at \in Nat, GoOn(c, left, at)  PROVE ComposerTypes'
  <2>1. PICK d : requests' = Then(c, d) /\ GoesOnTo(c, left, at, d)
    BY <1>5, GoOnTo
  <2>2. composer' \in ComposerType /\ composer'.pipeline = composer.pipeline
    BY <1>3, <2>1 DEF GoesOnTo, ComposerType
  <2>3. d.kind \in Steps => StepOK(d)
    <3>1. CASE \E l : d = [ComposerRequest("delete", c.provider) EXCEPT !.left = l]
      BY <1>2, <3>1, NewStepOK
    <3>2. CASE /\ at < Len(composer.pipeline)
               /\ d = [ComposerRequest("upsert", c.provider) EXCEPT
                         !.at = at + 1, !.answer = <<composer.pipeline[at + 1]>>]
      <4>1. composer.pipeline[at + 1] \in ItemType /\ at + 1 \in Nat
        BY <1>3, <3>2, LenProperties
      <4>. QED  BY <1>2, <3>2, <4>1, NewStepOK
    <3>3. CASE d = GetList(NoWrite)
      BY <3>3, GetListKind
    <3>. QED  BY <2>1, <3>1, <3>2, <3>3 DEF GoesOnTo
  <2>. QED  BY <1>4, <2>1, <2>2, <2>3
<1>6. CASE c.kind = "patch"
  <2>. DEFINE d == ComposerRequest("current", c.provider)
  <2>1. requests' = Then(c, d) /\ UNCHANGED composer
    BY <1>6, TakeStepCases
  <2>2. StepOK(d)
    BY <1>2, NewStepOK DEF Steps, SaveSteps
  <2>. HIDE DEF d
  <2>. QED  BY <1>3, <1>4, <2>1, <2>2
<1>7. CASE c.kind = "upsert"
  BY <1>2, <1>5, <1>7, TakeStepCases DEF StepOK
<1>. QED  BY <1>1, <1>5, <1>6, <1>7, TakeStepCases DEF SaveSteps

\* What a save relies on is as it was.
SaveKept ==
  UNCHANGED <<bindings, composed, stored>> /\ composer'.pipeline = composer.pipeline

LEMMA SoundKept ==
  ASSUME UNCHANGED <<bindings, composed>>, composer'.pipeline = composer.pipeline
  PROVE  (\A c : Sound(c)' = Sound(c)) /\ StoredInOrder' = StoredInOrder
<1>1. \A p : OwnBindings(p)' = OwnBindings(p)
  BY DEF OwnBindings
<1>2. \A b : Kept(b)' = Kept(b)
  BY DEF Kept
<1>3. \A left, p : Covers(left, p)' = Covers(left, p)
  BY <1>1, <1>2 DEF Covers
<1>4. \A k, p : Progress(k, p)' = Progress(k, p)
  BY <1>1 DEF Progress
<1>5. Doubled' = Doubled
  BY DEF Doubled
<1>6. \A c : Sound(c)' = Sound(c)
  <2>1. \A p : Owned(p)' = Owned(p)
    BY <1>1 DEF Owned
  <2>. QED  BY <1>1, <1>2, <1>3, <1>4, <1>5, <2>1 DEF Sound, MiddlewaresOf
<1>7. StoredInOrder' = StoredInOrder
  BY <1>1 DEF StoredInOrder
<1>. QED  BY <1>6, <1>7

LEMMA SaveGoesOn ==
  ASSUME SaveInv, SaveKept, Untouched(SaveSteps)
  PROVE  SaveInv'
<1>1. Saving' = Saving
  BY DEF Untouched, Saving
<1>2. (\A c : Sound(c)' = Sound(c)) /\ StoredInOrder' = StoredInOrder
  BY SoundKept DEF SaveKept
<1>3. ASSUME NEW c, OnlySave(c)  PROVE OnlySave(c)'
  <2>1. /\ c \in BagToSet(requests) /\ c.kind \in SaveSteps /\ requests[c] = 1
        /\ \A d \in BagToSet(requests) : d.kind \in SaveSteps => d = c
    BY <1>3 DEF OnlySave
  <2>2. c \in BagToSet(requests') /\ requests'[c] = 1
    BY <2>1 DEF Untouched
  <2>3. \A d \in BagToSet(requests') : d.kind \in SaveSteps => d = c
    BY <2>1 DEF Untouched
  <2>. QED  BY <2>1, <2>2, <2>3 DEF OnlySave
<1>4. ASSUME NEW c \in BagToSet(requests), OnlySave(c), Sound(c)
      PROVE  \E e \in BagToSet(requests') : OnlySave(e)' /\ Sound(e)'
  <2>1. c \in BagToSet(requests') /\ OnlySave(c)' /\ Sound(c)'
    BY <1>2, <1>3, <1>4 DEF Untouched, OnlySave
  <2>. QED  BY <2>1
<1>. QED  BY <1>1, <1>2, <1>4 DEF SaveInv, SaveKept

LEMMA SaveDisturbed ==
  ASSUME SaveInv, UNCHANGED <<bindings, stored>>, Disturb, Untouched(SaveSteps)
  PROVE  SaveInv'
<1>. SUFFICES ASSUME composed' # Null  PROVE SaveInv'
  BY DEF SaveInv
<1>1. ~Saving /\ composed' = composed
  BY DEF Disturb
<1>2. ~Saving'
  BY <1>1 DEF Untouched, Saving
<1>3. StoredInOrder' = StoredInOrder
  BY <1>1 DEF StoredInOrder, OwnBindings
<1>. QED  BY <1>1, <1>2, <1>3 DEF SaveInv

\* A save that counts is the only one, and sound.
LEMMA SaveRunning ==
  ASSUME SaveInv, composed # Null, NEW c \in BagToSet(requests), c.kind \in SaveSteps
  PROVE  ~stored /\ OnlySave(c) /\ Sound(c)
<1>1. Saving
  BY DEF Saving
<1>2. ~stored /\ \E e \in BagToSet(requests) : OnlySave(e) /\ Sound(e)
  BY <1>1 DEF SaveInv
<1>. QED  BY <1>2 DEF OnlySave

LEMMA SaveEnds ==
  ASSUME IsABag(requests), NEW c, OnlySave(c), NEW d, d.kind \notin SaveSteps,
         requests' = Ended(c) \/ requests' = Then(c, d)
  PROVE  ~Saving'
<1>1. /\ IsABag(Ended(c)) /\ BagToSet(Ended(c)) \subseteq BagToSet(requests)
      /\ c \notin BagToSet(Ended(c))
  BY EndedKeeps, EndedCounts DEF OnlySave
<1>2. \A e \in BagToSet(Ended(c)) : e.kind \notin SaveSteps
  BY <1>1 DEF OnlySave
<1>3. requests' = Then(c, d) => BagToSet(requests') = BagToSet(Ended(c)) \cup {d}
  BY <1>1, AddedTo DEF Then
<1>. QED  BY <1>2, <1>3 DEF Saving

LEMMA SaveContinues ==
  ASSUME IsABag(requests), NEW c, OnlySave(c), NEW d, d.kind \in SaveSteps,
         requests' = Then(c, d)
  PROVE  OnlySave(d)'
<1>1. /\ IsABag(Ended(c)) /\ BagToSet(Ended(c)) \subseteq BagToSet(requests)
      /\ c \notin BagToSet(Ended(c))
  BY EndedKeeps, EndedCounts DEF OnlySave
<1>2. \A e \in BagToSet(Ended(c)) : e.kind \notin SaveSteps
  BY <1>1 DEF OnlySave
<1>3. d \notin BagToSet(Ended(c))
  BY <1>2
<1>4. BagToSet(requests') = BagToSet(Ended(c)) \cup {d} /\ requests'[d] = 1
  BY <1>1, <1>3, AddedTo, Counted DEF Then
<1>. QED  BY <1>2, <1>4 DEF OnlySave

\* The operator saves.
LEMMA SaveBegins ==
  ASSUME SaveInv, IsABag(requests), SaveComposer
  PROVE  SaveInv'
<1>. SUFFICES ASSUME composed' # Null  PROVE SaveInv'
  BY DEF SaveInv
<1>1. /\ UNCHANGED <<bindings, composer>> /\ stored' = FALSE
      /\ Send(ComposerRequest("patch", composer.provider))
      /\ ~Saving /\ ~Mixed /\ ~Doubled
      /\ composed' = [provider |-> composer.provider,
                      middlewares |-> MiddlewaresOf(composer.pipeline)]
  BY DEF SaveComposer, Compose
<1>2. PICK d : d = ComposerRequest("patch", composer.provider)
  OBVIOUS
<1>3. d.kind = "patch" /\ d.provider = composer.provider
  BY <1>2 DEF ComposerRequest
<1>4. \A e \in BagToSet(requests) : e.kind \notin SaveSteps
  BY <1>1 DEF Saving
<1>5. d \notin BagToSet(requests) /\ requests' = requests (+) SetToBag({d})
  BY <1>1, <1>2, <1>3, <1>4 DEF SaveSteps, Send
<1>6. BagToSet(requests') = BagToSet(requests) \cup {d} /\ requests'[d] = 1
  BY <1>5, AddedTo, Counted
<1>7. OnlySave(d)'
  BY <1>3, <1>4, <1>6 DEF OnlySave, SaveSteps
<1>8. Sound(d)'
  <2>1. Owned(d.provider)
    BY <1>1, <1>3 DEF Mixed, Owned, OwnBindings
  <2>2. Owned(d.provider)' = Owned(d.provider) /\ Doubled' = Doubled
    BY <1>1 DEF Owned, OwnBindings, Doubled
  <2>3. MiddlewaresOf(composer.pipeline)' = MiddlewaresOf(composer.pipeline)
    BY <1>1
  <2>. QED  BY <1>1, <1>3, <2>1, <2>2, <2>3 DEF Sound
<1>. QED  BY <1>1, <1>6, <1>7, <1>8 DEF SaveInv

\* No binding of the provider is in the way of an item that has none yet.
LEMMA Unbound ==
  ASSUME BindingsOK, ~Doubled, NEW p, NEW at \in DOMAIN composer.pipeline, Progress(at - 1, p),
         composer.pipeline \in Seq(ItemType), composer.pipeline[at].id = Null
  PROVE  \A b \in OwnBindings(p) : b.middleware # composer.pipeline[at].middleware
<1>. SUFFICES ASSUME NEW b \in OwnBindings(p), b.middleware = composer.pipeline[at].middleware
              PROVE  FALSE
  OBVIOUS
<1>1. PICK i \in DOMAIN composer.pipeline :
        /\ b.middleware = composer.pipeline[i].middleware
        /\ b.id = composer.pipeline[i].id \/ (composer.pipeline[i].id = Null /\ i <= at - 1)
  BY DEF Progress
<1>2. i = at
  BY <1>1 DEF Doubled
<1>3. b.id # Null
  BY AdminAssumption DEF BindingsOK, BindingType, OwnBindings
<1>4. at \in Nat
  BY LenProperties
<1>. QED  BY <1>1, <1>2, <1>3, <1>4

\* An item that has a binding is stored: it gets its number.
LEMMA NumberStored ==
  ASSUME ComposerTypes, ~Doubled, UNCHANGED composer, NEW p, Owned(p),
         NEW at \in DOMAIN composer.pipeline, Progress(at - 1, p),
         composer.pipeline[at].id # Null, Renumber(composer.pipeline[at].id, at)
  PROVE  Progress(at, p)' /\ Owned(p)'
<1>. DEFINE items == composer.pipeline
            id == items[at].id
<1>1. DOMAIN items = 1 .. Len(items) /\ Len(items) \in Nat /\ at \in Nat
  BY LenProperties DEF ComposerTypes, ComposerOK
<1>2. /\ \A b \in bindings' : \E a \in bindings :
           /\ a.id = b.id /\ a.provider = b.provider /\ a.middleware = b.middleware
           /\ b.order = IF b.id = id THEN at ELSE a.order
      /\ \A a \in bindings : \E b \in bindings' :
           /\ a.id = b.id /\ a.provider = b.provider /\ a.middleware = b.middleware
  BY <1>1, RenumberedBindings DEF ComposerTypes
<1>3. PICK own : own = OwnBindings(p)'
  OBVIOUS
<1>4. /\ \A b \in own : \E a \in OwnBindings(p) :
           /\ a.id = b.id /\ a.middleware = b.middleware
           /\ b.order = IF b.id = id THEN at ELSE a.order
      /\ \A a \in OwnBindings(p) : \E b \in own : a.id = b.id /\ a.middleware = b.middleware
  BY <1>2, <1>3 DEF OwnBindings
<1>5. PICK x \in OwnBindings(p) : x.id = id
  BY DEF Owned
<1>6. x.middleware = items[at].middleware
  BY <1>5 DEF ComposerTypes, ComposerOK, Known, OwnBindings
<1>7. ASSUME NEW b \in own
      PROVE  \E i \in DOMAIN items :
               /\ b.middleware = items[i].middleware
               /\ b.id = items[i].id \/ (items[i].id = Null /\ i <= at)
               /\ i <= at => b.order = i
  <2>1. PICK a \in OwnBindings(p) :
          /\ a.id = b.id /\ a.middleware = b.middleware
          /\ b.order = IF b.id = id THEN at ELSE a.order
    BY <1>4
  <2>2. PICK i \in DOMAIN items :
          /\ a.middleware = items[i].middleware
          /\ a.id = items[i].id \/ (items[i].id = Null /\ i <= at - 1)
          /\ i <= at - 1 => a.order = i
    BY DEF Progress
  <2>3. i \in Nat
    BY <1>1
  <2>4. b.id = id => i = at
    <3>1. b.id = id => a = x
      BY <1>5, <2>1 DEF ComposerTypes, BindingsOK, OwnBindings
    <3>. QED  BY <1>6, <2>2, <3>1 DEF Doubled
  <2>5. i = at => b.id = id
    BY <1>1, <2>1, <2>2
  <2>6. i <= at => b.order = i
    BY <1>1, <2>1, <2>2, <2>3, <2>4, <2>5
  <2>7. b.id = items[i].id \/ (items[i].id = Null /\ i <= at)
    BY <1>1, <2>1, <2>2, <2>3
  <2>. QED  BY <2>1, <2>2, <2>6, <2>7
<1>8. ASSUME NEW i \in 1 .. at  PROVE \E b \in own : b.middleware = items[i].middleware
  <2>1. \E a \in OwnBindings(p) : a.middleware = items[i].middleware
    <3>1. i = at \/ i \in 1 .. at - 1
      BY <1>1
    <3>. QED  BY <1>6, <3>1 DEF Progress
  <2>. QED  BY <1>4, <2>1
<1>9. ASSUME NEW i \in DOMAIN items, items[i].id # Null  PROVE \E b \in own : b.id = items[i].id
  BY <1>4, <1>9 DEF Owned
<1>10. Progress(at, p)'
  BY <1>3, <1>7, <1>8 DEF Progress
<1>. QED  BY <1>3, <1>9, <1>10 DEF Owned

\* An item that has none gets a binding of its own.
LEMMA BindingStored ==
  ASSUME ComposerTypes, ~Doubled, UNCHANGED composer, NEW p, Owned(p),
         NEW at \in DOMAIN composer.pipeline, Progress(at - 1, p),
         composer.pipeline[at].id = Null, Bind(p, composer.pipeline[at].middleware, at)
  PROVE  Progress(at, p)' /\ Owned(p)'
<1>. DEFINE items == composer.pipeline
            m == items[at].middleware
<1>1. /\ DOMAIN items = 1 .. Len(items) /\ Len(items) \in Nat /\ at \in Nat
      /\ items \in Seq(ItemType)
  BY LenProperties DEF ComposerTypes, ComposerOK
<1>2. \A b \in OwnBindings(p) : b.middleware # m
  BY <1>1, Unbound DEF ComposerTypes
<1>3. PICK id \in Bindings \ Remembered :
        bindings' = bindings \cup {[id |-> id, provider |-> p, middleware |-> m, order |-> at]}
  BY <1>2 DEF Bind, OwnBindings
<1>4. PICK new : new = [id |-> id, provider |-> p, middleware |-> m, order |-> at]
  OBVIOUS
<1>5. new.provider = p /\ new.middleware = m /\ new.order = at
  BY <1>4
<1>6. OwnBindings(p)' = OwnBindings(p) \cup {new}
  BY <1>3, <1>4, <1>5 DEF OwnBindings
<1>7. ASSUME NEW b \in OwnBindings(p)
      PROVE  \E i \in DOMAIN items :
               /\ b.middleware = items[i].middleware
               /\ b.id = items[i].id \/ (items[i].id = Null /\ i <= at)
               /\ i <= at => b.order = i
  <2>1. PICK i \in DOMAIN items :
          /\ b.middleware = items[i].middleware
          /\ b.id = items[i].id \/ (items[i].id = Null /\ i <= at - 1)
          /\ i <= at - 1 => b.order = i
    BY DEF Progress
  <2>2. i \in Nat /\ i # at
    BY <1>1, <1>2, <2>1
  <2>3. /\ b.id = items[i].id \/ (items[i].id = Null /\ i <= at)
        /\ i <= at => b.order = i
    BY <1>1, <2>1, <2>2
  <2>. QED  BY <2>1, <2>3
<1>8. \A i \in 1 .. at : i = at \/ i \in 1 .. at - 1
  BY <1>1
<1>9. Progress(at, p)'
  <2>1. \A b \in OwnBindings(p)' : \E i \in DOMAIN items :
          /\ b.middleware = items[i].middleware
          /\ b.id = items[i].id \/ (items[i].id = Null /\ i <= at)
          /\ i <= at => b.order = i
    BY <1>1, <1>5, <1>6, <1>7
  <2>2. \A i \in 1 .. at : \E b \in OwnBindings(p)' : b.middleware = items[i].middleware
    BY <1>5, <1>6, <1>8 DEF Progress
  <2>. QED  BY <2>1, <2>2 DEF Progress
<1>. QED  BY <1>6, <1>9 DEF Owned

\* A binding that is no longer in the pipeline is deleted: the rest is still to be.
LEMMA DeletionStored ==
  ASSUME UNCHANGED composer, NEW p, Owned(p), NEW left \in Seq(BindingType), left # <<>>,
         ~Kept(left[1]), Covers(left, p), bindings' = {b \in bindings : b.id # left[1].id}
  PROVE  Covers(Tail(left), p)' /\ Owned(p)'
<1>1. /\ DOMAIN left = 1 .. Len(left) /\ Len(left) \in Nat
      /\ DOMAIN Tail(left) = 1 .. Len(left) - 1
      /\ \A i \in 1 .. Len(left) - 1 : Tail(left)[i] = left[i + 1]
  BY LenProperties, HeadTailProperties
<1>2. OwnBindings(p)' = {b \in OwnBindings(p) : b.id # left[1].id}
  BY DEF OwnBindings
<1>3. ASSUME NEW b \in OwnBindings(p), b.id # left[1].id, ~Kept(b)
      PROVE  \E i \in DOMAIN Tail(left) : Tail(left)[i].id = b.id
  <2>1. PICK i \in DOMAIN left : left[i].id = b.id
    BY <1>3 DEF Covers
  <2>2. i - 1 \in DOMAIN Tail(left) /\ (i - 1) + 1 = i
    BY <1>1, <1>3, <2>1
  <2>3. Tail(left)[i - 1] = left[i]
    BY <1>1, <2>2
  <2>. QED  BY <2>1, <2>2, <2>3
<1>4. \A b : Kept(b)' = Kept(b)
  BY DEF Kept
<1>5. Covers(Tail(left), p)'
  BY <1>2, <1>3, <1>4 DEF Covers
<1>6. \A i \in DOMAIN composer.pipeline : composer.pipeline[i].id # left[1].id
  BY DEF Kept
<1>. QED  BY <1>2, <1>5, <1>6 DEF Owned

\* The gateway serves a step of a save.
LEMMA ServeSaveStep ==
  ASSUME ComposerTypes, ListsInv, SaveInv, NEW c \in BagToSet(requests), ServeStep(c),
         c.kind \in SaveSteps
  PROVE  SaveInv'
<1>. DEFINE answer == IF c.kind \in {"open", "current"} THEN BindingsOf(c.provider) ELSE c.answer
<1>. SUFFICES ASSUME composed' # Null  PROVE SaveInv'
  BY DEF SaveInv
<1>1. PICK d : /\ d = [c EXCEPT !.state = "answered", !.answer = answer]
               /\ c.kind \in Steps /\ c.state = "sent" /\ requests' = Then(c, d)
               /\ UNCHANGED <<composer, composed, stored>>
  BY DEF ServeStep, Compose
<1>2. RequestOK(c) /\ StepOK(c)
  BY <1>1 DEF ListsInv, ComposerTypes, ComposerOK
<1>3. /\ d.kind = c.kind /\ d.state = "answered" /\ d.answer = answer
      /\ d.provider = c.provider /\ d.at = c.at /\ d.left = c.left
  <2>. HIDE DEF answer
  <2>. QED  BY <1>1, <1>2, AnswerFields
<1>4. ~stored /\ OnlySave(c) /\ Sound(c)
  BY <1>1, SaveRunning
<1>5. OnlySave(d)'
  BY <1>1, <1>3, <1>4, SaveContinues DEF ListsInv
<1>. DEFINE p == c.provider
<1>6. /\ ~Doubled /\ Owned(p) /\ p = composed.provider
      /\ composed.middlewares = MiddlewaresOf(composer.pipeline)
  BY <1>4 DEF Sound
<1>7. ~Doubled' /\ (composed.middlewares = MiddlewaresOf(composer.pipeline))'
      /\ d.provider = composed'.provider
  <2>1. Doubled' = Doubled
    BY <1>1 DEF Doubled
  <2>. QED  BY <1>1, <1>3, <1>6, <2>1
<1>8. ASSUME c.kind = "patch"  PROVE Sound(d)'
  <2>1. UNCHANGED bindings
    BY <1>8 DEF ServeStep, Compose
  <2>2. Owned(p)'
    BY <1>1, <1>6, <2>1 DEF Owned, OwnBindings
  <2>. QED  BY <1>3, <1>7, <1>8, <2>2 DEF Sound
<1>9. ASSUME c.kind = "current"  PROVE Sound(d)'
  <2>1. UNCHANGED bindings
    BY <1>9 DEF ServeStep, Compose
  <2>2. Owned(p)'
    BY <1>1, <1>6, <2>1 DEF Owned, OwnBindings
  <2>3. d.answer = BindingsOf(p)
    BY <1>3, <1>9
  <2>4. Covers(d.answer, p)
    BY <2>3, BindingsListed DEF Covers, ComposerTypes
  <2>5. Covers(d.answer, p)'
    BY <1>1, <2>1, <2>4 DEF Covers, OwnBindings, Kept
  <2>. QED  BY <1>3, <1>7, <1>9, <2>2, <2>5 DEF Sound
<1>10. ASSUME c.kind = "delete"  PROVE Sound(d)'
  <2>1. bindings' = {b \in bindings : b.id # c.left[1].id}
    BY <1>10 DEF ServeStep, Compose
  <2>2. c.left \in Seq(BindingType) /\ c.left # <<>> /\ ~Kept(c.left[1]) /\ Covers(c.left, p)
    BY <1>1, <1>4, <1>10 DEF Sound
  <2>3. Covers(Tail(c.left), p)' /\ Owned(p)'
    BY <1>1, <1>6, <2>1, <2>2, DeletionStored
  <2>4. ~Kept(c.left[1])'
    BY <1>1, <2>2 DEF Kept
  <2>. QED  BY <1>3, <1>7, <1>10, <2>2, <2>3, <2>4 DEF Sound
<1>11. ASSUME c.kind = "upsert"  PROVE Sound(d)'
  <2>. DEFINE item == composer.pipeline[c.at]
  <2>1. c.at \in DOMAIN composer.pipeline /\ c.answer = <<item>> /\ Progress(c.at - 1, p)
    BY <1>1, <1>4, <1>11 DEF Sound
  <2>2. c.answer[1] = item
    BY <2>1
  <2>3. Progress(c.at, p)' /\ Owned(p)'
    <3>1. CASE item.id # Null
      <4>1. Renumber(item.id, c.at)
        BY <1>11, <2>2, <3>1 DEF ServeStep, Compose
      <4>. QED  BY <1>1, <1>6, <2>1, <3>1, <4>1, NumberStored
    <3>2. CASE item.id = Null
      <4>1. Bind(p, item.middleware, c.at)
        BY <1>11, <2>2, <3>2 DEF ServeStep, Compose
      <4>. QED  BY <1>1, <1>6, <2>1, <3>2, <4>1, BindingStored
    <3>. QED  BY <3>1, <3>2
  <2>4. d.answer = c.answer
    BY <1>3, <1>11
  <2>5. (d.at \in DOMAIN composer.pipeline /\ d.answer = <<composer.pipeline[d.at]>>)'
    BY <1>1, <1>3, <2>1, <2>4
  <2>. QED  BY <1>3, <1>7, <1>11, <2>3, <2>5 DEF Sound
<1>12. Sound(d)' => SaveInv'
  <2>1. d \in BagToSet(requests')
    BY <1>5 DEF OnlySave
  <2>. QED  BY <1>1, <1>4, <1>5, <2>1 DEF SaveInv
<1>. QED  BY <1>8, <1>9, <1>10, <1>11, <1>12 DEF SaveSteps

\* A save at the point where it looks at what is left to delete and to store.
Ready(left, at, p) ==
  /\ left \in Seq(BindingType) /\ at \in Nat
  /\ \/ at = 0 /\ Covers(left, p)
     \/ at \in DOMAIN composer.pipeline /\ left = <<>> /\ Progress(at, p)

\* Nothing is left to delete: so many items are stored.
LEMMA DeletedFirst ==
  ASSUME ComposerTypes, NEW p, NEW left, NEW at, Ready(left, at, p),
         \A i \in DOMAIN left : Kept(left[i])
  PROVE  Progress(at, p)
<1>1. CASE at = 0 /\ Covers(left, p)
  <2>1. ASSUME NEW b \in OwnBindings(p)
        PROVE  \E i \in DOMAIN composer.pipeline :
                 /\ b.middleware = composer.pipeline[i].middleware
                 /\ b.id = composer.pipeline[i].id
    <3>1. Kept(b)
      BY <1>1 DEF Covers, Kept
    <3>2. PICK i \in DOMAIN composer.pipeline : composer.pipeline[i].id = b.id
      BY <3>1 DEF Kept
    <3>3. b.middleware = composer.pipeline[i].middleware
      BY <3>2 DEF ComposerTypes, ComposerOK, Known, OwnBindings
    <3>. QED  BY <3>2, <3>3
  <2>2. \A i \in DOMAIN composer.pipeline : i \in Nat /\ ~(i <= 0)
    BY LenProperties DEF ComposerTypes, ComposerOK
  <2>. QED  BY <1>1, <2>1, <2>2 DEF Progress
<1>. QED  BY <1>1 DEF Ready

\* All items are stored, and nothing else.
LEMMA AllStored ==
  ASSUME ComposerTypes, ~Doubled, NEW at \in Nat, ~(at < Len(composer.pipeline)),
         at = 0 \/ at \in DOMAIN composer.pipeline, Progress(at, composed.provider),
         composed.middlewares = MiddlewaresOf(composer.pipeline)
  PROVE  StoredInOrder
<1>. DEFINE items == composer.pipeline
            mws == composed.middlewares
<1>1. /\ DOMAIN items = 1 .. Len(items) /\ Len(items) \in Nat
      /\ \A i \in DOMAIN items : items[i] \in ItemType
  BY LenProperties DEF ComposerTypes, ComposerOK
<1>2. at = Len(items)
  BY <1>1
<1>3. DOMAIN mws = 1 .. Len(items) /\ \A i \in 1 .. Len(items) : mws[i] = items[i].middleware
  BY <1>1 DEF MiddlewaresOf
<1>4. mws \in Seq(AllMiddlewares)
  <2>. DEFINE e(i) == items[i].middleware
  <2>1. \A i \in 1 .. Len(items) : e(i) \in AllMiddlewares
    BY <1>1 DEF ItemType
  <2>2. [i \in 1 .. Len(items) |-> e(i)] \in Seq(AllMiddlewares)
    <3>. HIDE DEF e
    <3>. QED  BY <1>1, <2>1, IsASeq
  <2>. QED  BY <1>1, <2>2 DEF MiddlewaresOf
<1>5. \A i, j \in DOMAIN mws : mws[i] = mws[j] => i = j
  BY <1>1, <1>3 DEF Doubled
<1>6. \A b \in OwnBindings(composed.provider) :
        \E i \in DOMAIN mws : b.middleware = mws[i] /\ b.order = i
  BY <1>1, <1>2, <1>3 DEF Progress
<1>7. \A i \in DOMAIN mws : \E b \in OwnBindings(composed.provider) : b.middleware = mws[i]
  BY <1>2, <1>3 DEF Progress
<1>. QED  BY <1>4, <1>5, <1>6, <1>7 DEF StoredInOrder

\* The first binding that is gone comes first in what is left to delete.
LEMMA FirstGone ==
  ASSUME NEW p, NEW left \in Seq(BindingType), Covers(left, p),
         NEW gone, gone = {i \in DOMAIN left : ~Kept(left[i])}, gone # {}
  PROVE  LET rest == SubSeq(left, Min(gone), Len(left))
         IN  rest \in Seq(BindingType) /\ rest # <<>> /\ ~Kept(rest[1]) /\ Covers(rest, p)
<1>. DEFINE k == Min(gone)
            rest == SubSeq(left, k, Len(left))
<1>1. /\ DOMAIN left = 1 .. Len(left) /\ Len(left) \in Nat
      /\ \A i \in DOMAIN left : left[i] \in BindingType
  BY LenProperties
<1>2. k \in gone /\ \A i \in gone : k <= i
  <2>1. gone \subseteq 1 .. Len(left) /\ IsFiniteSet(1 .. Len(left))
    BY <1>1, FS_Interval
  <2>2. gone \subseteq Nat /\ IsFiniteSet(gone)
    BY <2>1, FS_Subset
  <2>. QED  BY <2>2, LeastOf
<1>3. k \in 1 .. Len(left) /\ ~Kept(left[k])
  BY <1>1, <1>2
<1>. HIDE DEF k
<1>4. /\ rest \in Seq(BindingType) /\ Len(rest) = Len(left) - k + 1
      /\ \A i \in 1 .. Len(left) - k + 1 : rest[i] = left[k + i - 1]
  BY <1>1, <1>3, SubSeqProperties
<1>. HIDE DEF rest
<1>5. DOMAIN rest = 1 .. Len(left) - k + 1 /\ 1 \in 1 .. Len(left) - k + 1 /\ k + 1 - 1 = k
  BY <1>1, <1>3, <1>4, LenProperties
<1>6. rest # <<>> /\ ~Kept(rest[1])
  <2>1. rest[1] = left[k]
    BY <1>4, <1>5
  <2>. QED  BY <1>3, <1>4, <1>5, <2>1, EmptySeq
<1>7. ASSUME NEW b \in OwnBindings(p), ~Kept(b)  PROVE \E i \in DOMAIN rest : rest[i].id = b.id
  <2>1. PICK i \in DOMAIN left : left[i].id = b.id
    BY <1>7 DEF Covers
  <2>2. i \in gone
    BY <1>7, <2>1 DEF Kept
  <2>3. i - k + 1 \in DOMAIN rest /\ k + (i - k + 1) - 1 = i
    BY <1>1, <1>2, <1>3, <1>5, <2>1, <2>2
  <2>4. rest[i - k + 1] = left[i]
    BY <1>4, <1>5, <2>3
  <2>. QED  BY <2>1, <2>3, <2>4
<1>8. Covers(rest, p)
  BY <1>7 DEF Covers
<1>. QED  BY <1>4, <1>6, <1>8 DEF rest, k

\* A save goes on from such a point.
LEMMA SaveGoesOnTo ==
  ASSUME ComposerTypes, ListsInv, SaveInv, NEW c \in BagToSet(requests), c.kind \in SaveSteps,
         UNCHANGED <<bindings, composed>>, composed' # Null,
         NEW left, NEW at, GoOn(c, left, at), Ready(left, at, c.provider)
  PROVE  SaveInv'
<1>1. PICK d : requests' = Then(c, d) /\ GoesOnTo(c, left, at, d)
  BY GoOnTo
<1>2. ~stored /\ OnlySave(c) /\ Sound(c)
  BY SaveRunning
<1>3. /\ ~Doubled /\ Owned(c.provider) /\ c.provider = composed.provider
      /\ composed.middlewares = MiddlewaresOf(composer.pipeline)
  BY <1>2 DEF Sound
<1>4. PICK gone : gone = {i \in DOMAIN left : ~Kept(left[i])}
  OBVIOUS
<1>5. ASSUME UNCHANGED <<composer, stored>>, d.kind \in SaveSteps, Sound(d)  PROVE SaveInv'
  <2>1. OnlySave(d)'
    BY <1>1, <1>2, <1>5, SaveContinues DEF ListsInv
  <2>2. Sound(d)'
    BY <1>5, SoundKept
  <2>. QED  BY <1>2, <1>5, <2>1, <2>2 DEF SaveInv, OnlySave
<1>6. CASE gone # {}
  <2>. DEFINE rest == SubSeq(left, Min(gone), Len(left))
  <2>1. at = 0 /\ left \in Seq(BindingType) /\ Covers(left, c.provider)
    BY <1>4, <1>6 DEF Ready
  <2>2. /\ rest \in Seq(BindingType) /\ rest # <<>> /\ ~Kept(rest[1])
        /\ Covers(rest, c.provider)
    BY <1>4, <1>6, <2>1, FirstGone
  <2>3. /\ d = [ComposerRequest("delete", c.provider) EXCEPT !.left = rest]
        /\ UNCHANGED <<composer, stored>>
    BY <1>1, <1>4, <1>6 DEF GoesOnTo
  <2>. HIDE DEF rest
  <2>4. d.kind = "delete" /\ d.state = "sent" /\ d.provider = c.provider /\ d.left = rest
    BY <2>3 DEF ComposerRequest
  <2>5. Sound(d)
    BY <1>3, <2>2, <2>4 DEF Sound
  <2>. QED  BY <1>5, <2>3, <2>4, <2>5 DEF SaveSteps
<1>7. CASE gone = {}
  <2>1. Progress(at, c.provider)
    BY <1>4, <1>7, DeletedFirst
  <2>2. CASE at < Len(composer.pipeline)
    <3>1. /\ d = [ComposerRequest("upsert", c.provider) EXCEPT
                    !.at = at + 1, !.answer = <<composer.pipeline[at + 1]>>]
          /\ UNCHANGED <<composer, stored>>
      BY <1>1, <1>4, <1>7, <2>2 DEF GoesOnTo
    <3>2. /\ d.kind = "upsert" /\ d.state = "sent" /\ d.provider = c.provider
          /\ d.at = at + 1 /\ d.answer = <<composer.pipeline[at + 1]>>
      BY <3>1 DEF ComposerRequest
    <3>3. at \in Nat /\ DOMAIN composer.pipeline = 1 .. Len(composer.pipeline)
          /\ Len(composer.pipeline) \in Nat
      BY LenProperties DEF Ready, ComposerTypes, ComposerOK
    <3>4. d.at \in DOMAIN composer.pipeline /\ d.at - 1 = at
      BY <2>2, <3>2, <3>3
    <3>5. Progress(d.at - 1, d.provider)
      BY <2>1, <3>2, <3>4
    <3>6. d.answer = <<composer.pipeline[d.at]>>
      BY <3>2
    <3>7. Sound(d)
      BY <1>3, <3>2, <3>4, <3>5, <3>6 DEF Sound
    <3>. QED  BY <1>5, <3>1, <3>2, <3>7 DEF SaveSteps
  <2>3. CASE ~(at < Len(composer.pipeline))
    <3>1. d = GetList(NoWrite) /\ stored' = TRUE /\ composer'.pipeline = composer.pipeline
      <4>1. composer' = [composer EXCEPT !.shown = FALSE, !.provider = Null]
            /\ d = GetList(NoWrite) /\ stored' = TRUE
        BY <1>1, <1>4, <1>7, <2>3 DEF GoesOnTo
      <4>2. composer \in ComposerType
        BY DEF ComposerTypes, ComposerOK, ComposerType
      <4>. QED  BY <4>1, <4>2 DEF ComposerType
    <3>2. ~Saving'
      BY <1>1, <1>2, <3>1, GetListKind, SaveEnds DEF ListsInv, Steps
    <3>3. StoredInOrder
      BY <1>3, <2>1, <2>3, AllStored DEF Ready
    <3>4. StoredInOrder'
      BY <3>1, <3>3, SoundKept
    <3>. QED  BY <3>1, <3>2, <3>4 DEF SaveInv
  <2>. QED  BY <2>2, <2>3
<1>. QED  BY <1>6, <1>7

LEMMA TakeSaveStep ==
  ASSUME ComposerTypes, ListsInv, SaveInv, NEW c \in BagToSet(requests), TakeStep(c)
  PROVE  SaveInv'
<1>. SUFFICES ASSUME composed' # Null  PROVE SaveInv'
  BY DEF SaveInv
<1>1. /\ c.kind \in SaveSteps /\ c.kind \in Steps /\ c.state = "answered"
      /\ UNCHANGED <<bindings, composed>>
  BY TakeStepCases DEF Steps
<1>2. ~stored /\ OnlySave(c) /\ Sound(c)
  BY <1>1, SaveRunning
<1>3. StepOK(c)
  BY <1>1 DEF ComposerTypes, ComposerOK
<1>4. CASE c.kind = "patch"
  <2>1. PICK d : d = ComposerRequest("current", c.provider)
    OBVIOUS
  <2>2. requests' = Then(c, d) /\ UNCHANGED <<composer, stored>>
    BY <1>4, <2>1, TakeStepCases
  <2>3. d.kind = "current" /\ d.state = "sent" /\ d.provider = c.provider
    BY <2>1 DEF ComposerRequest
  <2>4. OnlySave(d)'
    BY <1>2, <2>2, <2>3, SaveContinues DEF ListsInv, SaveSteps
  <2>5. Sound(d)
    BY <1>2, <2>3 DEF Sound
  <2>6. Sound(d)'
    BY <1>1, <2>2, <2>5, SoundKept
  <2>. QED  BY <1>2, <2>2, <2>4, <2>6 DEF SaveInv, OnlySave
<1>5. CASE c.kind = "current"
  <2>1. GoOn(c, c.answer, 0)
    BY <1>5, TakeStepCases
  <2>2. Ready(c.answer, 0, c.provider)
    BY <1>1, <1>2, <1>3, <1>5 DEF Ready, Sound, StepOK
  <2>. QED  BY <1>1, <2>1, <2>2, SaveGoesOnTo
<1>6. CASE c.kind = "delete"
  <2>1. GoOn(c, Tail(c.left), 0)
    BY <1>6, TakeStepCases
  <2>2. c.left \in Seq(BindingType) /\ c.left # <<>> /\ Covers(Tail(c.left), c.provider)
    BY <1>1, <1>2, <1>6 DEF Sound
  <2>3. Ready(Tail(c.left), 0, c.provider)
    BY <2>2, HeadTailProperties DEF Ready
  <2>. QED  BY <1>1, <2>1, <2>3, SaveGoesOnTo
<1>7. CASE c.kind = "upsert"
  <2>1. GoOn(c, <<>>, c.at)
    BY <1>7, TakeStepCases
  <2>2. Ready(<<>>, c.at, c.provider)
    BY <1>1, <1>2, <1>3, <1>7, EmptySeq DEF Ready, Sound, StepOK
  <2>. QED  BY <1>1, <2>1, <2>2, SaveGoesOnTo
<1>. QED  BY <1>1, <1>4, <1>5, <1>6, <1>7 DEF SaveSteps

\* A step is refused: only of the provider's backend a save does not depend.
LEMMA RefuseSaveStep ==
  ASSUME ComposerTypes, ListsInv, SaveInv, NEW c \in BagToSet(requests), RefuseStep(c)
  PROVE  SaveInv'
<1>. SUFFICES ASSUME composed' # Null  PROVE SaveInv'
  BY DEF SaveInv
<1>1. PICK d : /\ d = [c EXCEPT !.state = "answered"]
               /\ c.kind \in Steps /\ c.kind \in {"open", "patch"} /\ requests' = Then(c, d)
               /\ UNCHANGED <<bindings, composer, composed, stored>>
  BY DEF RefuseStep, Compose
<1>2. d.kind = c.kind /\ d.provider = c.provider
  BY <1>1 DEF ListsInv, RequestOK, ShapeOf, Steps, SaveSteps
<1>3. CASE c.kind = "open"
  <2>1. c.kind \notin SaveSteps /\ d.kind \notin SaveSteps
    BY <1>2, <1>3 DEF SaveSteps
  <2>2. Untouched(SaveSteps)
    BY <1>1, <2>1, UntouchedBy DEF ListsInv
  <2>. QED  BY <1>1, <2>2, SaveGoesOn DEF SaveKept
<1>4. CASE c.kind = "patch"
  <2>1. ~stored /\ OnlySave(c) /\ Sound(c)
    BY <1>1, <1>4, SaveRunning DEF SaveSteps
  <2>2. OnlySave(d)'
    <3>1. IsABag(requests) /\ d.kind \in SaveSteps
      BY <1>2, <1>4 DEF ListsInv, SaveSteps
    <3>. QED  BY <1>1, <2>1, <3>1, SaveContinues
  <2>3. Sound(d)
    BY <1>2, <1>4, <2>1 DEF Sound
  <2>4. Sound(d)'
    BY <1>1, <2>3, SoundKept
  <2>. QED  BY <1>1, <2>1, <2>2, <2>4 DEF SaveInv, OnlySave
<1>. QED  BY <1>1, <1>3, <1>4

ComposerInv == ComposerTypes /\ SaveInv

LEMMA ComposerInit == AdminInit => ComposerInv
<1>. SUFFICES ASSUME AdminInit PROVE ComposerInv
  OBVIOUS
<1>1. /\ bindings = InitialBindings /\ requests = [c \in {GetList(0)} |-> 2] /\ composed = Null
      /\ composer = [provider |-> Null, pipeline |-> <<>>, shown |-> FALSE]
  BY DEF AdminInit
<1>2. BagToSet(requests) = {GetList(0)}
  BY <1>1 DEF BagToSet
<1>3. BindingsOK
  BY <1>1, AdminAssumption DEF BindingsOK, BindingType
<1>4. ComposerOK
  BY <1>1, <1>2, GetListKind, EmptySeq DEF ComposerOK, Known
<1>. QED  BY <1>1, <1>3, <1>4 DEF ComposerInv, ComposerTypes, SaveInv

LEMMA ComposerAside ==
  ASSUME ComposerInv, ListsInv, Aside
  PROVE  ComposerInv'
<1>1. PICK c, d : /\ c.kind \notin Steps /\ d.kind \notin Steps
                  /\ \/ requests' = Then(c, d) \/ requests' = Ended(c)
                     \/ Send(d) \/ UNCHANGED requests
  BY DEF Aside
<1>2. UNCHANGED <<bindings, composer, composed, stored>>
  BY DEF Aside, composerVars
<1>3. BagToSet(requests') \subseteq BagToSet(requests) \cup {d}
  BY <1>1, RequestsAfter DEF ListsInv
<1>4. ComposerTypes'
  BY <1>1, <1>2, <1>3, TypesKept DEF ComposerInv, ComposerTypes, ComposerOK
<1>5. Untouched(SaveSteps)
  BY <1>1, UntouchedBy DEF ListsInv, Steps
<1>6. SaveInv'
  BY <1>2, <1>5, SaveGoesOn DEF SaveKept, ComposerInv
<1>. QED  BY <1>4, <1>6 DEF ComposerInv

LEMMA ComposerLose ==
  ASSUME ComposerInv, ListsInv, NEW c \in BagToSet(requests), Lose(c)
  PROVE  ComposerInv'
<1>1. requests' = Ended(c) /\ UNCHANGED <<bindings, composer, composed, stored>>
  BY DEF Lose, composerVars
<1>2. BagToSet(requests') \subseteq BagToSet(requests) \cup {GetList(NoWrite)}
  BY <1>1, RequestsAfter DEF ListsInv
<1>3. ComposerTypes'
  BY <1>1, <1>2, GetListKind, TypesKept DEF ComposerInv, ComposerTypes, ComposerOK
<1>4. CASE c.kind \notin SaveSteps
  <2>1. GetList(NoWrite).kind \notin SaveSteps
    BY GetListKind DEF Steps
  <2>2. Untouched(SaveSteps)
    BY <1>1, <1>4, <2>1, UntouchedBy DEF ListsInv
  <2>3. SaveInv'
    BY <1>1, <2>2, SaveGoesOn DEF SaveKept, ComposerInv
  <2>. QED  BY <1>3, <2>3 DEF ComposerInv
<1>5. CASE c.kind \in SaveSteps
  <2>1. ASSUME composed' # Null  PROVE SaveInv'
    <3>1. ~stored /\ OnlySave(c)
      BY <1>1, <1>5, <2>1, SaveRunning DEF ComposerInv
    <3>2. GetList(NoWrite).kind \notin SaveSteps
      BY GetListKind DEF Steps
    <3>3. ~Saving'
      BY <1>1, <3>1, <3>2, SaveEnds DEF ListsInv
    <3>. QED  BY <1>1, <3>1, <3>3 DEF SaveInv
  <2>2. SaveInv'
    BY <2>1 DEF SaveInv
  <2>. QED  BY <1>3, <2>2 DEF ComposerInv
<1>. QED  BY <1>4, <1>5

LEMMA ComposerClick ==
  ASSUME ComposerInv, ListsInv, ComposerPage
  PROVE  ComposerInv'
<1>1. ComposerTypes'
  BY ComposerClickTypes DEF ComposerInv
<1>2. SaveInv /\ IsABag(requests) /\ GetList(NoWrite).kind \notin SaveSteps
  BY GetListKind DEF ComposerInv, ListsInv, Steps
<1>3. UNCHANGED requests => Untouched(SaveSteps)
  BY <1>2, UntouchedBy
<1>4. ASSUME NEW p, OpenComposer(p)  PROVE SaveInv'
  <2>1. PICK d : d = ComposerRequest("open", p) /\ Send(d)
    BY <1>4 DEF OpenComposer, Compose
  <2>2. d.kind \notin SaveSteps
    BY <2>1 DEF ComposerRequest, SaveSteps
  <2>3. Untouched(SaveSteps)
    BY <1>2, <2>1, <2>2, UntouchedBy
  <2>4. Disturb /\ UNCHANGED <<bindings, stored>>
    BY <1>4 DEF OpenComposer, Compose
  <2>. QED  BY <1>2, <2>3, <2>4, SaveDisturbed
<1>5. ASSUME NEW items, Edit(items)  PROVE SaveInv'
  <2>1. Disturb /\ UNCHANGED <<requests, bindings, stored>>
    BY <1>5 DEF Edit, Compose
  <2>. QED  BY <1>2, <1>3, <2>1, SaveDisturbed
<1>6. CASE CloseComposer
  <2>1. /\ composer' = [composer EXCEPT !.shown = FALSE]
        /\ UNCHANGED <<requests, bindings, composed, stored>>
    BY <1>6 DEF CloseComposer, Compose
  <2>2. composer'.pipeline = composer.pipeline
    BY <2>1 DEF ComposerInv, ComposerTypes, ComposerOK
  <2>. QED  BY <1>1, <1>2, <1>3, <2>1, <2>2, SaveGoesOn DEF SaveKept, ComposerInv
<1>7. CASE SaveComposer
  BY <1>1, <1>2, <1>7, SaveBegins DEF ComposerInv
<1>. QED  BY <1>1, <1>4, <1>5, <1>6, <1>7 DEF ComposerPage, ComposerInv, AddMiddleware,
             RemoveMiddleware, MoveMiddleware

LEMMA ComposerServed ==
  ASSUME ComposerInv, ListsInv, NEW c \in BagToSet(requests), ServeStep(c) \/ RefuseStep(c)
  PROVE  ComposerInv'
<1>1. CASE RefuseStep(c)
  BY <1>1, RefuseStepTypes, RefuseSaveStep DEF ComposerInv
<1>2. CASE ServeStep(c) /\ c.kind \in SaveSteps
  BY <1>2, ServeStepTypes, ServeSaveStep DEF ComposerInv
<1>3. CASE ServeStep(c) /\ c.kind \notin SaveSteps
  <2>1. c.kind = "open"
    BY <1>3 DEF ServeStep, Steps
  <2>2. PICK d : /\ d = [c EXCEPT !.state = "answered", !.answer = BindingsOf(c.provider)]
                 /\ requests' = Then(c, d)
                 /\ UNCHANGED <<bindings, composer, composed, stored>>
    BY <1>3, <2>1 DEF ServeStep, Compose
  <2>3. d.kind = "open"
    BY <2>1, <2>2 DEF ListsInv, RequestOK, ShapeOf, Steps
  <2>4. Untouched(SaveSteps)
    BY <2>1, <2>2, <2>3, UntouchedBy DEF ListsInv, SaveSteps
  <2>5. SaveInv'
    BY <2>2, <2>4, SaveGoesOn DEF SaveKept, ComposerInv
  <2>. QED  BY <1>3, <2>5, ServeStepTypes DEF ComposerInv
<1>. QED  BY <1>1, <1>2, <1>3

LEMMA ComposerAnswered ==
  ASSUME ComposerInv, ListsInv, NEW c \in BagToSet(requests), TakeOpened(c) \/ TakeStep(c)
  PROVE  ComposerInv'
<1>1. CASE TakeStep(c)
  BY <1>1, TakeStepTypes, TakeSaveStep DEF ComposerInv
<1>2. CASE TakeOpened(c)
  <2>1. /\ requests' = Ended(c) /\ c.kind = "open" /\ Disturb
        /\ UNCHANGED <<bindings, stored>>
    BY <1>2 DEF TakeOpened, Compose
  <2>2. c.kind \notin SaveSteps /\ GetList(NoWrite).kind \notin SaveSteps
    BY <2>1, GetListKind DEF SaveSteps
  <2>3. Untouched(SaveSteps)
    BY <2>1, <2>2, UntouchedBy DEF ListsInv
  <2>4. SaveInv'
    BY <2>1, <2>3, SaveDisturbed DEF ComposerInv
  <2>. QED  BY <1>2, <2>4, TakeOpenedTypes DEF ComposerInv
<1>. QED  BY <1>1, <1>2

LEMMA ComposerNext ==
  ASSUME ComposerInv, ListsInv, [AdminNext]_adminVars
  PROVE  ComposerInv'
<1>1. ASSUME NEW c \in BagToSet(requests), Served(c)  PROVE ComposerInv'
  BY <1>1, AsideServed, ComposerAside, ComposerServed DEF Served
<1>2. ASSUME NEW c \in BagToSet(requests), Answered(c)  PROVE ComposerInv'
  BY <1>2, AsideServed, ComposerAside, ComposerAnswered DEF Answered
<1>3. CASE UNCHANGED adminVars
  <2>1. Aside
    BY <1>3, GetListKind DEF adminVars, composerVars, Aside
  <2>. QED  BY <2>1, ComposerAside
<1>4. CASE \/ ProviderPage \/ ModelPage \/ TierPage \/ KeyPage \/ RulePage
           \/ MiddlewarePage \/ \E g \in Groups : ToggleGroup(g)
  BY <1>4, AsideClick, ComposerAside
<1>. QED  BY <1>1, <1>2, <1>3, <1>4, ComposerLose, ComposerClick DEF AdminNext

LEMMA ComposerStored == ComposerInv => ComposedIsStored
BY InOrderIsStored DEF ComposerInv, ComposerTypes, SaveInv, ComposedIsStored

(* ----------------------------- the log page ------------------------------ *)

\* The rows a page with a key selected may show: of "none" and of "unknown" the
\* code asks for the rows of every key.
RowsOf(k) == IF k \in {None, Unknown} THEN Logs ELSE {l \in Logs : KeyOf[l] = k}

Match == selectedLogs \in Seq(RowsOf(selectedKey))

\* The last load is for the key selected, or the rows match it without the load.
CallOK(c) ==
  /\ {"kind", "state", "answer"} \subseteq DOMAIN c /\ c.kind \in {"logs", "keys"}
  /\ c.kind = "logs" =>
       /\ c.seq \in Nat /\ c.seq <= loadSeq /\ c.offset \in Nat
       /\ c.param = IF c.key = Unknown THEN None ELSE c.key
       /\ c.state = "answered" => c.answer.rows \in Seq(RowsOf(c.key))
       /\ c.seq = loadSeq => c.key = selectedKey \/ Match

\* The rows match the key selected unless a load is under way or was lost.
LogInv ==
  /\ auditLogs \subseteq Logs /\ publishing \subseteq Logs /\ wire \in [Streams -> Seq(Logs)]
  /\ selectedLogs \in Seq(Logs) /\ logsOffset \in Nat /\ loadSeq \in Nat
  /\ logsLoading \in BOOLEAN /\ loadLost \in BOOLEAN
  /\ \A c \in BagToSet(calls) : CallOK(c)
  /\ logsLoading \/ loadLost \/ Match

\* The page of rows the server answers with is made of rows of the key asked for.
LEMMA ListedRows ==
  ASSUME LogInv, NEW c, c.offset \in Nat, c.param = IF c.key = Unknown THEN None ELSE c.key
  PROVE  Listed(c).rows \in Seq(RowsOf(c.key))
<1>. DEFINE found == {l \in InRange(c.range) : c.param = None \/ KeyOf[l] = c.param}
            order == IF c.dir = "desc" THEN Reverse(Ascending(found)) ELSE Ascending(found)
            end == Min({c.offset + Limit, Len(order)})
<1>1. found \subseteq RowsOf(c.key) /\ found \subseteq Logs
  BY DEF InRange, LogInv, RowsOf
<1>2. IsFiniteSet(found) /\ found \subseteq Nat
  BY <1>1, LogsAssumption, FS_Subset
<1>. HIDE DEF found
<1>3. Ascending(found) \in Seq(found) /\ Len(Ascending(found)) \in Nat
  BY <1>2, AscendingOf, FS_CardinalityType
<1>4. Reverse(Ascending(found)) \in Seq(found)
  BY <1>3 DEF Reverse
<1>5. order \in Seq(found)
  BY <1>3, <1>4
<1>. HIDE DEF order
<1>6. end \in Nat /\ end <= Len(order)
  <2>1. Len(order) \in Nat /\ c.offset + Limit \in Nat
    BY <1>5, LogsAssumption
  <2>2. ASSUME NEW a \in Nat, NEW b \in Nat  PROVE Min({a, b}) \in Nat /\ Min({a, b}) <= b
    BY DEF Min
  <2>. QED  BY <2>1, <2>2
<1>. HIDE DEF end
<1>7. \A i \in c.offset + 1 .. end : order[i] \in RowsOf(c.key)
  BY <1>1, <1>5, <1>6
<1>8. SubSeq(order, c.offset + 1, end) \in Seq(RowsOf(c.key))
  BY <1>6, <1>7, SubSeqProperties
<1>. QED  BY <1>8 DEF Listed, found, order, end

\* One call fewer, and one more.
LEMMA CallsLeft == \A c : BagToSet(Without(c)) \subseteq BagToSet(calls)
BY DEF Without, (-), BagToSet, SetToBag

LEMMA CallsAdded == \A B, d : BagToSet(B (+) SetToBag({d})) = BagToSet(B) \cup {d}
BY DEF (+), BagToSet, SetToBag

\* What the server and the feed do to the page: nothing.
PageKept == UNCHANGED <<selectedKey, selectedLogs, logsOffset, logsLoading, loadSeq, loadLost>>

LEMMA CallKept == PageKept => \A c : CallOK(c)' = CallOK(c)
BY DEF PageKept, CallOK, Match, RowsOf

LEMMA FeedStep ==
  ASSUME LogInv, PageKept, UNCHANGED calls, auditLogs' \subseteq Logs, publishing' \subseteq Logs,
         wire' \in [Streams -> Seq(Logs)]
  PROVE  LogInv'
BY CallKept DEF LogInv, PageKept, Match, RowsOf

\* A row goes from the table to those about to be published, and over the wire.
LEMMA WriteRowStep ==
  ASSUME LogInv, NEW l \in Logs, WriteRow(l)
  PROVE  LogInv'
<1>1. PageKept /\ UNCHANGED calls
  BY DEF WriteRow, PageKept, queryVars, pageVars
<1>. QED  BY <1>1, FeedStep DEF WriteRow, LogInv

LEMMA PublishStep ==
  ASSUME LogInv, NEW l \in Logs, Publish(l)
  PROVE  LogInv'
<1>1. PageKept /\ UNCHANGED calls
  BY DEF Publish, PageKept, queryVars, pageVars
<1>2. \A s \in Streams : Append(wire[s], l) \in Seq(Logs)
  BY DEF LogInv
<1>. QED  BY <1>1, <1>2, FeedStep DEF Publish, LogInv

LEMMA FeedNextStep ==
  ASSUME LogInv, FeedNext \/ Restart \/ \E s \in Streams : Disconnect(s)
  PROVE  LogInv'
<1>1. PageKept /\ UNCHANGED calls
  BY DEF FeedNext, WsOpen, OpenTimeout, WsRefused, WsClosed, ReconnectTimer, SseOpen, SseError,
     Feed, Restart, Disconnect, PageKept, queryVars, pageVars
<1>2. UNCHANGED <<auditLogs, publishing>>
  BY DEF FeedNext, WsOpen, OpenTimeout, WsRefused, WsClosed, ReconnectTimer, SseOpen, SseError,
     Feed, Restart, Disconnect
<1>3. <<>> \in Seq(Logs)
  OBVIOUS
<1>4. wire' \in [Streams -> Seq(Logs)]
  BY <1>3 DEF FeedNext, WsOpen, OpenTimeout, WsRefused, WsClosed, ReconnectTimer, SseOpen,
     SseError, Feed, Restart, Disconnect, ConnectSse, Detached, LogInv
<1>. QED  BY <1>1, <1>2, <1>4, FeedStep DEF LogInv

\* An answer holds rows of the key asked for; one that fails holds none.
LEMMA ServeCallStep ==
  ASSUME LogInv, NEW c \in BagToSet(calls), Serve(c)
  PROVE  LogInv'
<1>. DEFINE d == [c EXCEPT !.state = "answered", !.answer = Answer(c)]
<1>1. PageKept /\ UNCHANGED <<auditLogs, publishing, wire>>
  BY DEF Serve, PageKept, queryVars, serverVars
<1>2. CallOK(c)
  BY DEF LogInv
<1>3. CallOK(d)
  <2>1. c.kind = "logs" => Answer(c).rows \in Seq(RowsOf(c.key))
    BY <1>2, ListedRows DEF Answer, CallOK
  <2>. QED  BY <1>2, <2>1 DEF CallOK
<1>4. calls' = Without(c) (+) SetToBag({d})
  BY DEF Serve
<1>. HIDE DEF d
<1>5. BagToSet(calls') \subseteq BagToSet(calls) \cup {d}
  BY <1>4, CallsLeft, CallsAdded
<1>. QED  BY <1>1, <1>3, <1>5, CallKept DEF LogInv, PageKept, Match, RowsOf

LEMMA GatewayStopsStep ==
  ASSUME LogInv, GatewayStops
  PROVE  LogInv'
<1>. DEFINE failed(c) == [c EXCEPT !.state = "failed"]
            sent == {c \in BagToSet(calls) : c.state = "sent"}
            after(c) == IF c \in sent THEN failed(c) ELSE c
<1>1. PageKept /\ auditLogs' = auditLogs /\ publishing' = {}
  BY DEF GatewayStops, PageKept, queryVars
<1>2. wire' \in [Streams -> Seq(Logs)]
  <2>1. <<>> \in Seq(Logs)
    OBVIOUS
  <2>. QED  BY <2>1 DEF GatewayStops, Detached, LogInv
<1>3. ASSUME NEW c \in BagToSet(calls)  PROVE CallOK(after(c))
  <2>1. CallOK(c)
    BY DEF LogInv
  <2>. QED  BY <2>1 DEF CallOK
<1>4. calls' = BagUnion({[d \in {after(c)} |-> calls[c]] : c \in BagToSet(calls)})
  BY DEF GatewayStops
<1>. HIDE DEF after
<1>5. \A d \in BagToSet(calls') : \E c \in BagToSet(calls) : d = after(c)
  BY <1>4 DEF BagUnion, BagToSet
<1>6. \A d \in BagToSet(calls') : CallOK(d)
  BY <1>3, <1>5
<1>. QED  BY <1>1, <1>2, <1>6, CallKept DEF LogInv, PageKept, Match, RowsOf

\* A new load is for the key selected by then, and newer than every other.
LEMMA LoadsAnew ==
  ASSUME LogInv, NEW others, BagToSet(others) \subseteq BagToSet(calls), NEW then,
         LoadLogs(others, then), selectedLogs' \in Seq(Logs), logsOffset' \in Nat,
         UNCHANGED <<auditLogs, publishing, wire, loadLost>>
  PROVE  LogInv'
<1>. PICK d : d = LogsCall(loadSeq + 1, selectedKey', logsOffset', sortDir', timeRange', then)
  OBVIOUS
<1>1. /\ loadSeq' = loadSeq + 1 /\ loadSeq \in Nat /\ logsLoading' = TRUE
      /\ calls' = others (+) SetToBag({d})
  BY DEF LoadLogs, LogInv
<1>2. BagToSet(calls') \subseteq BagToSet(calls) \cup {d}
  BY <1>1, CallsAdded
<1>3. CallOK(d)'
  <2>1. /\ DOMAIN d = {"kind", "state", "answer", "then", "seq", "key", "param", "offset", "dir",
                       "range"}
        /\ d.kind = "logs" /\ d.state = "sent" /\ d.seq = loadSeq' /\ d.offset = logsOffset'
        /\ d.param = (IF d.key = Unknown THEN None ELSE d.key) /\ d.key = selectedKey'
    BY <1>1 DEF LogsCall
  <2>. QED  BY <1>1, <2>1 DEF CallOK
<1>4. ASSUME NEW c \in BagToSet(calls)  PROVE CallOK(c)'
  <2>1. CallOK(c)
    BY DEF LogInv
  <2>. QED  BY <1>1, <2>1 DEF CallOK, RowsOf
<1>5. \A c \in BagToSet(calls') : CallOK(c)'
  BY <1>2, <1>3, <1>4
<1>6. logsLoading' = TRUE /\ loadSeq' \in Nat
  BY <1>1
<1>. QED  BY <1>5, <1>6 DEF LogInv

\* An answer is taken up: the rows it leaves on the page are of the key it was
\* asked for, which is the one selected, or nothing changes but what is loading.
LEMMA TakeLogsStep ==
  ASSUME LogInv, NEW c \in BagToSet(calls), TakeLogs(c)
  PROVE  LogInv'
<1>. DEFINE arrived == c.answer.rows
            hits == Ascending({i \in DOMAIN arrived : ~cacheFilter \/ arrived[i] \in Hits})
            shown == [i \in DOMAIN hits |-> arrived[hits[i]]]
<1>1. /\ CallOK(c) /\ c.kind = "logs" /\ c.state = "answered"
      /\ UNCHANGED <<auditLogs, publishing, wire, selectedKey, logsOffset, loadSeq>>
      /\ logsLoading' = (logsLoading /\ ~Clears(c))
      /\ calls' = Without(c)
  BY DEF TakeLogs, LogInv, serverVars, queryVars
<1>2. BagToSet(calls') \subseteq BagToSet(calls)
  BY <1>1, CallsLeft
<1>3. shown \in Seq(RowsOf(c.key))
  <2>1. arrived \in Seq(RowsOf(c.key))
    BY <1>1 DEF CallOK
  <2>. HIDE DEF arrived
  <2>2. /\ DOMAIN arrived = 1 .. Len(arrived) /\ Len(arrived) \in Nat
        /\ \A i \in DOMAIN arrived : arrived[i] \in RowsOf(c.key)
    BY <2>1
  <2>3. IsFiniteSet(DOMAIN arrived) /\ DOMAIN arrived \subseteq Nat
    BY <2>2, FS_Interval
  <2>4. /\ IsFiniteSet({i \in DOMAIN arrived : ~cacheFilter \/ arrived[i] \in Hits})
        /\ {i \in DOMAIN arrived : ~cacheFilter \/ arrived[i] \in Hits} \subseteq Nat
    BY <2>3, FS_Subset
  <2>5. hits \in Seq({i \in DOMAIN arrived : ~cacheFilter \/ arrived[i] \in Hits})
    BY <2>4, AscendingOf
  <2>. HIDE DEF hits
  <2>6. /\ Len(hits) \in Nat /\ DOMAIN hits = 1 .. Len(hits)
        /\ \A i \in DOMAIN hits : hits[i] \in DOMAIN arrived
    BY <2>5
  <2>. QED  BY <2>2, <2>6, IsASeq
<1>. HIDE DEF shown
<1>4. CASE Applies(c) /\ selectedLogs' = shown /\ loadLost' = FALSE
  <2>1. Match' /\ selectedLogs' \in Seq(Logs)
    BY <1>1, <1>3, <1>4 DEF Applies, Match, RowsOf
  <2>2. \A x \in BagToSet(calls') : CallOK(x)'
    BY <1>1, <1>2, <2>1 DEF LogInv, CallOK, RowsOf
  <2>. QED  BY <1>1, <1>4, <2>1, <2>2 DEF LogInv
<1>5. CASE ~Applies(c) /\ UNCHANGED <<selectedLogs, loadLost>>
  <2>1. Match' = Match /\ \A x : CallOK(x)' = CallOK(x)
    BY <1>1, <1>5 DEF Match, RowsOf, CallOK
  <2>2. Clears(c) => Match
    BY <1>1, <1>5 DEF Clears, Applies, CallOK
  <2>. QED  BY <1>1, <1>2, <1>5, <2>1, <2>2 DEF LogInv
<1>. QED  BY <1>4, <1>5 DEF TakeLogs, shown

LEMMA TakeFailureStep ==
  ASSUME LogInv, NEW c \in BagToSet(calls), TakeFailure(c)
  PROVE  LogInv'
<1>1. /\ UNCHANGED <<auditLogs, publishing, wire, selectedKey, selectedLogs, logsOffset, loadSeq>>
      /\ logsLoading' = (logsLoading /\ ~Clears(c))
      /\ loadLost' = (loadLost \/ Clears(c))
      /\ calls' = Without(c)
  BY DEF TakeFailure, Clears, serverVars, queryVars
<1>2. BagToSet(calls') \subseteq BagToSet(calls)
  BY <1>1, CallsLeft
<1>3. Match' = Match /\ \A x : CallOK(x)' = CallOK(x)
  BY <1>1 DEF Match, RowsOf, CallOK
<1>. QED  BY <1>1, <1>2, <1>3 DEF LogInv

LEMMA TakeKeysStep ==
  ASSUME LogInv, NEW c \in BagToSet(calls), TakeKeys(c)
  PROVE  LogInv'
<1>1. \E then : LoadLogs(Without(c), then)
  BY DEF TakeKeys
<1>2. UNCHANGED <<auditLogs, publishing, wire, loadLost>>
  BY DEF TakeKeys, serverVars
<1>3. selectedLogs' \in Seq(Logs)
  <2>1. selectedLogs' = <<>> \/ selectedLogs' = selectedLogs
    BY DEF TakeKeys
  <2>. QED  BY <2>1, EmptySeq DEF LogInv
<1>4. logsOffset' \in Nat
  BY DEF TakeKeys, LogInv
<1>. QED  BY <1>1, <1>2, <1>3, <1>4, CallsLeft, LoadsAnew

\* A live row is shown only under its own key.
LEMMA LiveRow ==
  ASSUME LogInv, NEW l \in Logs, HandleLiveLog(l)
  PROVE  /\ selectedLogs' \in Seq(Logs) /\ logsOffset' \in Nat
         /\ \/ selectedKey' = selectedKey /\ (Match => Match')
            \/ Match'
<1>1. CASE UNCHANGED <<selectedKey, selectedLogs, logsOffset>>
  BY <1>1 DEF LogInv, Match, RowsOf
<1>2. CASE IsNew(l)
  <2>. DEFINE k == KeyOf[l]
              earlier == IF selectedKey = None THEN <<>> ELSE selectedLogs
              shown(n) == SubSeq(<<l>> \o earlier, 1, Min({n, Limit}))
  <2>1. /\ selectedKey' = IF selectedKey = None THEN k ELSE selectedKey
        /\ logsOffset' = IF selectedKey = None THEN 0 ELSE logsOffset
        /\ selectedLogs' = IF selectedKey' = k THEN shown(Len(earlier) + 1) ELSE selectedLogs
    BY <1>2 DEF HandleLiveLog
  <2>2. l \in RowsOf(k)
    BY DEF RowsOf
  <2>3. ASSUME NEW S, l \in S, earlier \in Seq(S)  PROVE shown(Len(earlier) + 1) \in Seq(S)
    <3>1. /\ <<l>> \o earlier \in Seq(S)
          /\ Len(<<l>> \o earlier) = Len(earlier) + 1 /\ Len(earlier) \in Nat
      BY <2>3
    <3>2. ASSUME NEW a \in Nat, NEW b \in Nat  PROVE Min({a, b}) \in Nat /\ Min({a, b}) <= a
      BY DEF Min
    <3>3. /\ Min({Len(earlier) + 1, Limit}) \in Nat
          /\ Min({Len(earlier) + 1, Limit}) <= Len(earlier) + 1
      BY <3>1, <3>2, LogsAssumption
    <3>. DEFINE s == <<l>> \o earlier
                m == Min({Len(earlier) + 1, Limit})
    <3>4. s \in Seq(S) /\ m \in Nat /\ m <= Len(s)
      BY <3>1, <3>3
    <3>. HIDE DEF s, m
    <3>5. SubSeq(s, 1, m) \in Seq(S)
      <4>1. 1 \in Int /\ m \in Int /\ \A i \in 1 .. m : s[i] \in S
        BY <3>4
      <4>. QED  BY <4>1, SubSeqProperties
    <3>. QED  BY <3>5 DEF s, m
  <2>. HIDE DEF shown
  <2>4. earlier \in Seq(Logs) /\ selectedLogs' \in Seq(Logs)
    BY <2>1, <2>3 DEF LogInv
  <2>5. CASE selectedKey = None
    <3>1. selectedKey' = k /\ earlier \in Seq(RowsOf(k))
      BY <2>1, <2>5
    <3>2. Match'
      BY <2>1, <2>2, <2>3, <3>1 DEF Match, RowsOf
    <3>. QED  BY <2>1, <2>4, <3>2 DEF LogInv
  <2>6. CASE selectedKey # None
    <3>1. selectedKey' = selectedKey /\ earlier = selectedLogs
      BY <2>1, <2>6
    <3>2. ASSUME Match  PROVE Match'
      <4>1. CASE selectedKey = k
        BY <2>1, <2>2, <2>3, <3>1, <3>2, <4>1 DEF Match, RowsOf
      <4>2. CASE selectedKey # k
        BY <2>1, <3>1, <3>2, <4>2 DEF Match, RowsOf
      <4>. QED  BY <4>1, <4>2
    <3>. QED  BY <2>1, <2>4, <2>6, <3>1, <3>2 DEF LogInv
  <2>. QED  BY <2>5, <2>6
<1>. QED  BY <1>1, <1>2 DEF HandleLiveLog

LEMMA ReceiveStep ==
  ASSUME LogInv, NEW s \in Streams, Receive(s)
  PROVE  LogInv'
<1>1. /\ wire[s] \in Seq(Logs) /\ wire[s] # <<>>
      /\ wire' = [wire EXCEPT ![s] = Tail(@)]
      /\ UNCHANGED <<auditLogs, publishing, logsLoading, loadSeq, calls, loadLost>>
  BY DEF Receive, LogInv
<1>2. wire' \in [Streams -> Seq(Logs)] /\ Head(wire[s]) \in Logs
  BY <1>1 DEF LogInv
<1>3. CASE HandleLiveLog(Head(wire[s]))
  <2>1. /\ selectedLogs' \in Seq(Logs) /\ logsOffset' \in Nat
        /\ \/ selectedKey' = selectedKey /\ (Match => Match')
           \/ Match'
    BY <1>2, <1>3, LiveRow
  <2>2. \A c \in BagToSet(calls') : CallOK(c)'
    BY <1>1, <2>1 DEF LogInv, CallOK, RowsOf
  <2>3. Match => Match'
    BY <2>1
  <2>. QED  BY <1>1, <1>2, <2>1, <2>2, <2>3 DEF LogInv
<1>4. CASE UNCHANGED <<selectedKey, selectedLogs, logsOffset>>
  <2>1. Match' = Match /\ \A x : CallOK(x)' = CallOK(x)
    BY <1>1, <1>4 DEF Match, RowsOf, CallOK
  <2>. QED  BY <1>1, <1>2, <1>4, <2>1 DEF LogInv
<1>. QED  BY <1>3, <1>4 DEF Receive

\* The operator's controls load anew; the time range lists the keys first.
LEMMA OperatorStep ==
  ASSUME LogInv, OperatorNext
  PROVE  LogInv'
<1>1. UNCHANGED <<auditLogs, publishing, wire, loadLost>>
  BY DEF OperatorNext, SelectKey, SetSort, SetFilter, TurnPage, TimeChange, Click, serverVars
<1>2. CASE TimeChange
  <2>. PICK d : d = KeysCall(selectedKey, timeRange', "time")
    OBVIOUS
  <2>1. PageKept /\ calls' = calls (+) SetToBag({d})
    BY <1>1, <1>2 DEF TimeChange, PageKept
  <2>2. CallOK(d)
    BY DEF CallOK, KeysCall
  <2>3. BagToSet(calls') = BagToSet(calls) \cup {d}
    BY <2>1, CallsAdded
  <2>4. PageKept
    BY <2>1
  <2>. QED  BY <1>1, <2>2, <2>3, <2>4, CallKept DEF LogInv, PageKept, Match, RowsOf
<1>3. ASSUME LoadLogs(calls, ""), selectedLogs' \in {<<>>, selectedLogs}, logsOffset' \in Nat
      PROVE  LogInv'
  <2>1. selectedLogs' \in Seq(Logs)
    BY <1>3, EmptySeq DEF LogInv
  <2>. QED  BY <1>1, <1>3, <2>1, LoadsAnew
<1>4. CASE \E s \in keys : SelectKey(s.key)
  <2>1. LoadLogs(calls, "") /\ selectedLogs' = <<>> /\ logsOffset' = 0
    BY <1>4 DEF SelectKey
  <2>. QED  BY <1>3, <2>1
<1>5. CASE SetSort
  BY <1>3, <1>5 DEF SetSort
<1>6. CASE SetFilter
  BY <1>3, <1>6 DEF SetFilter
<1>7. CASE TurnPage
  <2>1. PICK o \in {logsOffset - Limit, logsOffset + Limit} : 0 <= o /\ logsOffset' = o
    BY <1>7 DEF TurnPage
  <2>2. logsOffset' \in Nat
    BY <2>1, LogsAssumption DEF LogInv
  <2>. QED  BY <1>3, <1>7, <2>2 DEF TurnPage
<1>. QED  BY <1>2, <1>4, <1>5, <1>6, <1>7 DEF OperatorNext

LEMMA LogInitially == LogInit => LogInv
<1>. SUFFICES ASSUME LogInit PROVE LogInv
  OBVIOUS
<1>1. BagToSet(calls) = {KeysCall(None, "day", "init")}
  BY DEF LogInit, BagToSet
<1>2. CallOK(KeysCall(None, "day", "init"))
  BY DEF CallOK, KeysCall
<1>3. <<>> \in Seq(Logs) /\ <<>> \in Seq(RowsOf(selectedKey))
  OBVIOUS
<1>. QED  BY <1>1, <1>2, <1>3, LogsAssumption DEF LogInit, LogInv, Match

LEMMA LogStep ==
  ASSUME LogInv, PageNext \/ OperatorNext \/ FeedNext \/ ServerNext
  PROVE  LogInv'
<1>1. CASE PageNext
  BY <1>1, TakeLogsStep, TakeFailureStep, TakeKeysStep, ReceiveStep DEF PageNext
<1>2. CASE OperatorNext
  BY <1>2, OperatorStep
<1>3. CASE FeedNext
  BY <1>3, FeedNextStep
<1>4. CASE ServerNext
  BY <1>4, WriteRowStep, PublishStep, ServeCallStep, FeedNextStep, GatewayStopsStep DEF ServerNext
<1>. QED  BY <1>1, <1>2, <1>3, <1>4

(* ------------------------------- the page -------------------------------- *)

DashboardInv == ListsInv /\ ComposerInv /\ LogInv

LEMMA DashboardInvariant == DashboardSpec => []DashboardInv
<1>1. DashboardInit => DashboardInv
  BY ListsInit, ComposerInit, LogInitially DEF DashboardInit, DashboardInv
<1>2. DashboardInv /\ [DashboardNext]_dashboardVars => DashboardInv'
  <2>. SUFFICES ASSUME DashboardInv, [DashboardNext]_dashboardVars  PROVE DashboardInv'
    OBVIOUS
  <2>1. ASSUME UNCHANGED logVars  PROVE LogInv'
    <3>1. PageKept /\ UNCHANGED <<calls, auditLogs, publishing, wire>>
      BY <2>1 DEF logVars, serverVars, queryVars, pageVars, PageKept
    <3>. QED  BY <3>1, FeedStep DEF DashboardInv, LogInv
  <2>2. ASSUME [AdminNext]_adminVars  PROVE ListsInv' /\ ComposerInv'
    BY <2>2, ListsNext, ComposerNext DEF DashboardInv
  <2>3. CASE OnLogs(PageNext) \/ OnLogs(OperatorNext) \/ OnLogs(FeedNext) \/ OnLogs(ServerNext)
    BY <2>2, <2>3, LogStep DEF OnLogs, DashboardInv
  <2>4. CASE AdminNext /\ UNCHANGED logVars
    BY <2>1, <2>2, <2>4 DEF DashboardInv
  <2>5. CASE UNCHANGED dashboardVars
    BY <2>1, <2>2, <2>5 DEF dashboardVars, DashboardInv
  <2>. QED  BY <2>3, <2>4, <2>5 DEF DashboardNext
<1>. QED  BY <1>1, <1>2, PTL DEF DashboardSpec

\* However the methods of a page overlap, and whatever the gateway refuses, fails with
\* half done or does not answer, the page shows the gateway's table once nothing is under
\* way, unless its newest answer is an error, came after a newer one, or is older than a
\* change whose method ended without listing.
THEOREM ListsBecomeCurrent == DashboardSpec => []ListIsCurrent
<1>1. ListsInv => ListIsCurrent
  BY DEF ListsInv, ListIsCurrent, EmptyBag, SetToBag, BagToSet
<1>. QED  BY <1>1, DashboardInvariant, PTL DEF DashboardInv

\* Whatever the page lists, is expanded or filtered, the tree of models or of
\* providers shows each row once, as a leaf or in the counts of a closed group.
THEOREM TreesAccount == DashboardSpec => []TreesAccountForAll
<1>1. ListsInv => TreesAccountForAll
  <2>. SUFFICES ASSUME ListsInv PROVE TreesAccountForAll
    OBVIOUS
  <2>1. IsFiniteSet(DOMAIN list) /\ HavePaths(DOMAIN list)
    BY TablesAssumption DEF ListsInv, TableOK, HavePaths
  <2>. QED  BY <2>1, ModelsAccounted, ProvidersAccounted DEF TreesAccountForAll
<1>. QED  BY <1>1, DashboardInvariant, PTL DEF DashboardInv

\* In whatever order answers, live rows, lists of keys and clicks arrive, the log
\* page shows rows of the key selected unless a load is under way or was lost.
THEOREM RowsAreOfTheKey == DashboardSpec => []RowsBelongToSelection
<1>1. LogInv => RowsBelongToSelection
  <2>. SUFFICES ASSUME LogInv, ~logsLoading, ~loadLost, selectedKey \notin {None, Unknown},
                       NEW l \in ToSet(selectedLogs)
                PROVE  KeyOf[l] = selectedKey
    BY DEF RowsBelongToSelection
  <2>1. selectedLogs \in Seq(RowsOf(selectedKey))
    BY DEF LogInv, Match
  <2>2. l \in RowsOf(selectedKey)
    BY <2>1 DEF ToSet
  <2>. QED  BY <2>2 DEF RowsOf
<1>. QED  BY <1>1, DashboardInvariant, PTL DEF DashboardInv

\* However bindings were added, removed and moved, and whatever else the dashboard
\* has under way, a save of the composer that nothing disturbs stores the pipeline.
THEOREM PipelineIsStored == DashboardSpec => []ComposedIsStored
<1>1. DashboardInv => ComposedIsStored
  BY ComposerStored DEF DashboardInv
<1>. QED  BY <1>1, DashboardInvariant, PTL
=============================================================================
