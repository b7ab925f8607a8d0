---------------------------- MODULE ProviderProofs ----------------------------
(***************************************************************************)
(* Theorems about Provider, for every set of rows, kids and goroutines and *)
(* every number of faults.                                                 *)
(*                                                                         *)
(* The invariant of the composition is the invariant of the grants, that   *)
(* of the keys, and what relates the two: the key a token names is a row,  *)
(* and a validating request holds a token that was issued.                 *)
(***************************************************************************)
EXTENDS Provider, GrantPromisesProofs

USE GoroutinesAreTyped DEF Call, CallState, NoCall

-----------------------------------------------------------------------------
(* A step of the provider is a step of the keys or leaves them alone.      *)

LEMMA StepsOfTheKeys == [ProviderNext]_providerVars => [Keys!Next]_(Keys!vars)
PROOF
  <1> SUFFICES ASSUME [ProviderNext]_providerVars PROVE [Keys!Next]_(Keys!vars)
    OBVIOUS
  <1>1. ASSUME NEW r \in Request, SignToken(r) PROVE Keys!Next
    BY <1>1 DEF SignToken, Keys!Next
  <1>2. CASE KeyStep
    BY <1>2 DEF KeyStep, Keys!Next
  <1>3. CASE CrashProvider
    BY <1>3 DEF CrashProvider, Keys!Next
  <1>4. ASSUME NEW r \in Request, SaveAccessToken(r) \/ SaveIDToken(r) \/ AbortGrant(r)
        PROVE  UNCHANGED keyVars
    BY <1>4 DEF SaveAccessToken, SaveIDToken, AbortGrant
  <1>5. GrantStep => UNCHANGED keyVars
    BY DEF GrantStep
  <1>6. ASSUME NEW q \in Call, NEW t \in AToken, Receive(q, t)
        PROVE  UNCHANGED keyVars
    BY <1>6 DEF Receive
  <1>7. UNCHANGED providerVars => UNCHANGED keyVars
    BY DEF providerVars
  <1>8. UNCHANGED keyVars => UNCHANGED Keys!vars
    BY DEF keyVars, Keys!vars
  <1>9. ASSUME NEW q \in Call, Serve(q) \/ LoseUserinfo(q) \/ LoseRevocation(q)
        PROVE  UNCHANGED keyVars
    BY <1>9 DEF Serve, ValidateAccessToken, FindByJTI, AnswerUserinfo, Revoke,
                LoseUserinfo, LoseRevocation
  <1> QED BY <1>1, <1>2, <1>3, <1>4, <1>5, <1>6, <1>7, <1>8, <1>9 DEF ProviderNext

(* The composition implements the keys: their theorems hold of the         *)
(* provider, whatever the grants and the validating requests do.           *)
THEOREM ProviderImplementsKeys == ProviderSpec => KeysBehave
PROOF
  <1>1. ProviderInit => Keys!Init
    BY DEF ProviderInit
  <1> QED BY <1>1, StepsOfTheKeys, PTL DEF ProviderSpec, KeysBehave, Keys!Spec

-----------------------------------------------------------------------------
(* The keys, with what SigningKeysProofs proves of them.                   *)

KP ==
  INSTANCE SigningKeysProofs WITH Admin <- KeyAdmin, MaxFaults <- MaxKeyFaults, faults <- keyFaults

(* Provider and SigningKeysProofs instantiate the same keys. *)
LEMMA SameCardinality == \A S : Keys!Cardinality(S) = KP!Cardinality(S)
  BY DEF Keys!Cardinality, KP!Cardinality

LEMMA SameKeys ==
  /\ Keys!Init => KP!Init
  /\ [Keys!Next]_(Keys!vars) => [KP!Next]_(KP!vars)
PROOF
  <1> USE DEF Keys!Actor, KP!Actor, Keys!Idle, KP!Idle, Keys!rows, KP!rows, Keys!vars, KP!vars,
              Keys!Goto, KP!Goto, Keys!Finish, KP!Finish, Keys!SeqToSet, KP!SeqToSet
  <1>1. Keys!Init => KP!Init
    BY DEF Keys!Init, KP!Init
  <1>2. Keys!EnsureSigningKey => KP!EnsureSigningKey
    BY SameCardinality DEF Keys!EnsureSigningKey, KP!EnsureSigningKey, Keys!AKidIsLeft, KP!AKidIsLeft
  <1>3. ASSUME NEW a
        PROVE  /\ Keys!Continue(a) => KP!Continue(a)
               /\ Keys!Abort(a) => KP!Abort(a)
    BY SameCardinality DEF Keys!Continue, KP!Continue, Keys!Abort, KP!Abort, Keys!GenerateKey, KP!GenerateKey,
           Keys!InsertKey, KP!InsertKey, Keys!FindAllActive, KP!FindAllActive,
           Keys!IsLastActive, KP!IsLastActive, Keys!Deactivate, KP!Deactivate
  <1>4. ASSUME NEW a
        PROVE  /\ Keys!DeactivateAllActive(a) => KP!DeactivateAllActive(a)
               /\ \A k : Keys!FindByKID(a, k) => KP!FindByKID(a, k)
    BY SameCardinality DEF Keys!DeactivateAllActive, KP!DeactivateAllActive, Keys!AKidIsLeft, KP!AKidIsLeft,
           Keys!FindByKID, KP!FindByKID
  <1>5. Keys!Sign => KP!Sign
    BY DEF Keys!Sign, KP!Sign, Keys!FindActive, KP!FindActive, Keys!Before, KP!Before
  <1>6. Keys!Crash => KP!Crash
    BY DEF Keys!Crash, KP!Crash
  <1> QED BY <1>1, <1>2, <1>3, <1>4, <1>5, <1>6 DEF Keys!Next, KP!Next

(* The key that signs is a row. *)
LEMMA SigningKeyIsARow ==
  ASSUME KP!KeyInv, active # {}
  PROVE  Keys!FindActive \in keys
PROOF
  <1>1. KP!FindActive \in active
    BY KP!FindActiveIsActive, GoroutinesAreTyped DEF KP!KeyInv
  <1>2. Keys!FindActive = KP!FindActive
    BY DEF Keys!FindActive, KP!FindActive, Keys!Before, KP!Before
  <1> QED BY <1>1, <1>2 DEF KP!KeyInv, KP!TypeOK

(* Every step of the keys keeps their invariant and their rows, and what   *)
(* becomes active was not a row before.                                    *)
LEMMA KeysKeepTheirRows ==
  ASSUME KP!KeyInv, [Keys!Next]_(Keys!vars)
  PROVE  KP!KeyInv' /\ keys \subseteq keys' /\ (active' \ active) \cap keys = {}
PROOF
  <1> USE DEF Keys!rows
  <1>1. KP!KeyInv'
    BY SameKeys, KP!NextKeyInv, GoroutinesAreTyped
  <1>2. ASSUME NEW a \in Keys!Actor, Keys!InsertKey(a)
        PROVE  keys \subseteq keys' /\ (active' \ active) \cap keys = {}
    <2>1. act[a].pc = "insert" => act[a].kid \notin keys
      BY <1>2 DEF KP!KeyInv, KP!StatementsOK, Keys!Actor, KP!Actor
    <2> QED BY <1>2, <2>1 DEF Keys!InsertKey
  <1>3. ASSUME NEW a \in Keys!Actor,
               Keys!GenerateKey(a) \/ Keys!FindAllActive(a) \/ Keys!Deactivate(a) \/ Keys!Abort(a)
        PROVE  keys' = keys /\ active' \subseteq active
    BY <1>3 DEF Keys!GenerateKey, Keys!FindAllActive, Keys!Deactivate, Keys!Abort
  <1>4. ASSUME NEW a, NEW k, Keys!DeactivateAllActive(a) \/ Keys!FindByKID(a, k)
        PROVE  keys' = keys /\ active' \subseteq active
    BY <1>4 DEF Keys!DeactivateAllActive, Keys!FindByKID
  <1>5. Keys!EnsureSigningKey \/ Keys!Sign \/ Keys!Crash \/ UNCHANGED Keys!vars
          => UNCHANGED <<keys, active>>
    BY DEF Keys!EnsureSigningKey, Keys!Sign, Keys!Crash, Keys!vars
  <1> QED BY <1>1, <1>2, <1>3, <1>4, <1>5 DEF Keys!Next, Keys!Continue

-----------------------------------------------------------------------------
(* What relates the grants, the keys and the validating requests. *)

HeadersOK == kid \in [DOMAIN at -> keys] /\ sig \in [Request -> keys \cup {None}]

CallsOK ==
  /\ call \in [Call -> CallState]
  /\ \A q \in Call : call[q].pc # "idle" => call[q].token \in DOMAIN at

ProviderInv == GrantInv /\ KP!KeyInv /\ HeadersOK /\ CallsOK

(* It contains the type invariant. *)
LEMMA ProviderInvTypes == ProviderInv => ProviderTypeOK
PROOF
  <1>1. GrantInv => TypeOK
    BY TypeInvImpliesTypeOK DEF GrantInv
  <1>2. KP!KeyInv => Keys!TypeOK
    BY DEF KP!KeyInv, KP!TypeOK, Keys!TypeOK, KP!SeqToSet, Keys!SeqToSet, KP!Actor, Keys!Actor,
           KP!ActorState, Keys!ActorState
  <1> QED BY <1>1, <1>2 DEF ProviderInv, HeadersOK, CallsOK, ProviderTypeOK

(* Nothing is issued and nobody validates at first. *)
LEMMA InitProviderInv == ProviderInit => ProviderInv
PROOF
  <1> SUFFICES ASSUME ProviderInit PROVE ProviderInv
    OBVIOUS
  <1>1. GrantInv /\ DOMAIN at = {}
    BY InitGrantInv DEF ProviderInit, Init
  <1>2. KP!KeyInv
    BY SameKeys, KP!InitKeyInv, GoroutinesAreTyped DEF ProviderInit
  <1>3. HeadersOK
    BY <1>1 DEF ProviderInit, HeadersOK
  <1>4. CallsOK
    BY DEF ProviderInit, CallsOK
  <1> QED BY <1>1, <1>2, <1>3, <1>4 DEF ProviderInv

(* What a validating request does to the rows is a step of the grants: a   *)
(* revocation, or the loss of one.                                         *)
LEMMA CallsAreGrantSteps ==
  ASSUME ProviderInv, NEW q \in Call, Serve(q) \/ LoseUserinfo(q) \/ LoseRevocation(q)
  PROVE  [Next]_vars /\ UNCHANGED <<at, keys, active, kid, sig>>
PROOF
  <1> DEFINE t == call[q].token
  <1>1. CASE ValidateAccessToken(q) \/ FindByJTI(q) \/ AnswerUserinfo(q) \/ LoseUserinfo(q)
    BY <1>1 DEF ValidateAccessToken, FindByJTI, AnswerUserinfo, LoseUserinfo, keyVars, vars
  <1>2. call[q].pc # "idle" => t \in AToken /\ t \in DOMAIN at
    BY DEF ProviderInv, CallsOK, GrantInv, TypeInv, TablesOK
  <1>3. CASE Revoke(q)
    <2>1. t \in AToken /\ RevokeAccessToken(t)
      BY <1>2, <1>3 DEF Revoke
    <2> QED BY <1>3, <2>1 DEF Revoke, RevokeAccessToken, tables, keyVars, Next, Environment
  <1>4. CASE LoseRevocation(q)
    <2>1. t \in AToken /\ RevokeAccessToken(t)
      BY <1>2, <1>4 DEF LoseRevocation, RevokeAccessToken, BestEffortRevoke
    <2> QED BY <1>4, <2>1 DEF LoseRevocation, tables, keyVars, Next, Environment
  <1> QED BY <1>1, <1>3, <1>4 DEF Serve

(* A step of the provider is a step of the grants or leaves them alone. *)
LEMMA StepsOfTheGrants ==
  ASSUME ProviderInv, [ProviderNext]_providerVars
  PROVE  [Next]_vars
PROOF
  <1>1. ASSUME NEW r \in Request, SignToken(r) PROVE UNCHANGED vars
    BY <1>1 DEF SignToken
  <1>2. ASSUME NEW r \in Request, SaveAccessToken(r) \/ SaveIDToken(r) \/ AbortGrant(r)
        PROVE  Next
    BY <1>2 DEF SaveAccessToken, SaveIDToken, AbortGrant, Next, Continue
  <1>3. CASE GrantStep
    BY <1>3 DEF GrantStep, Unsigned, Incident, Next, Continue, Environment
  <1>4. KeyStep \/ UNCHANGED providerVars => UNCHANGED vars
    BY DEF KeyStep, providerVars
  <1>5. CrashProvider => Next
    BY DEF CrashProvider, Next, Environment
  <1>6. ASSUME NEW q \in Call, NEW t \in AToken, Receive(q, t)
        PROVE  UNCHANGED vars
    BY <1>6 DEF Receive
  <1>7. ASSUME NEW q \in Call, Serve(q) \/ LoseUserinfo(q) \/ LoseRevocation(q)
        PROVE  [Next]_vars
    BY <1>7, CallsAreGrantSteps
  <1> QED BY <1>1, <1>2, <1>3, <1>4, <1>5, <1>6, <1>7 DEF ProviderNext

(* An access token is inserted by SaveAccessToken and nowhere else. *)
LEMMA OtherStepsInsertNothing ==
  ASSUME ProviderInv, [ProviderNext]_providerVars, ~\E r \in Request : SaveAccessToken(r)
  PROVE  UNCHANGED <<at, kid>>
PROOF
  <1> USE DEF tables
  <1>1. ASSUME NEW r \in Request, SignToken(r) \/ SaveIDToken(r) \/ AbortGrant(r)
        PROVE  UNCHANGED <<at, kid>>
    BY <1>1 DEF SignToken, SaveIDToken, CreateIDToken, AbortGrant, Abort, vars
  <1>2. ASSUME NEW r \in Request, Unsigned(r)
        PROVE  UNCHANGED at
    <2>1. Accept(r) => UNCHANGED at
      BY DEF Accept, AuthorizeCheck, CodeGrantAccept, CodeGrantReplay, RefreshAccept,
             RefreshReuse, RevokeRefreshToken
    <2> QED BY <1>2, <2>1
            DEF Unsigned, CreateCode, MarkAsUsed, Rotate, RetireAT, CreateRT, MarkReuse,
                RevokeSessionATs, RevokeSessionRTs, RevokePairedAT
  <1>3. ASSUME NEW a \in Admin, Incident(a)
        PROVE  UNCHANGED at
    BY <1>3 DEF Incident, IncidentSessions, ContinueIncident, IncidentAccessTokens,
                IncidentRefreshTokens, AbortIncident
  <1>4. GrantStep => UNCHANGED <<at, kid>>
    BY <1>2, <1>3 DEF GrantStep, Login, Expire
  <1>5. KeyStep \/ CrashProvider \/ UNCHANGED providerVars => UNCHANGED <<at, kid>>
    BY DEF KeyStep, CrashProvider, Crash, providerVars, vars
  <1>6. ASSUME NEW q \in Call, NEW t \in AToken, Receive(q, t)
        PROVE  UNCHANGED <<at, kid>>
    BY <1>6 DEF Receive, vars
  <1>7. ASSUME NEW q \in Call, Serve(q) \/ LoseUserinfo(q) \/ LoseRevocation(q)
        PROVE  UNCHANGED <<at, kid>>
    BY <1>7, CallsAreGrantSteps
  <1> QED BY <1>1, <1>4, <1>5, <1>6, <1>7 DEF ProviderNext

(* A key is picked when a token is signed, and dropped when its row is     *)
(* inserted or the request ends.                                           *)
LEMMA SigStep ==
  ASSUME ProviderInv, [ProviderNext]_providerVars
  PROVE  sig' \in [Request -> keys \cup {None}]
PROOF
  <1> USE DEF ProviderInv, HeadersOK
  <1>1. ASSUME NEW r \in Request, SignToken(r)
        PROVE  sig' \in [Request -> keys \cup {None}]
    <2>1. Keys!FindActive \in keys
      BY <1>1, SigningKeyIsARow DEF SignToken, Keys!Sign
    <2> QED BY <1>1, <2>1 DEF SignToken
  <1>2. ASSUME NEW r \in Request, SaveAccessToken(r) \/ SaveIDToken(r) \/ AbortGrant(r)
        PROVE  sig' \in [Request -> keys \cup {None}]
    BY <1>2 DEF SaveAccessToken, SaveIDToken, AbortGrant
  <1>3. GrantStep \/ KeyStep \/ UNCHANGED providerVars => UNCHANGED sig
    BY DEF GrantStep, KeyStep, providerVars
  <1>4. CrashProvider => sig' \in [Request -> keys \cup {None}]
    BY DEF CrashProvider
  <1>5. ASSUME NEW q \in Call, NEW t \in AToken, Receive(q, t)
        PROVE  UNCHANGED sig
    BY <1>5 DEF Receive
  <1>6. ASSUME NEW q \in Call, Serve(q) \/ LoseUserinfo(q) \/ LoseRevocation(q)
        PROVE  UNCHANGED sig
    BY <1>6, CallsAreGrantSteps
  <1> QED BY <1>1, <1>2, <1>3, <1>4, <1>5, <1>6 DEF ProviderNext

(* Every token keeps the key it was signed with, and that key its row. *)
LEMMA HeadersKept ==
  ASSUME ProviderInv, [ProviderNext]_providerVars
  PROVE  HeadersOK' /\ \A t \in DOMAIN at : t \in DOMAIN at' /\ kid'[t] = kid[t]
PROOF
  <1>1. keys \subseteq keys'
    BY StepsOfTheKeys, KeysKeepTheirRows DEF ProviderInv
  <1>2. sig' \in [Request -> keys' \cup {None}]
    BY <1>1, SigStep
  <1>3. ASSUME NEW r \in Request, SaveAccessToken(r)
        PROVE  /\ kid' \in [DOMAIN at' -> keys']
               /\ \A t \in DOMAIN at : t \in DOMAIN at' /\ kid'[t] = kid[t]
    <2>1. req[r].pc = "createAT" /\ DOMAIN at' = DOMAIN at \cup {req[r].new}
      BY <1>3 DEF SaveAccessToken, CodeGrantCreateAT, RefreshCreateAT, Insert
    <2>2. req[r].new \notin DOMAIN at
      BY <2>1 DEF ProviderInv, GrantInv, Staged
    <2>3. sig[r] \in keys /\ kid \in [DOMAIN at -> keys]
      BY <1>3 DEF SaveAccessToken, ProviderInv, HeadersOK
    <2>4. kid' = [t \in DOMAIN at \cup {req[r].new} |->
                    IF t = req[r].new THEN sig[r] ELSE kid[t]]
      BY <1>3, <2>3 DEF SaveAccessToken
    <2> QED BY <1>1, <2>1, <2>2, <2>3, <2>4
  <1>4. CASE ~\E r \in Request : SaveAccessToken(r)
    <2>1. UNCHANGED <<at, kid>>
      BY <1>4, OtherStepsInsertNothing
    <2> QED BY <1>1, <1>2, <2>1 DEF ProviderInv, HeadersOK
  <1> QED BY <1>2, <1>3, <1>4 DEF HeadersOK

(* A validating request moves itself alone. *)
LEMMA OneCallSteps ==
  ASSUME NEW p \in Call, Serve(p) \/ LoseUserinfo(p) \/ LoseRevocation(p)
  PROVE  \E c : call' = [call EXCEPT ![p] = c]
  BY DEF Serve, ValidateAccessToken, FindByJTI, AnswerUserinfo, Revoke, LoseUserinfo,
         LoseRevocation, Done, Advance

(* What a step does to one validating request. *)
LEMMA CallStep ==
  ASSUME ProviderInv, [ProviderNext]_providerVars, NEW q \in Call
  PROVE  \/ call'[q] = call[q]
         \/ call'[q] = NoCall
         \/ \E t \in DOMAIN at : call'[q] = [pc |-> "verify", token |-> t]
         \/ /\ call[q].pc = "verify" /\ Verifies(call[q].token)
            /\ call'[q] = [pc |-> "lookUp", token |-> call[q].token]
         \/ /\ call[q].pc = "lookUp" /\ ~(q \in Userinfo /\ call[q].token \in revoked)
            /\ call'[q] = [pc |-> "finish", token |-> call[q].token]
PROOF
  <1> USE DEF ProviderInv, CallsOK
  <1>1. ASSUME NEW r \in Request,
               SignToken(r) \/ SaveAccessToken(r) \/ SaveIDToken(r) \/ AbortGrant(r)
        PROVE  UNCHANGED call
    BY <1>1 DEF SignToken, SaveAccessToken, SaveIDToken, AbortGrant
  <1>2. GrantStep \/ KeyStep \/ UNCHANGED providerVars => UNCHANGED call
    BY DEF GrantStep, KeyStep, providerVars
  <1>3. CrashProvider => call'[q] = NoCall
    BY DEF CrashProvider
  <1>4. ASSUME NEW p \in Call, NEW t \in AToken, Receive(p, t)
        PROVE  \/ call'[q] = call[q]
               \/ call'[q] = [pc |-> "verify", token |-> t] /\ t \in DOMAIN at
    BY <1>4 DEF Receive
  <1>5. ASSUME NEW p \in Call, ValidateAccessToken(p) \/ FindByJTI(p)
        PROVE  \/ call'[q] = call[q]
               \/ call'[q] = NoCall
               \/ /\ call[q].pc = "verify" /\ Verifies(call[q].token)
                  /\ call'[q] = [pc |-> "lookUp", token |-> call[q].token]
               \/ /\ call[q].pc = "lookUp" /\ ~(q \in Userinfo /\ call[q].token \in revoked)
                  /\ call'[q] = [pc |-> "finish", token |-> call[q].token]
    BY <1>5 DEF ValidateAccessToken, FindByJTI, Done, Advance
  <1>6. ASSUME NEW p \in Call,
               AnswerUserinfo(p) \/ Revoke(p) \/ LoseUserinfo(p) \/ LoseRevocation(p)
        PROVE  call'[q] = call[q] \/ call'[q] = NoCall
    BY <1>6 DEF AnswerUserinfo, Revoke, LoseUserinfo, LoseRevocation, Done
  <1> QED BY <1>1, <1>2, <1>3, <1>4, <1>5, <1>6 DEF ProviderNext, Serve

(* Every step keeps the invariant. *)
LEMMA NextProviderInv ==
  ASSUME ProviderInv, [ProviderNext]_providerVars
  PROVE  ProviderInv'
PROOF
  <1>1. GrantInv'
    BY StepsOfTheGrants, NextGrantInv DEF ProviderInv
  <1>2. KP!KeyInv'
    BY StepsOfTheKeys, KeysKeepTheirRows DEF ProviderInv
  <1>3. HeadersOK' /\ \A t \in DOMAIN at : t \in DOMAIN at'
    BY HeadersKept
  <1>4. DOMAIN at \subseteq AToken
    BY DEF ProviderInv, GrantInv, TypeInv, TablesOK
  <1>5. ASSUME NEW q \in Call
        PROVE  call'[q] \in CallState /\ (call'[q].pc # "idle" => call'[q].token \in DOMAIN at')
    <2>1. call[q] \in CallState /\ (call[q].pc # "idle" => call[q].token \in DOMAIN at)
      BY DEF ProviderInv, CallsOK
    <2>2. \/ call'[q] = call[q]
          \/ call'[q] = NoCall
          \/ \E t \in DOMAIN at : call'[q] = [pc |-> "verify", token |-> t]
          \/ \E p \in {"lookUp", "finish"} :
               call[q].pc # "idle" /\ call'[q] = [pc |-> p, token |-> call[q].token]
      BY CallStep
    <2>3. CASE call'[q] = call[q]
      BY <1>3, <2>1, <2>3
    <2>4. CASE call'[q] = NoCall
      BY <2>4
    <2>5. ASSUME NEW t \in DOMAIN at, call'[q] = [pc |-> "verify", token |-> t]
          PROVE  call'[q] \in CallState /\ call'[q].token \in DOMAIN at'
      BY <1>3, <1>4, <2>5
    <2>6. ASSUME NEW p \in {"lookUp", "finish"}, call[q].pc # "idle",
                 call'[q] = [pc |-> p, token |-> call[q].token]
          PROVE  call'[q] \in CallState /\ call'[q].token \in DOMAIN at'
      BY <1>3, <1>4, <2>1, <2>6
    <2> QED BY <2>2, <2>3, <2>4, <2>5, <2>6
  <1>6. call' = [q \in Call |-> call'[q]]
    <2> USE DEF ProviderInv, CallsOK
    <2>1. ASSUME NEW r \in Request,
                 SignToken(r) \/ SaveAccessToken(r) \/ SaveIDToken(r) \/ AbortGrant(r)
          PROVE  UNCHANGED call
      BY <2>1 DEF SignToken, SaveAccessToken, SaveIDToken, AbortGrant
    <2>2. GrantStep \/ KeyStep \/ UNCHANGED providerVars => UNCHANGED call
      BY DEF GrantStep, KeyStep, providerVars
    <2>3. CrashProvider => call' = [q \in Call |-> NoCall]
      BY DEF CrashProvider
    <2>4. ASSUME NEW p \in Call, NEW t \in AToken, Receive(p, t)
          PROVE  call' = [call EXCEPT ![p] = [pc |-> "verify", token |-> t]]
      BY <2>4 DEF Receive
    <2>5. ASSUME NEW p \in Call, Serve(p) \/ LoseUserinfo(p) \/ LoseRevocation(p)
          PROVE  \E c : call' = [call EXCEPT ![p] = c]
      BY <2>5, OneCallSteps
    <2> QED BY <2>1, <2>2, <2>3, <2>4, <2>5 DEF ProviderNext
  <1>7. CallsOK'
    BY <1>5, <1>6 DEF CallsOK
  <1> QED BY <1>1, <1>2, <1>3, <1>7 DEF ProviderInv

(* The invariant holds in every reachable state. *)
LEMMA ProviderInvHolds == ProviderSpec => []ProviderInv
  BY InitProviderInv, NextProviderInv, PTL DEF ProviderSpec

(* The rows of every table, the keys the tokens name and the tokens the    *)
(* requests hold keep their types, and each issued token names a key that  *)
(* has a row (key_service.go, token_authcode.go, token_refresh.go).        *)
THEOREM ProviderTypeCorrect == ProviderSpec => []ProviderTypeOK
  BY ProviderInvHolds, ProviderInvTypes, PTL

(* The composition implements the grants: their theorems hold of the       *)
(* provider, whatever the keys and the validating requests do.             *)
THEOREM ProviderImplementsGrants == ProviderSpec => GrantsBehave
PROOF
  <1>1. ProviderInit => Init
    BY DEF ProviderInit
  <1>2. ProviderInv /\ [ProviderNext]_providerVars => [Next]_vars
    BY StepsOfTheGrants
  <1> QED BY <1>1, <1>2, ProviderInvHolds, PTL DEF ProviderSpec, GrantsBehave, Spec

-----------------------------------------------------------------------------
(* Refused tokens. *)

(* A token that is refused because it is revoked, because it has expired   *)
(* or because its key is not published is refused after every step.        *)
LEMMA RefusedStaysRefused ==
  ASSUME ProviderInv, [ProviderNext]_providerVars, NEW t \in DOMAIN at, ~Accepted(t)
  PROVE  t \in DOMAIN at' /\ ~Accepted(t)'
PROOF
  <1>1. revoked \subseteq revoked' /\ expired \subseteq expired'
    BY StepsOfTheGrants, MarksStay, ExpiryStays
  <1>2. t \in DOMAIN at' /\ kid'[t] = kid[t] /\ kid[t] \in keys
    BY HeadersKept DEF ProviderInv, HeadersOK
  <1>3. kid[t] \notin active => kid'[t] \notin active'
    BY <1>2, StepsOfTheKeys, KeysKeepTheirRows DEF ProviderInv
  <1> QED BY <1>1, <1>2, <1>3 DEF Accepted, Verifies, Keys!JWKSet

(* No rotation, restart, refresh or late check of the row opens /userinfo  *)
(* to a token it has refused (userinfo.go:41, :49).                        *)
THEOREM RefusalsAreFinal == ProviderSpec => RefusalIsFinal
PROOF
  <1>1. ASSUME ProviderInv, [ProviderNext]_providerVars, NEW t \in AToken, Over(t)
        PROVE  Over(t)'
    <2>1. t \in DOMAIN at' /\ ~Accepted(t)'
      BY <1>1, RefusedStaysRefused DEF Over
    <2>2. revoked \subseteq revoked'
      BY <1>1, StepsOfTheGrants, MarksStay
    <2>3. ASSUME NEW q \in Userinfo, call'[q].token = t
          PROVE  call'[q].pc = "verify" \/ (call'[q].pc = "lookUp" /\ t \in revoked')
      <3>1. q \in Call /\ call[q] \in CallState /\ t # None
        BY <1>1, KeysAreDisjoint DEF ProviderInv, CallsOK
      <3>2. call[q].token = t =>
              call[q].pc = "verify" \/ (call[q].pc = "lookUp" /\ t \in revoked)
        BY <1>1 DEF Over
      <3>3. Verifies(t) => t \in revoked
        BY <1>1 DEF Over, Accepted
      <3>4. CASE call'[q] = call[q]
        BY <2>2, <2>3, <3>2, <3>4
      <3>5. CASE /\ call[q].pc = "verify" /\ Verifies(call[q].token)
                 /\ call'[q] = [pc |-> "lookUp", token |-> call[q].token]
        BY <2>2, <2>3, <3>3, <3>5
      <3>6. CASE /\ call[q].pc = "lookUp" /\ ~(q \in Userinfo /\ call[q].token \in revoked)
                 /\ call'[q] = [pc |-> "finish", token |-> call[q].token]
        BY <2>3, <3>2, <3>6
      <3>7. ASSUME NEW u \in DOMAIN at, call'[q] = [pc |-> "verify", token |-> u]
            PROVE  call'[q].pc = "verify"
        BY <3>7
      <3>8. call'[q] # NoCall
        BY <2>3, <3>1
      <3> QED BY <1>1, <3>1, <3>4, <3>5, <3>6, <3>7, <3>8, CallStep
    <2> QED BY <2>1, <2>3 DEF Over
  <1>2. ProviderInv /\ [ProviderNext]_providerVars =>
          [\A t \in AToken : Over(t) => Over(t)']_providerVars
    BY <1>1
  <1> QED BY <1>2, ProviderInvHolds, PTL DEF ProviderSpec, RefusalIsFinal

(* A revocation that loses no statement leaves its token refused, also     *)
(* when it finds the token's key unpublished and changes nothing           *)
(* (revoke.go:84).                                                         *)
THEOREM RevocationsHold == ProviderSpec => RevocationsAreHonoured
PROOF
  <1>1. ASSUME ProviderInv, [ProviderNext]_providerVars, NEW q \in Revoker, NEW t \in AToken,
               call[q].pc # "idle", call[q].token = t, call'[q].pc = "idle", UNCHANGED faults
        PROVE  ~Accepted(t)'
    <2> USE DEF ProviderInv, CallsOK
    <2>0. /\ q \in Call /\ q \notin Userinfo /\ t \in DOMAIN at /\ faults \in Nat
          /\ call \in [Call -> CallState]
      BY <1>1 DEF GrantInv, TypeInv
    <2>1. ~Fault /\ ~CrashProvider /\ ~LoseRevocation(q)
      BY <1>1, <2>0 DEF Fault, CrashProvider, Crash, LoseRevocation
    <2>2. ASSUME NEW r \in Request,
                 SignToken(r) \/ SaveAccessToken(r) \/ SaveIDToken(r) \/ AbortGrant(r)
          PROVE  UNCHANGED call
      BY <2>2 DEF SignToken, SaveAccessToken, SaveIDToken, AbortGrant
    <2>3. GrantStep \/ KeyStep \/ UNCHANGED providerVars => UNCHANGED call
      BY DEF GrantStep, KeyStep, providerVars
    <2>4. ASSUME NEW p \in Call, NEW u \in AToken, Receive(p, u)
          PROVE  call'[q] = call[q]
      BY <1>1, <2>4, <2>0 DEF Receive
    <2>5. ASSUME NEW p \in Call, p # q, Serve(p) \/ LoseUserinfo(p) \/ LoseRevocation(p)
          PROVE  call'[q] = call[q]
      BY <2>0, <2>5, OneCallSteps
    <2>6. Serve(q)
      BY <1>1, <2>0, <2>1, <2>2, <2>3, <2>4, <2>5 DEF ProviderNext, LoseUserinfo
    <2>7. ASSUME ValidateAccessToken(q)
          PROVE  ~Accepted(t)'
      <3>1. ~Verifies(t)
        BY <1>1, <2>0, <2>7 DEF ValidateAccessToken, Advance
      <3> QED BY <1>1, <2>0, <3>1, RefusedStaysRefused DEF Accepted
    <2>8. ~FindByJTI(q)
      BY <1>1, <2>0 DEF FindByJTI, Advance
    <2>9. ASSUME Revoke(q)
          PROVE  ~Accepted(t)'
      <3>1. BestEffortRevoke({t})
        BY <1>1, <2>9 DEF Revoke, RevokeAccessToken
      <3>2. t \in revoked'
        BY <2>1, <3>1 DEF BestEffortRevoke
      <3> QED BY <3>2 DEF Accepted
    <2> QED BY <2>0, <2>6, <2>7, <2>8, <2>9 DEF Serve, AnswerUserinfo
  <1>2. ProviderInv /\ [ProviderNext]_providerVars =>
          [\A q \in Revoker, t \in AToken :
             (/\ call[q].pc # "idle" /\ call[q].token = t
              /\ call'[q].pc = "idle" /\ UNCHANGED faults) => ~Accepted(t)']_providerVars
    BY <1>1
  <1> QED BY <1>2, ProviderInvHolds, PTL DEF ProviderSpec, RevocationsAreHonoured

-----------------------------------------------------------------------------
(* Sessions that are over. *)

(* A step moves a userinfo request to its answer only after its token's    *)
(* row was found not revoked.                                              *)
LEMMA AnswersNeedTheRow ==
  ASSUME ProviderInv, [ProviderNext]_providerVars, NEW q \in Userinfo,
         call'[q].pc = "finish", call'[q] # call[q]
  PROVE  call'[q].token = call[q].token /\ call[q].token \in DOMAIN at \ revoked
PROOF
  <1>1. q \in Call /\ (call[q].pc # "idle" => call[q].token \in DOMAIN at)
    BY DEF ProviderInv, CallsOK
  <1>2. ASSUME NEW u \in DOMAIN at, call'[q] = [pc |-> "verify", token |-> u]
        PROVE  FALSE
    BY <1>2
  <1>3. CASE call'[q] = NoCall \/ call'[q] = [pc |-> "lookUp", token |-> call[q].token]
    BY <1>3
  <1>4. CASE /\ call[q].pc = "lookUp" /\ ~(q \in Userinfo /\ call[q].token \in revoked)
             /\ call'[q] = [pc |-> "finish", token |-> call[q].token]
    BY <1>1, <1>4
  <1> QED BY <1>1, <1>2, <1>3, <1>4, CallStep

(* A session is shut when it is dead and no userinfo request is about to   *)
(* answer for one of its tokens.                                           *)
Shut(s) ==
  /\ Dead(s)
  /\ \A q \in Userinfo : call[q].token \in AccessTokensOf({s}) => call[q].pc # "finish"

LEMMA ShutKept ==
  ASSUME ProviderInv, ProviderInv', [ProviderNext]_providerVars, NEW s \in Session, Shut(s)
  PROVE  Shut(s)'
PROOF
  <1>1. [Next]_vars /\ GrantInv /\ GrantInv'
    BY StepsOfTheGrants DEF ProviderInv
  <1>2. Dead(s)' /\ Grow
    BY <1>1, DeadKept, NextGrows DEF Shut
  <1>3. ASSUME NEW q \in Userinfo,
               call'[q].pc = "finish", call'[q].token \in AccessTokensOf({s})'
        PROVE  FALSE
    <2>1. call[q].pc # "idle" => call[q].token \in DOMAIN at
      BY DEF ProviderInv, CallsOK
    <2>2. ASSUME call[q].token = call'[q].token, call[q].token \in DOMAIN at
          PROVE  call[q].token \in AccessTokensOf({s})
      BY <1>2, <1>3, <2>2 DEF Grow, AccessTokensOf
    <2>3. CASE call'[q] = call[q]
      BY <1>3, <2>1, <2>2, <2>3 DEF Shut
    <2>4. CASE call'[q] # call[q]
      BY <1>3, <2>2, <2>4, AnswersNeedTheRow DEF Shut, Dead
    <2> QED BY <2>3, <2>4
  <1> QED BY <1>2, <1>3 DEF Shut

(* From the moment a session is shut no token of it is accepted or         *)
(* answered for: not one that was revoked before, and not one that a code, *)
(* a rotation, a new key or a restart would still have to bring about      *)
(* (userinfo.go:49, token_refresh.go:65, session/service.go).              *)
THEOREM ShutSessionsAreRefused ==
  ASSUME NEW s \in Session
  PROVE  ProviderSpec =>
           [](Shut(s) => []\A t \in AccessTokensOf({s}) :
                             ~Accepted(t) /\ \A q \in Userinfo :
                               call[q].token = t => call[q].pc # "finish")
PROOF
  <1>1. ProviderInv /\ ProviderInv' /\ [ProviderNext]_providerVars /\ Shut(s) => Shut(s)'
    BY ShutKept
  <1>2. Shut(s) => \A t \in AccessTokensOf({s}) :
                     ~Accepted(t) /\ \A q \in Userinfo :
                       call[q].token = t => call[q].pc # "finish"
    BY DEF Shut, Dead, Accepted
  <1> QED BY <1>1, <1>2, ProviderInvHolds, PTL DEF ProviderSpec

-----------------------------------------------------------------------------
(* Incidents, seen from /userinfo. *)

(* No request, incident or validation outlives the process or starts       *)
(* before it serves.                                                       *)
IdleWhileDown ==
  ~up => /\ \A r \in Request : req[r].pc = "idle"
         /\ \A a \in Admin : inc[a].pc = "idle"
         /\ \A q \in Call : call[q].pc = "idle"

LEMMA IdleWhileDownKept ==
  ASSUME ProviderInv, IdleWhileDown, [ProviderNext]_providerVars
  PROVE  IdleWhileDown'
PROOF
  <1> SUFFICES ASSUME ~up' PROVE IdleWhileDown'
    BY DEF IdleWhileDown
  <1>1. CASE CrashProvider
    <2>1. req' = [r \in Request |-> Idle] /\ inc' = [a \in Admin |-> NoIncident]
          /\ call' = [q \in Call |-> NoCall]
      BY <1>1 DEF CrashProvider, Crash
    <2> QED BY <2>1 DEF IdleWhileDown, Idle, NoIncident
  <1>2. CASE KeyStep
    <2>1. UNCHANGED <<req, inc, call>>
      BY <1>2 DEF KeyStep, vars
    <2>2. ~up
      BY <1>2 DEF KeyStep, Keys!EnsureSigningKey, Keys!Continue, Keys!Abort, Keys!DeactivateAllActive,
                  Keys!FindByKID, Keys!GenerateKey, Keys!InsertKey, Keys!FindAllActive,
                  Keys!Deactivate
    <2> QED BY <2>1, <2>2 DEF IdleWhileDown
  <1>3. ASSUME NEW r \in Request, SaveAccessToken(r) \/ SaveIDToken(r) \/ AbortGrant(r)
        PROVE  FALSE
    <2>1. up /\ up' = up
      BY <1>3 DEF SaveAccessToken, SaveIDToken, AbortGrant, keyVars
    <2> QED BY <2>1
  <1>4. ASSUME NEW r \in Request, SignToken(r)
        PROVE  UNCHANGED <<req, inc, call, up>>
    BY <1>4 DEF SignToken, vars, Keys!Sign
  <1>5. CASE GrantStep
    <2>1. UNCHANGED <<call, up>>
      BY <1>5 DEF GrantStep, keyVars
    <2>2. \E x \in MayExpire : Expire(x)
      BY <1>5, <2>1 DEF GrantStep
    <2>3. UNCHANGED <<req, inc>>
      BY <2>2 DEF Expire
    <2> QED BY <2>1, <2>3 DEF IdleWhileDown
  <1>6. ASSUME NEW q \in Call, NEW t \in AToken, Receive(q, t)
        PROVE  FALSE
    BY <1>6 DEF Receive, keyVars
  <1>7. ASSUME NEW q \in Call, Serve(q) \/ LoseUserinfo(q) \/ LoseRevocation(q)
        PROVE  FALSE
    <2>1. call[q].pc # "idle" /\ UNCHANGED keyVars
      BY <1>7 DEF Serve, ValidateAccessToken, FindByJTI, AnswerUserinfo, Revoke,
                  LoseUserinfo, LoseRevocation
    <2> QED BY <2>1 DEF IdleWhileDown, keyVars
  <1>8. CASE UNCHANGED providerVars
    BY <1>8 DEF providerVars, vars, keyVars, IdleWhileDown
  <1> QED BY <1>1, <1>2, <1>3, <1>4, <1>5, <1>6, <1>7, <1>8 DEF ProviderNext, IdleWhileDown

(* One process serves grants, keys and validations: while it is down none  *)
(* of them has a request in flight, so that the fairness of the handlers   *)
(* never asks for a step that the composition cannot take                  *)
(* (cmd/server/main.go:61: the keys first, then the listener).             *)
THEOREM DownMeansIdle == ProviderSpec => []IdleWhileDown
PROOF
  <1>1. ProviderInit => IdleWhileDown
    BY DEF ProviderInit, Init, IdleWhileDown, Idle, NoIncident
  <1> QED BY <1>1, IdleWhileDownKept, ProviderInvHolds, PTL DEF ProviderSpec

(* No userinfo request gets past the check of t's row in a step. *)
NobodyPasses(t) ==
  \A q \in Userinfo :
    call'[q].pc = "finish" /\ call'[q].token = t => call'[q] = call[q]

(* Once t is revoked it is refused, and no request gets past its row. *)
LEMMA RevokedIsRefused ==
  ASSUME NEW t \in AToken
  PROVE  ProviderSpec => [](t \in revoked => []~Accepted(t) /\ [][NobodyPasses(t)]_providerVars)
PROOF
  <1>1. ProviderInv /\ [ProviderNext]_providerVars /\ t \in revoked => (t \in revoked)'
    BY StepsOfTheGrants, MarksStay
  <1>2. ProviderInv /\ [ProviderNext]_providerVars /\ t \in revoked =>
          [NobodyPasses(t)]_providerVars
    BY AnswersNeedTheRow DEF NobodyPasses
  <1>3. t \in revoked => ~Accepted(t)
    BY DEF Accepted
  <1> QED BY <1>1, <1>2, <1>3, ProviderInvHolds, PTL DEF ProviderSpec

(* An incident that starts shuts every access token it covers out of       *)
(* /userinfo in the end, for good: refused by every new request, and by    *)
(* every request that has verified the signature already, whatever keys    *)
(* are rotated meanwhile (incident.go:59-79, userinfo.go:41, :49).  As for *)
(* the grants alone, the handler goes on and nothing fails before that.    *)
THEOREM IncidentsReachUserinfo ==
  ASSUME NEW n \in 0..MaxFaults, NEW a \in Admin, NEW t \in AToken
  PROVE  ProviderSpec /\ IncidentScheduled(a) /\ []IncidentCanContinue(a) =>
           ((faults = n /\ inc[a].pc = "accessTokens" /\ t \in AccessTokensOf(inc[a].target))
              ~> \/ []~Accepted(t) /\ [][NobodyPasses(t)]_providerVars
                 \/ faults > n)
PROOF
  <1>1. ProviderSpec => Spec
    BY ProviderImplementsGrants DEF GrantsBehave
  <1>2. Spec /\ IncidentScheduled(a) /\ []IncidentCanContinue(a) =>
          ((faults = n /\ inc[a].pc = "accessTokens" /\ t \in AccessTokensOf(inc[a].target))
             ~> (t \in revoked \/ faults > n))
    BY IncidentsRunOn, IncidentsReachTheAccessTokens, PTL
  <1> QED BY <1>1, <1>2, RevokedIsRefused, PTL

(* An incident over a quiet session (no unspent code, no request in        *)
(* flight) ends with every token of it refused, and no token to come,      *)
(* unless something fails before.                                          *)
THEOREM IncidentsShutQuietSessions ==
  ASSUME NEW n \in Nat, NEW a \in Admin, NEW s \in Session
  PROVE  ProviderSpec /\ IncidentScheduled(a) /\ []IncidentCanContinue(a) =>
           ((/\ faults = n /\ inc[a].pc = "accessTokens"
             /\ s \in inc[a].target /\ Quiet(s))
              ~> \/ [](Dead(s) /\ \A t \in AccessTokensOf({s}) : ~Accepted(t))
                 \/ faults > n)
PROOF
  <1>1. ProviderSpec => Spec
    BY ProviderImplementsGrants DEF GrantsBehave
  <1>2. Dead(s) => \A t \in AccessTokensOf({s}) : ~Accepted(t)
    BY DEF Dead, Accepted
  <1>3. Spec /\ IncidentScheduled(a) /\ []IncidentCanContinue(a) =>
          ((/\ faults = n /\ inc[a].pc = "accessTokens"
            /\ s \in inc[a].target /\ Quiet(s)) ~> ([]Dead(s) \/ faults > n))
    BY IncidentsEndQuietSessions
  <1> QED BY <1>1, <1>2, <1>3, PTL

(* A replayed code or a reused refresh token does the same to the access   *)
(* tokens its session has when the statement for them runs, under the same *)
(* conditions (token_authcode.go:59-62, token_refresh.go:53-61).           *)
THEOREM ReplaysReachUserinfo ==
  ASSUME NEW n \in 0..MaxFaults, NEW r \in Request, NEW t \in AToken
  PROVE  ProviderSpec /\ Scheduled(r) /\ []CanContinue(r) =>
           ((/\ faults = n /\ req[r].pc \in {"markReuse", "revokeATs"}
             /\ t \in AccessTokensOf({SessionOf(req[r].cred)}))
              ~> \/ []~Accepted(t) /\ [][NobodyPasses(t)]_providerVars
                 \/ faults > n)
PROOF
  <1>1. ProviderSpec => Spec
    BY ProviderImplementsGrants DEF GrantsBehave
  <1>2. Spec /\ Scheduled(r) /\ []CanContinue(r) =>
          ((/\ faults = n /\ req[r].pc \in {"markReuse", "revokeATs"}
            /\ t \in AccessTokensOf({SessionOf(req[r].cred)})) ~> (t \in revoked \/ faults > n))
    BY HandlersRunOn, CleanupsReachTheAccessTokens, PTL
  <1> QED BY <1>1, <1>2, RevokedIsRefused, PTL

-----------------------------------------------------------------------------
(* What was promised of the parts, promised of the provider. *)

LEMMA ProviderIsOfTheKeys == ProviderSpec => KP!Spec
PROOF
  <1>1. ProviderInit => KP!Init
    BY SameKeys DEF ProviderInit
  <1>2. [ProviderNext]_providerVars => [KP!Next]_(KP!vars)
    BY SameKeys, StepsOfTheKeys
  <1> QED BY <1>1, <1>2, PTL DEF ProviderSpec, KP!Spec

(* While tokens are being issued, validated and revoked, the provider      *)
(* loses its last key only to a failure or to two deactivations that meet, *)
(* the newest key signs, and a restart in the middle of any of these       *)
(* repairs it (RotateKey, HandleDeactivate, EnsureSigningKey).             *)
THEOREM ProviderKeepsItsKeys ==
  /\ ProviderSpec => Keys!BootRestoresSigning
  /\ ProviderSpec => []Keys!NewestKeySigns
  /\ ProviderSpec => Keys!KeysSurvive
PROOF
  <1>1. ProviderSpec => Keys!BootRestoresSigning
    BY ProviderIsOfTheKeys, KP!BootRepairs, GoroutinesAreTyped
       DEF Keys!BootRestoresSigning, KP!BootRestoresSigning, Keys!vars, KP!vars
  <1>2. ProviderSpec => []Keys!NewestKeySigns
    <2>1. KP!Spec => []KP!NewestKeySigns
      BY KP!NewestSigns, GoroutinesAreTyped
    <2>2. KP!NewestKeySigns => Keys!NewestKeySigns
      BY DEF Keys!NewestKeySigns, KP!NewestKeySigns, Keys!Actor, KP!Actor,
             Keys!Generating, KP!Generating,
             Keys!FindActive, KP!FindActive, Keys!Before, KP!Before
    <2> QED BY <2>1, <2>2, ProviderIsOfTheKeys, PTL
  <1>3. ProviderSpec => Keys!KeysSurvive
    <2>1. KP!Spec => KP!KeysSurvive
      BY KP!KeysAreSupplied, GoroutinesAreTyped
    <2>2. KP!KeysSurvive => Keys!KeysSurvive
      BY DEF Keys!KeysSurvive, KP!KeysSurvive, Keys!Supplied, KP!Supplied,
             Keys!DeactivationsMeet, KP!DeactivationsMeet, Keys!Actor, KP!Actor,
             Keys!Generating, KP!Generating, Keys!vars, KP!vars
    <2> QED BY <2>1, <2>2, ProviderIsOfTheKeys
  <1> QED BY <1>1, <1>2, <1>3

(* The lineage of tokens, their rotation and the end of a session are what *)
(* they were of the grants alone, whatever rotations of keys, validations  *)
(* and revocations by token come in between; single use and the end of a   *)
(* reused chain are lost where they were lost before, in the two races,    *)
(* and nowhere else (CodeGrant, RefreshGrant, Revoke).                     *)
THEOREM ProviderKeepsItsGrants ==
  /\ ProviderSpec => [](/\ TokensComeFromSpentGrants /\ RefreshTokensArePaired
                       /\ ChainsStayInTheirSession /\ RotationRetiresThePair)
  /\ ProviderSpec => ClosedGrantsMintNothing /\ RevokedSessionsDoNotRotate /\ DeadSessionsStayDead
  /\ ProviderSpec => OnlyRacesRedeemTwice /\ ReuseClosesTheChain
PROOF
  <1>1. ProviderSpec => Spec
    BY ProviderImplementsGrants DEF GrantsBehave
  <1>2. ProviderSpec => [](/\ TokensComeFromSpentGrants /\ RefreshTokensArePaired
                           /\ ChainsStayInTheirSession /\ RotationRetiresThePair)
    BY <1>1, TokensArePaidFor, PairingHolds, ChainsKeepTheirSession, RotationsRetire, PTL
  <1>3. ProviderSpec => ClosedGrantsMintNothing /\ RevokedSessionsDoNotRotate /\ DeadSessionsStayDead
    BY <1>1, ClosedGrantsStayClosed, RotationsStop, DeadStayDead
  <1>4. ProviderSpec => OnlyRacesRedeemTwice /\ ReuseClosesTheChain
    BY <1>1, OnlyRacesBreakSingleUse, ReuseIsFollowedThrough
  <1> QED BY <1>2, <1>3, <1>4, PTL

=============================================================================
