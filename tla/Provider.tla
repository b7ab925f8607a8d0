------------------------------- MODULE Provider -------------------------------
(***************************************************************************)
(* The OpenID provider put together: the grants of TokenGrants signed with *)
(* the keys of SigningKeys, in one server process, and the two endpoints   *)
(* that validate the access tokens which result, /userinfo and /revoke.    *)
(*                                                                         *)
(* A grant reads the key it signs with before it inserts the token's row.  *)
(* A validation reads the keys, then the row.  Rotations, deactivations,   *)
(* revocations and the clock fit between any two of these steps.           *)
(*                                                                         *)
(* TokenGrants is extended, so its names stand for the grants; SigningKeys *)
(* is instantiated, and Keys! marks its names.                             *)
(*                                                                         *)
(* A definition D_How is D with the mistake How names.  No specification   *)
(* uses it: put in the place of D, it breaks a property below.             *)
(***************************************************************************)
EXTENDS TokenGrants, Sequences

CONSTANTS
  Kid, KeyAdmin, Deactivator, Main,   \* as in SigningKeys
  MaxKeyFaults,
  Userinfo,    \* goroutines of /userinfo
  Revoker      \* goroutines of /revoke, for access tokens

ASSUME GoroutinesAreTyped ==
  /\ Userinfo \cap Revoker = {}
  /\ Deactivator \subseteq KeyAdmin /\ Main \notin KeyAdmin
  /\ None \notin Kid /\ MaxKeyFaults \in Nat

VARIABLES
  keys, active, drawn, deleted, signed, act, up, keyFaults,   \* as in SigningKeys
  sig,         \* the key each token request has signed its next token with
  kid,         \* the kid in the header of each access token
  call         \* what each validating request does next, with which token

Keys ==
  INSTANCE SigningKeys WITH Admin <- KeyAdmin, MaxFaults <- MaxKeyFaults, faults <- keyFaults

keyVars == <<keys, active, drawn, deleted, signed, act, up, keyFaults>>
providerVars == <<vars, keyVars, sig, kid, call>>

Call == Userinfo \cup Revoker

CallState == [pc : {"idle", "verify", "lookUp", "finish"}, token : AToken \cup {None}]

NoCall == [pc |-> "idle", token |-> None]

ProviderTypeOK ==
  /\ TypeOK
  /\ Keys!TypeOK
  /\ sig \in [Request -> keys \cup {None}]
  /\ kid \in [DOMAIN at -> keys]
  /\ call \in [Call -> CallState]
  /\ \A q \in Call : call[q].pc # "idle" => call[q].token \in DOMAIN at

ProviderInit ==
  /\ Init
  /\ Keys!Init
  /\ sig = [r \in Request |-> None]
  /\ kid = [t \in {} |-> None]
  /\ call = [q \in Call |-> NoCall]

-----------------------------------------------------------------------------
(* Grants that sign *)

Mints(r) == req[r].pc \in {"createAT", "createIDT"}

(* SignAccessToken and SignIDToken: the newest active key, as it is now.   *)
SignToken(r) ==
  /\ Mints(r) /\ sig[r] = None
  /\ Keys!Sign
  /\ sig' = [sig EXCEPT ![r] = Keys!FindActive]
  /\ UNCHANGED <<vars, kid, call>>

(* The row is inserted afterwards, whatever has become of the key since.   *)
SaveAccessToken_LosesTheKid(r) ==
  /\ up /\ sig[r] # None
  /\ CodeGrantCreateAT(r) \/ RefreshCreateAT(r)
  /\ kid' = [t \in DOMAIN kid |-> IF t = req[r].new THEN sig[r] ELSE kid[t]]
  /\ sig' = [sig EXCEPT ![r] = None]
  /\ UNCHANGED <<keyVars, call>>

SaveAccessToken(r) ==
  /\ up /\ sig[r] # None
  /\ CodeGrantCreateAT(r) \/ RefreshCreateAT(r)
  /\ kid' = [t \in DOMAIN kid \cup {req[r].new} |->
               IF t = req[r].new THEN sig[r] ELSE kid[t]]
  /\ sig' = [sig EXCEPT ![r] = None]
  /\ UNCHANGED <<keyVars, call>>

SaveIDToken(r) ==
  /\ up /\ sig[r] # None
  /\ CreateIDToken(r)
  /\ sig' = [sig EXCEPT ![r] = None]
  /\ UNCHANGED <<keyVars, kid, call>>

(* No key, a key that does not decrypt, or a failed statement: a 500.      *)
AbortGrant(r) ==
  /\ up
  /\ Abort(r)
  /\ sig' = [sig EXCEPT ![r] = None]
  /\ UNCHANGED <<keyVars, kid, call>>

-----------------------------------------------------------------------------
(* Everything else the grants and the keys do *)

Unsigned(r) ==
  \/ Accept(r)
  \/ CreateCode(r) \/ MarkAsUsed(r) \/ Rotate(r) \/ RetireAT(r)
  \/ CreateRT(r) \/ MarkReuse(r)
  \/ RevokeSessionATs(r) \/ RevokeSessionRTs(r) \/ RevokePairedAT(r)

Incident(a) ==
  \/ \E T \in IncidentTargets : IncidentSessions(a, T)
  \/ ContinueIncident(a)
  \/ AbortIncident(a)

GrantStep ==
  /\ \/ up /\ \E s \in Session : Login(s)
     \/ up /\ \E r \in Request : Unsigned(r)
     \/ up /\ \E a \in Admin : Incident(a)
     \/ \E x \in MayExpire : Expire(x)
  /\ UNCHANGED <<keyVars, sig, kid, call>>

KeyStep ==
  /\ \/ Keys!EnsureSigningKey
     \/ \E a \in Keys!Actor : Keys!Continue(a) \/ Keys!Abort(a)
     \/ \E a \in KeyAdmin : Keys!DeactivateAllActive(a)
     \/ \E a \in Deactivator, k \in Kid : Keys!FindByKID(a, k)
  /\ UNCHANGED <<vars, sig, kid, call>>

CrashProvider_ResumesRotations ==
  /\ Crash
  /\ keyFaults < MaxKeyFaults /\ keyFaults' = keyFaults + 1
  /\ up' = FALSE
  /\ sig' = [r \in Request |-> None]
  /\ call' = [q \in Call |-> NoCall]
  /\ UNCHANGED <<keys, active, drawn, deleted, signed, act, kid>>

(* There is one process: a crash takes every request with it.              *)
CrashProvider ==
  /\ Crash
  /\ Keys!Crash
  /\ sig' = [r \in Request |-> None]
  /\ call' = [q \in Call |-> NoCall]
  /\ UNCHANGED kid

-----------------------------------------------------------------------------
(* /userinfo, and /revoke for an access token *)

(* ValidateAccessToken: the signature under the published keys, and exp.   *)
Verifies(t) == kid[t] \in Keys!JWKSet /\ t \notin expired

Done(q) == call' = [call EXCEPT ![q] = NoCall]
Advance(q, pc) == call' = [call EXCEPT ![q].pc = pc]

Receive(q, t) ==
  /\ up /\ call[q].pc = "idle"
  /\ t \in DOMAIN at
  /\ call' = [call EXCEPT ![q] = [pc |-> "verify", token |-> t]]
  /\ UNCHANGED <<vars, keyVars, sig, kid>>

(* A client may hint that the token is a refresh token: no row has its     *)
(* hash, and the handler goes on to try the other kind.                    *)
ValidateAccessToken_TrustsTheHint(q) ==
  /\ call[q].pc = "verify"
  /\ \/ IF Verifies(call[q].token) THEN Advance(q, "lookUp") ELSE Done(q)
     \/ q \in Revoker /\ Done(q)
  /\ UNCHANGED <<vars, keyVars, sig, kid>>

(* A token that does not verify: 401 from userinfo, 200 from revoke.       *)
ValidateAccessToken(q) ==
  /\ call[q].pc = "verify"
  /\ IF Verifies(call[q].token) THEN Advance(q, "lookUp") ELSE Done(q)
  /\ UNCHANGED <<vars, keyVars, sig, kid>>

(* userinfo refuses a row that is revoked; revoke takes any row.           *)
FindByJTI_TrustsTheSignature(q) ==
  /\ call[q].pc = "lookUp"
  /\ Advance(q, "finish")
  /\ UNCHANGED <<vars, keyVars, sig, kid>>

FindByJTI(q) ==
  /\ call[q].pc = "lookUp"
  /\ IF q \in Userinfo /\ call[q].token \in revoked THEN Done(q) ELSE Advance(q, "finish")
  /\ UNCHANGED <<vars, keyVars, sig, kid>>

(* The claims of the user, looked up by the subject of the token.          *)
AnswerUserinfo(q) ==
  /\ q \in Userinfo /\ call[q].pc = "finish"
  /\ Done(q)
  /\ UNCHANGED <<vars, keyVars, sig, kid>>

Revoke_DeletesTheRow(q) ==
  /\ q \in Revoker /\ call[q].pc = "finish"
  /\ at' = [t \in DOMAIN at \ {call[q].token} |-> at[t]]
  /\ kid' = [t \in DOMAIN kid \ {call[q].token} |-> kid[t]]
  /\ Done(q)
  /\ UNCHANGED <<sessions, code, rt, idt, revoked, used, reused, expired, req, inc, faults>>
  /\ UNCHANGED <<keyVars, sig>>

Revoke(q) ==
  /\ q \in Revoker /\ call[q].pc = "finish"
  /\ RevokeAccessToken(call[q].token)
  /\ Done(q)
  /\ UNCHANGED <<keyVars, sig, kid>>

(* A statement fails: 401 or 500 from userinfo, 200 from revoke.           *)
LoseUserinfo(q) ==
  /\ q \in Userinfo /\ call[q].pc # "idle"
  /\ Done(q)
  /\ UNCHANGED <<vars, keyVars, sig, kid>>

LoseRevocation(q) ==
  /\ q \in Revoker /\ call[q].pc # "idle"
  /\ Fault
  /\ UNCHANGED <<tables, revoked, req, inc>>
  /\ Done(q)
  /\ UNCHANGED <<keyVars, sig, kid>>

-----------------------------------------------------------------------------

Serve(q) == ValidateAccessToken(q) \/ FindByJTI(q) \/ AnswerUserinfo(q) \/ Revoke(q)

ProviderNext ==
  \/ \E r \in Request : SignToken(r) \/ SaveAccessToken(r) \/ SaveIDToken(r) \/ AbortGrant(r)
  \/ GrantStep
  \/ KeyStep
  \/ CrashProvider
  \/ \E q \in Call : \/ \E t \in AToken : Receive(q, t)
                     \/ Serve(q)
                     \/ LoseUserinfo(q) \/ LoseRevocation(q)

ProviderSpec == ProviderInit /\ [][ProviderNext]_providerVars

-----------------------------------------------------------------------------
(* Properties *)

(* The composition is a behaviour of each of its parts: what was shown of  *)
(* the grants alone and of the keys alone holds of the provider.           *)
GrantsBehave == Spec
KeysBehave == Keys!Spec

Accepted(t) == t \in DOMAIN at /\ t \notin revoked /\ Verifies(t)

(* No userinfo request can still be answered with claims for t.            *)
Over(t) ==
  /\ t \in DOMAIN at /\ ~Accepted(t)
  /\ \A q \in Userinfo : call[q].token = t =>
       call[q].pc = "verify" \/ (call[q].pc = "lookUp" /\ t \in revoked)

(* A token that is refused stays refused: not a rotation that fails half   *)
(* way, a restart that makes a new key, a refresh, or a check of the row   *)
(* that comes long after the check of the signature (userinfo.go:41, :49)  *)
(* opens /userinfo to it again.                                            *)
RefusalIsFinal == [][\A t \in AToken : Over(t) => Over(t)']_providerVars

(* A revocation request that runs to its end leaves the token refused, for *)
(* good by the property above, unless one of its statements failed.  The   *)
(* handler answers 200 and leaves the row alone when the token's key has   *)
(* left the JWKS (revoke.go:84): such a token is refused everywhere        *)
(* already, and no key ever comes back.                                    *)
RevocationsAreHonoured ==
  [][\A q \in Revoker, t \in AToken :
       (/\ call[q].pc # "idle" /\ call[q].token = t
        /\ call'[q].pc = "idle" /\ UNCHANGED faults) => ~Accepted(t)']_providerVars

=============================================================================
