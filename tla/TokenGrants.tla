----------------------------- MODULE TokenGrants -----------------------------
(***************************************************************************)
(* The grant core of the OpenID provider: authorization codes, the two     *)
(* grants of the token endpoint, the revocation endpoint and the incident  *)
(* endpoints, over the tables they share.                                  *)
(*                                                                         *)
(* The backend runs one goroutine per HTTP request and opens no database   *)
(* transaction, so a handler is a sequence of SQL statements, each atomic  *)
(* on its own, and anything may happen between two of them.  One action    *)
(* here is one statement that reads what the handler decides on or changes *)
(* a row; the reads of immutable columns and the pure computation around   *)
(* it belong to the action.  A refused request changes no row: it is a     *)
(* stuttering step and has no action.                                      *)
(*                                                                         *)
(* A table is a function whose domain is the set of rows that exist; the   *)
(* columns that are written after the insert (revoked_at, used_at,         *)
(* reuse_detected_at, and expires_at once the clock has passed it) are     *)
(* sets of row ids.                                                        *)
(*                                                                         *)
(* A definition D_How is D with the mistake How names.  No specification   *)
(* uses it: put in the place of D, it breaks a property below.             *)
(***************************************************************************)
EXTENDS Naturals, FiniteSets

CONSTANTS
  Session, Code, AToken, RToken,   \* primary keys of the four tables
  Client, User, Tenant,            \* rows other components manage
  Scope, OpenId,                   \* scope values, and "openid"
  Owner,                           \* the user a login creates each session for
  UserTenant, ClientTenant,        \* the tenant of a user, of a client
  RefreshClient,                   \* clients granted refresh_token
  Request, Admin,                  \* goroutines of the OP and management APIs
  MayExpire,                       \* bound: rows whose expires_at may pass
  MaxFaults,                       \* bound: failed statements and crashes
  None

ASSUME KeysAreDisjoint ==
  /\ Session \cap Code = {} /\ Session \cap AToken = {} /\ Session \cap RToken = {}
  /\ Code \cap AToken = {} /\ Code \cap RToken = {} /\ AToken \cap RToken = {}
  /\ None \notin Session \cup Code \cup AToken \cup RToken \cup Client

ASSUME OwnersAreTyped ==
  /\ Owner \in [Session -> User]
  /\ UserTenant \in [User -> Tenant]
  /\ ClientTenant \in [Client -> Tenant]
  /\ RefreshClient \subseteq Client

ASSUME BoundsAreTyped ==
  /\ OpenId \in Scope
  /\ MaxFaults \in Nat
  /\ MayExpire \subseteq Session \cup Code \cup AToken \cup RToken

VARIABLES
  sessions,   \* the sessions that exist
  code,       \* authorization_codes
  at,         \* access_tokens
  rt,         \* refresh_tokens
  idt,        \* the access tokens whose companion ID token row was saved
  revoked,    \* sessions and tokens with revoked_at set
  used,       \* codes with used_at set
  reused,     \* refresh tokens with reuse_detected_at set
  expired,    \* rows whose expires_at has passed
  req,        \* what each OP request is about to do, and on which rows
  inc,        \* what each incident request is about to do, and on whom
  faults      \* statements failed and processes crashed so far

tables == <<sessions, code, at, rt, idt, used, reused, expired>>
vars == <<sessions, code, at, rt, idt, revoked, used, reused, expired, req, inc, faults>>

-----------------------------------------------------------------------------
(* Rows.  grant and origin of an access token are history: the credential  *)
(* its request redeemed, and the code the whole chain began with.  The     *)
(* code keeps them nowhere; only properties read them.                     *)

Scopes == (SUBSET Scope) \ {{}}

CodeRow == [session : Session, client : Client, scope : Scopes]

ATokenRow == [session : Session, client : Client, scope : Scopes,
              grant : Code \cup RToken, origin : Code]

RTokenRow == [session : Session, token : AToken, parent : RToken \cup {None}]

Insert(table, id, row) ==
  [x \in DOMAIN table \cup {id} |-> IF x = id THEN row ELSE table[x]]

(* A request: the statement it runs next, the authenticated client, the    *)
(* row it loaded, and the keys it will give to the rows it inserts.        *)
MintingPC == {"markUsed", "rotate", "retireAT", "createAT", "createIDT", "createRT"}
BeforeInsert == {"markUsed", "rotate", "retireAT", "createAT"}   \* of the access token
CleanupPC == {"markReuse", "revokeATs", "revokeRTs", "revokePair"}
PC == {"idle", "createCode"} \cup MintingPC \cup CleanupPC

RequestState == [pc : PC, client : Client \cup {None},
                 cred : Session \cup Code \cup RToken \cup {None},
                 new : Code \cup AToken \cup {None}, newRT : RToken \cup {None}]

Idle == [pc |-> "idle", client |-> None, cred |-> None, new |-> None, newRT |-> None]

IncidentState == [pc : {"idle", "accessTokens", "refreshTokens"}, target : SUBSET Session]

NoIncident == [pc |-> "idle", target |-> {}]

(* The foreign keys of the migrations.  An insert that broke one would     *)
(* fail; the actions insert without looking, and this is why they may.     *)
ReferencesHold ==
  /\ \A k \in DOMAIN code : code[k].session \in sessions
  /\ \A t \in DOMAIN at : at[t].session \in sessions
  /\ \A x \in DOMAIN rt : /\ rt[x].session \in sessions
                          /\ rt[x].token \in DOMAIN at
                          /\ rt[x].parent \in DOMAIN rt \cup {None}

TypeOK ==
  /\ sessions \subseteq Session
  /\ DOMAIN code \subseteq Code /\ \A k \in DOMAIN code : code[k] \in CodeRow
  /\ DOMAIN at \subseteq AToken /\ \A t \in DOMAIN at : at[t] \in ATokenRow
  /\ DOMAIN rt \subseteq RToken /\ \A x \in DOMAIN rt : rt[x] \in RTokenRow
  /\ idt \subseteq AToken
  /\ revoked \subseteq Session \cup AToken \cup RToken
  /\ used \subseteq Code
  /\ reused \subseteq RToken
  /\ expired \subseteq MayExpire
  /\ req \in [Request -> RequestState]
  /\ inc \in [Admin -> IncidentState]
  /\ faults \in Nat
  /\ ReferencesHold

Init ==
  /\ sessions = {}
  /\ code = [k \in {} |-> None]
  /\ at = [t \in {} |-> None]
  /\ rt = [x \in {} |-> None]
  /\ idt = {} /\ revoked = {} /\ used = {} /\ reused = {} /\ expired = {}
  /\ req = [r \in Request |-> Idle]
  /\ inc = [a \in Admin |-> NoIncident]
  /\ faults = 0

-----------------------------------------------------------------------------
(* Helpers *)

Exists(x) == x \in sessions \cup DOMAIN code \cup DOMAIN at \cup DOMAIN rt

(* A primary key no row has and no request has drawn: uuids do not repeat. *)
FreshKeys(S) == {x \in S : /\ ~Exists(x)
                           /\ \A r \in Request : req[r].new # x /\ req[r].newRT # x}

(* model.Session.IsValid *)
IsValid_IgnoresRevocation(s) == s \in sessions /\ s \notin expired

IsValid(s) == s \in sessions /\ s \notin revoked /\ s \notin expired

AccessTokensOf(S) == {t \in DOMAIN at : at[t].session \in S}
RefreshTokensOf(S) == {x \in DOMAIN rt : rt[x].session \in S}

(* The session and the first code credential g was issued under. *)
SessionOf_FirstOfTheUser(g) ==
  LET s == IF g \in DOMAIN code THEN code[g].session ELSE rt[g].session
  IN CHOOSE o \in sessions : Owner[o] = Owner[s]

SessionOf(g) == IF g \in DOMAIN code THEN code[g].session ELSE rt[g].session
OriginOf(g) == IF g \in DOMAIN code THEN g ELSE at[rt[g].token].origin

(* A statement or a pure step of a handler that returns an error. *)
Fault == faults < MaxFaults /\ faults' = faults + 1

(* `_ = store.Revoke(...)`: the rows are revoked, or the error is dropped. *)
BestEffortRevoke(rows) ==
  \/ revoked' = revoked \cup rows /\ UNCHANGED faults
  \/ Fault /\ UNCHANGED revoked

Goto(r, pc) == req' = [req EXCEPT ![r].pc = pc]
Finish(r) == req' = [req EXCEPT ![r] = Idle]

-----------------------------------------------------------------------------
(* Sessions and authorization codes *)

(* AuthService.Login inserts the session of a user who has authenticated. *)
Login(s) ==
  /\ s \notin sessions
  /\ sessions' = sessions \cup {s}
  /\ UNCHANGED <<code, at, rt, idt, revoked, used, reused, expired, req, inc, faults>>

(* AuthorizeHandler.Handle up to its use of the session it has read: the   *)
(* session is valid and of the tenant the client belongs to.               *)
AuthorizeCheck(r, s, c) ==
  /\ req[r].pc = "idle"
  /\ IsValid(s)
  /\ UserTenant[Owner[s]] = ClientTenant[c]
  /\ \E k \in FreshKeys(Code) :
       req' = [req EXCEPT ![r] = [Idle EXCEPT !.pc = "createCode", !.client = c,
                                              !.cred = s, !.new = k]]
  /\ UNCHANGED <<tables, revoked, inc, faults>>

(* The insert of the code, for a scope that contains openid. *)
CreateCode(r) ==
  /\ req[r].pc = "createCode"
  /\ \E sc \in {S \in Scopes : OpenId \in S} :
       code' = Insert(code, req[r].new,
                      [session |-> req[r].cred, client |-> req[r].client, scope |-> sc])
  /\ Finish(r)
  /\ UNCHANGED <<sessions, at, rt, idt, revoked, used, reused, expired, inc, faults>>

-----------------------------------------------------------------------------
(* The authorization_code grant *)

(* The conditions between FindByCode and MarkAsUsed.  A redirect_uri or a  *)
(* code_verifier that does not match the row only refuses the request.     *)
CodeAcceptable_KeepsUsed(c, k) == k \notin expired /\ code[k].client = c

CodeAcceptable(c, k) ==
  /\ k \notin used
  /\ k \notin expired
  /\ code[k].client = c

CodeGrantAccept(r, c, k) ==
  /\ req[r].pc = "idle"
  /\ k \in DOMAIN code /\ CodeAcceptable(c, k)
  /\ \E t \in FreshKeys(AToken) :
     \E x \in IF c \in RefreshClient THEN FreshKeys(RToken) ELSE {None} :
       req' = [req EXCEPT ![r] = [pc |-> "markUsed", client |-> c, cred |-> k,
                                  new |-> t, newRT |-> x]]
  /\ UNCHANGED <<tables, revoked, inc, faults>>

(* A used code: the tokens of its session are about to be revoked. *)
CodeGrantReplay(r, k) ==
  /\ req[r].pc = "idle"
  /\ k \in DOMAIN code /\ k \in used
  /\ req' = [req EXCEPT ![r] = [Idle EXCEPT !.pc = "revokeATs", !.cred = k]]
  /\ UNCHANGED <<tables, revoked, inc, faults>>

MarkAsUsed_Forgotten(r) ==
  /\ req[r].pc = "markUsed"
  /\ Goto(r, "createAT")
  /\ UNCHANGED <<tables, revoked, inc, faults>>

MarkAsUsed_RetriedUntilARowChanges(r) ==
  /\ req[r].pc = "markUsed" /\ req[r].cred \notin used
  /\ used' = used \cup {req[r].cred}
  /\ Goto(r, "createAT")
  /\ UNCHANGED <<sessions, code, at, rt, idt, revoked, reused, expired, inc, faults>>

(* AuthorizationCodeRepository.MarkAsUsed updates by id alone. *)
MarkAsUsed(r) ==
  /\ req[r].pc = "markUsed"
  /\ used' = used \cup {req[r].cred}
  /\ Goto(r, "createAT")
  /\ UNCHANGED <<sessions, code, at, rt, idt, revoked, reused, expired, inc, faults>>

CodeGrantCreateAT(r) ==
  LET k == req[r].cred IN
  /\ req[r].pc = "createAT" /\ k \in Code
  /\ at' = Insert(at, req[r].new,
                  [session |-> code[k].session, client |-> req[r].client,
                   scope |-> code[k].scope, grant |-> k, origin |-> k])
  /\ Goto(r, "createIDT")
  /\ UNCHANGED <<sessions, code, rt, idt, revoked, used, reused, expired, inc, faults>>

(* The ID token of the response; a client without refresh_token is done. *)
CreateIDToken(r) ==
  /\ req[r].pc = "createIDT"
  /\ idt' = idt \cup {req[r].new}
  /\ IF req[r].client \in RefreshClient THEN Goto(r, "createRT") ELSE Finish(r)
  /\ UNCHANGED <<sessions, code, at, rt, revoked, used, reused, expired, inc, faults>>

(* The refresh token of either grant: for the access token just saved,     *)
(* with the rotated token, if any, as its parent.                          *)
ParentOf_NeverNull(g) == g

ParentOf(g) == IF g \in Code THEN None ELSE g

NewRTokenRow_OldAccessToken(g, t) ==
  [session |-> SessionOf(g), parent |-> ParentOf(g),
   token |-> IF g \in Code THEN t ELSE rt[g].token]

NewRTokenRow(g, t) == [session |-> SessionOf(g), parent |-> ParentOf(g), token |-> t]

CreateRT(r) ==
  /\ req[r].pc = "createRT"
  /\ rt' = Insert(rt, req[r].newRT, NewRTokenRow(req[r].cred, req[r].new))
  /\ Finish(r)
  /\ UNCHANGED <<sessions, code, at, idt, revoked, used, reused, expired, inc, faults>>

-----------------------------------------------------------------------------
(* The refresh_token grant *)

(* The conditions between FindByTokenHash and the rotation.  The session   *)
(* is preloaded by a second SELECT; read later, it can only refuse more.   *)
RefreshAcceptable_KeepsRevoked(x) == x \notin expired /\ IsValid(rt[x].session)

RefreshAcceptable_IgnoresSession(x) == x \notin revoked /\ x \notin expired

RefreshAcceptable(x) ==
  /\ x \notin revoked
  /\ x \notin expired
  /\ IsValid(rt[x].session)

(* Any authenticated client with the refresh_token grant type may present  *)
(* the token: the row has no client and the handler compares none.         *)
RefreshAccept(r, c, x) ==
  /\ req[r].pc = "idle"
  /\ x \in DOMAIN rt /\ RefreshAcceptable(x)
  /\ \E t \in FreshKeys(AToken), y \in FreshKeys(RToken) :
       req' = [req EXCEPT ![r] = [pc |-> "rotate", client |-> c, cred |-> x,
                                  new |-> t, newRT |-> y]]
  /\ UNCHANGED <<tables, revoked, inc, faults>>

(* A revoked refresh token: reuse detection sets in. *)
RefreshReuse(r, x) ==
  /\ req[r].pc = "idle"
  /\ x \in DOMAIN rt /\ x \in revoked
  /\ req' = [req EXCEPT ![r] = [Idle EXCEPT !.pc = "markReuse", !.cred = x]]
  /\ UNCHANGED <<tables, revoked, inc, faults>>

Rotate(r) ==
  /\ req[r].pc = "rotate"
  /\ revoked' = revoked \cup {req[r].cred}
  /\ Goto(r, "retireAT")
  /\ UNCHANGED <<tables, inc, faults>>

RetireAT_KeepsOldToken(r) ==
  /\ req[r].pc = "retireAT"
  /\ BestEffortRevoke({})
  /\ Goto(r, "createAT")
  /\ UNCHANGED <<tables, inc>>

(* The access token issued with the rotated one; a failure is dropped. *)
RetireAT(r) ==
  /\ req[r].pc = "retireAT"
  /\ BestEffortRevoke({rt[req[r].cred].token})
  /\ Goto(r, "createAT")
  /\ UNCHANGED <<tables, inc>>

(* The scope is the old token's, or the request's when it names one. *)
RefreshCreateAT(r) ==
  LET x == req[r].cred IN
  /\ req[r].pc = "createAT" /\ x \in RToken
  /\ \E sc \in {at[rt[x].token].scope} \cup Scopes :
       at' = Insert(at, req[r].new,
                    [session |-> SessionOf(x), client |-> req[r].client,
                     scope |-> sc, grant |-> x, origin |-> OriginOf(x)])
  /\ Goto(r, "createRT")
  /\ UNCHANGED <<sessions, code, rt, idt, revoked, used, reused, expired, inc, faults>>

-----------------------------------------------------------------------------
(* What a replayed code and a reused refresh token set off.  Every one of  *)
(* these statements drops its error and lets the next one run.             *)

MarkReuse(r) ==
  /\ req[r].pc = "markReuse"
  /\ \/ reused' = reused \cup {req[r].cred} /\ UNCHANGED faults
     \/ Fault /\ UNCHANGED reused
  /\ Goto(r, "revokeATs")
  /\ UNCHANGED <<sessions, code, at, rt, idt, revoked, used, expired, inc>>

RevokeSessionATs_OnlyThePresented(r) ==
  /\ req[r].pc = "revokeATs"
  /\ BestEffortRevoke({t \in DOMAIN at : at[t].grant = req[r].cred})
  /\ Goto(r, "revokeRTs")
  /\ UNCHANGED <<tables, inc>>

RevokeSessionATs(r) ==
  /\ req[r].pc = "revokeATs"
  /\ BestEffortRevoke(AccessTokensOf({SessionOf(req[r].cred)}))
  /\ Goto(r, "revokeRTs")
  /\ UNCHANGED <<tables, inc>>

RevokeSessionRTs_OnlyThePresented(r) ==
  /\ req[r].pc = "revokeRTs"
  /\ BestEffortRevoke({req[r].cred} \cap RToken)
  /\ Finish(r)
  /\ UNCHANGED <<tables, inc>>

RevokeSessionRTs(r) ==
  /\ req[r].pc = "revokeRTs"
  /\ BestEffortRevoke(RefreshTokensOf({SessionOf(req[r].cred)}))
  /\ Finish(r)
  /\ UNCHANGED <<tables, inc>>

-----------------------------------------------------------------------------
(* The revocation endpoint *)

(* An access token found by jti.  It validated when the request began; one *)
(* that did not stays as it is.                                            *)
RevokeAccessToken(t) ==
  /\ t \in DOMAIN at
  /\ BestEffortRevoke({t})
  /\ UNCHANGED <<tables, req, inc>>

(* A refresh token found by its hash, then its access token. *)
RevokeRefreshToken(r, x) ==
  /\ req[r].pc = "idle"
  /\ x \in DOMAIN rt
  /\ BestEffortRevoke({x})
  /\ req' = [req EXCEPT ![r] = [Idle EXCEPT !.pc = "revokePair", !.cred = x]]
  /\ UNCHANGED <<tables, inc>>

RevokePairedAT(r) ==
  /\ req[r].pc = "revokePair"
  /\ BestEffortRevoke({rt[req[r].cred].token})
  /\ Finish(r)
  /\ UNCHANGED <<tables, inc>>

-----------------------------------------------------------------------------
(* The incident endpoints: everybody, a tenant or a user.  Sessions, then  *)
(* access tokens, then refresh tokens; the first error ends the handler.   *)

IncidentTargets ==
  {Session}
  \cup {{s \in Session : UserTenant[Owner[s]] = n} : n \in Tenant}
  \cup {{s \in Session : Owner[s] = u} : u \in User}

IncidentSessions(a, T) ==
  /\ inc[a].pc = "idle"
  /\ revoked' = revoked \cup (T \cap sessions)
  /\ inc' = [inc EXCEPT ![a] = [pc |-> "accessTokens", target |-> T]]
  /\ UNCHANGED <<tables, req, faults>>

IncidentAccessTokens_OfValidSessions(a) ==
  /\ inc[a].pc = "accessTokens"
  /\ revoked' = revoked \cup AccessTokensOf({s \in inc[a].target : IsValid(s)})
  /\ inc' = [inc EXCEPT ![a].pc = "refreshTokens"]
  /\ UNCHANGED <<tables, req, faults>>

IncidentAccessTokens(a) ==
  /\ inc[a].pc = "accessTokens"
  /\ revoked' = revoked \cup AccessTokensOf(inc[a].target)
  /\ inc' = [inc EXCEPT ![a].pc = "refreshTokens"]
  /\ UNCHANGED <<tables, req, faults>>

IncidentRefreshTokens(a) ==
  /\ inc[a].pc = "refreshTokens"
  /\ revoked' = revoked \cup RefreshTokensOf(inc[a].target)
  /\ inc' = [inc EXCEPT ![a] = NoIncident]
  /\ UNCHANGED <<tables, req, faults>>

-----------------------------------------------------------------------------
(* Time, errors and restarts *)

(* The clock passes expires_at of a row. *)
Expire(x) ==
  /\ x \in MayExpire \ expired /\ Exists(x)
  /\ expired' = expired \cup {x}
  /\ UNCHANGED <<sessions, code, at, rt, idt, revoked, used, reused, req, inc, faults>>

(* A statement whose error the handler returns, a tenant that is not found *)
(* or a key that does not sign: a 500 leaves what was written so far.      *)
Abort(r) ==
  /\ req[r].pc \in {"createCode"} \cup (MintingPC \ {"retireAT"})
  /\ Fault
  /\ Finish(r)
  /\ UNCHANGED <<tables, revoked, inc>>

AbortIncident(a) ==
  /\ inc[a].pc # "idle"
  /\ Fault
  /\ inc' = [inc EXCEPT ![a] = NoIncident]
  /\ UNCHANGED <<tables, revoked, req>>

(* The process stops; the rows stay, the requests in flight are gone. *)
Crash ==
  /\ Fault
  /\ req' = [r \in Request |-> Idle]
  /\ inc' = [a \in Admin |-> NoIncident]
  /\ UNCHANGED <<tables, revoked>>

-----------------------------------------------------------------------------

Accept(r) ==
  \/ \E s \in Session, c \in Client : AuthorizeCheck(r, s, c)
  \/ \E c \in Client, k \in Code : CodeGrantAccept(r, c, k)
  \/ \E k \in Code : CodeGrantReplay(r, k)
  \/ \E c \in RefreshClient, x \in RToken : RefreshAccept(r, c, x)
  \/ \E x \in RToken : RefreshReuse(r, x) \/ RevokeRefreshToken(r, x)

Continue(r) ==
  \/ CreateCode(r) \/ MarkAsUsed(r) \/ CodeGrantCreateAT(r) \/ CreateIDToken(r)
  \/ Rotate(r) \/ RetireAT(r) \/ RefreshCreateAT(r) \/ CreateRT(r)
  \/ MarkReuse(r) \/ RevokeSessionATs(r) \/ RevokeSessionRTs(r)
  \/ RevokePairedAT(r)

ContinueIncident(a) == IncidentAccessTokens(a) \/ IncidentRefreshTokens(a)

Environment ==
  \/ \E s \in Session : Login(s)
  \/ \E t \in AToken : RevokeAccessToken(t)
  \/ \E x \in MayExpire : Expire(x)
  \/ Crash

Next ==
  \/ \E r \in Request : Accept(r) \/ Continue(r) \/ Abort(r)
  \/ \E a \in Admin : \/ \E T \in IncidentTargets : IncidentSessions(a, T)
                      \/ ContinueIncident(a)
                      \/ AbortIncident(a)
  \/ Environment

Spec == Init /\ [][Next]_vars

(* A goroutine is scheduled until its handler returns and its statements   *)
(* complete or fail; nobody is obliged to send a request.                  *)
Scheduled(r) == WF_vars(Continue(r))
IncidentScheduled(a) == WF_vars(ContinueIncident(a))

Fairness == (\A r \in Request : Scheduled(r)) /\ (\A a \in Admin : IncidentScheduled(a))

FairSpec == Spec /\ Fairness

-----------------------------------------------------------------------------
(* Safety *)

Spent(g) == g \in used \cup revoked

RedeemedBy(g) == {t \in DOMAIN at : at[t].grant = g}

(* The requests that have accepted g and not yet inserted its access token. *)
Claims(g) == {r \in Request : req[r].pc \in BeforeInsert /\ req[r].cred = g}

Minting(r) == req[r].pc \in MintingPC

Serving(r, s) == req[r].cred = s \/ (req[r].cred \in Code \cup RToken /\ SessionOf(req[r].cred) = s)

(* Every access token was paid for: the code or refresh token it was       *)
(* issued against had been marked used or revoked before the insert        *)
(* (token_authcode.go:89 before :123, token_refresh.go:70 before :112),    *)
(* whatever failed, crashed or ran in between.                             *)
TokensComeFromSpentGrants == \A t \in DOMAIN at : Spent(at[t].grant)

(* A refresh token is paired with exactly one access token, minted by the  *)
(* same request: same session, the parent it names is what that request    *)
(* rotated, a token without a parent stems from a code whose ID token was  *)
(* saved first, and no two refresh tokens share an access token.           *)
RefreshTokensArePaired ==
  \A x \in DOMAIN rt :
    LET t == rt[x].token IN
    /\ t \in DOMAIN at
    /\ rt[x].session = at[t].session
    /\ IF rt[x].parent = None THEN at[t].grant \in Code /\ t \in idt
                              ELSE at[t].grant = rt[x].parent
    /\ \A y \in DOMAIN rt : rt[y].token = t => y = x

(* A chain never leaves its session: what a rotation issues belongs to the *)
(* session of the code the chain began with, however many rotations, and   *)
(* clients, lie between them.                                              *)
ChainsStayInTheirSession ==
  \A t \in DOMAIN at : /\ at[t].origin \in DOMAIN code
                       /\ at[t].session = code[at[t].origin].session

(* A grant is redeemed at most once by each goroutine that can be serving  *)
(* it: IsUsed and revoked_at stop every request that looks the row up      *)
(* after the first one has written it.                                     *)
RedeemedOncePerRequest ==
  \A g \in Code \cup RToken : Cardinality(RedeemedBy(g)) <= Cardinality(Request)

(* A grant that has yielded one token, or is about to, is not claimed by   *)
(* anybody else, but for one race: two requests that both read the row     *)
(* before either has written used_at or revoked_at.  Every other order of  *)
(* their statements, a retry after a failed insert and a restart keep      *)
(* single use (token_authcode.go:57-89, token_refresh.go:52-70).           *)
SingleUse(g) ==
  /\ \A t, u \in RedeemedBy(g) : t = u
  /\ \A r \in Claims(g) : Claims(g) = {r} /\ RedeemedBy(g) = {}

Racing(g) ==
  \E r, o \in Claims(g) : r # o /\ {req[r].pc, req[o].pc} \subseteq {"markUsed", "rotate"}

OnlyRacesRedeemTwice ==
  [][\A g \in Code \cup RToken : SingleUse(g) => SingleUse(g)' \/ Racing(g)']_vars

(* A rotation has revoked the token it replaces before the child exists,   *)
(* and the access token issued with it as well: every pair that is left    *)
(* half-usable cost one failed statement, the revocation whose error       *)
(* RetireAT drops (token_refresh.go:70-75).                                *)
HalfRetired ==
  {p \in DOMAIN rt : rt[p].token \notin revoked /\ \E x \in DOMAIN rt : rt[x].parent = p}

RotationRetiresThePair ==
  /\ \A x \in DOMAIN rt : rt[x].parent # None => rt[x].parent \in revoked
  /\ Cardinality(HalfRetired) <= faults

(* A grant is closed when it is spent and no request is still redeeming    *)
(* it.  A closed grant stays closed and never yields another token: a      *)
(* retry, a replay or a restart opens no new redemption of it              *)
(* (token_authcode.go:57, token_refresh.go:52).                            *)
Closed(g) == Spent(g) /\ \A r \in Request : ~(Minting(r) /\ req[r].cred = g)

ClosedGrantsMintNothing ==
  [][\A g \in Code \cup RToken : Closed(g) =>
       Closed(g)' /\ RedeemedBy(g)' = RedeemedBy(g)]_vars

(* Revoking the session alone stops its rotations, for an incident handler *)
(* that fails after its first statement as well: once no rotation accepted *)
(* before is in flight, none is accepted and no access token of the        *)
(* session is refreshed (token_refresh.go:65).                             *)
RotationStopped(s) ==
  /\ s \in sessions \cap revoked
  /\ \A r \in Request : ~(Minting(r) /\ req[r].cred \in RToken /\ SessionOf(req[r].cred) = s)

RevokedSessionsDoNotRotate ==
  [][\A s \in Session : RotationStopped(s) =>
       /\ RotationStopped(s)'
       /\ {t \in AccessTokensOf({s}) : at[t].grant \in RToken}'
            \subseteq AccessTokensOf({s})]_vars

(* A session is dead when it and its tokens are revoked, its codes are     *)
(* used or expired and no request still serves it.  Nothing the endpoints  *)
(* do brings it back: not a replay, a rotation, an authorization request,  *)
(* a failed statement or a restart.                                        *)
Dead(s) ==
  /\ s \in sessions \cap revoked
  /\ AccessTokensOf({s}) \cup RefreshTokensOf({s}) \subseteq revoked
  /\ \A k \in DOMAIN code : code[k].session = s => k \in used \cup expired
  /\ \A r \in Request : req[r].pc \in MintingPC \cup {"createCode"} => ~Serving(r, s)

DeadSessionsStayDead == [][\A s \in Session : Dead(s) => Dead(s)']_vars

-----------------------------------------------------------------------------
(* Reuse detection.  The tokens of a chain; a chain none of whose tokens   *)
(* is usable and that no request carries on; a request that is taking the  *)
(* chain of x down.                                                        *)
Issued(o) == {t \in DOMAIN at : at[t].origin = o}

CarriedOn(o) == \E r \in Request : Minting(r) /\ OriginOf(req[r].cred) = o

ChainClosed(o) ==
  /\ \A t \in Issued(o) : {t} \cup {y \in DOMAIN rt : rt[y].token = t} \subseteq revoked
  /\ ~CarriedOn(o)

HandlingReuse(r, x) ==
  /\ req[r].pc \in {"revokeATs", "revokeRTs"}
  /\ SessionOf(req[r].cred) = SessionOf(x)
  /\ req[r].pc = "revokeRTs" => Issued(OriginOf(x)) \subseteq revoked

(* From the moment reuse of x is recorded its chain is being taken down or *)
(* is closed for good, and one of two things only lets it escape: a        *)
(* rotation of that very chain is in flight at the step, or the step is a  *)
(* failed statement or a crash.  Whatever else runs meanwhile, grants of   *)
(* other chains of the session included, changes nothing, and the next     *)
(* presentation of x takes the chain down again (token_refresh.go:52-63).  *)
Handled(x) ==
  x \in reused => ChainClosed(OriginOf(x)) \/ \E r \in Request : HandlingReuse(r, x)

ReuseClosesTheChain ==
  [][\A x \in RToken : Handled(x) =>
       Handled(x)' \/ (x \in reused /\ CarriedOn(OriginOf(x))) \/ faults' > faults]_vars

-----------------------------------------------------------------------------
(* What the documents promise.  The first three fail in the races that     *)
(* OnlyRacesRedeemTwice and ReuseClosesTheChain single out, and only there; *)
(* the fourth fails for a code that outlives the incident.                 *)

(* A code is redeemed once (docs/design/02-domain-model.md:333-335). *)
CodesRedeemedOnce ==
  \A t, u \in DOMAIN at : at[t].grant = at[u].grant /\ at[t].grant \in Code => t = u

(* Rotation keeps a chain linear: RT-1 is invalidated when RT-2 is issued, *)
(* so that no refresh token has two successors                             *)
(* (docs/design/03-api-design.md:210-214).                                 *)
ChainsAreLinear ==
  \A x, y \in DOMAIN rt : rt[x].parent = rt[y].parent /\ rt[x].parent # None => x = y

(* After reuse of a refresh token has been handled, every token of its     *)
(* chain is revoked ("RT-2 must be unusable too",                          *)
(* docs/plan/phase1-implementation-plan.md:231).                           *)
ReuseKillsTheChain ==
  \A x \in reused :
    (faults = 0 /\ \A r \in Request : req[r].pc \notin {"revokeATs", "revokeRTs"}) =>
      \A t \in DOMAIN at : at[t].origin = OriginOf(x) =>
        {t} \cup {y \in DOMAIN rt : rt[y].token = t} \subseteq revoked

(* Once an incident handler has run to its end over a session, no token of *)
(* that session is usable                                                  *)
(* (docs/plan/phase2-implementation-plan.md:282-287).                      *)
RevokedSessionsHaveNoLiveToken ==
  \A s \in sessions \cap revoked :
    (faults = 0 /\ \A a \in Admin : inc[a].pc = "idle") =>
      AccessTokensOf({s}) \cup RefreshTokensOf({s}) \subseteq revoked

-----------------------------------------------------------------------------
(* Liveness *)

(* Whatever the others have read, written or left half-done, the next      *)
(* statement of a handler can run: no request waits for another one.       *)
CanContinue(r) == req[r].pc # "idle" => ENABLED <<Continue(r)>>_vars
IncidentCanContinue(a) == inc[a].pc # "idle" => ENABLED <<ContinueIncident(a)>>_vars

HandlersNeverWait ==
  (\A r \in Request : CanContinue(r)) /\ (\A a \in Admin : IncidentCanContinue(a))

(* Every request is answered, however the statements of others fall        *)
(* between its own.                                                        *)
RequestsAreAnswered == \A r \in Request : req[r].pc # "idle" ~> req[r].pc = "idle"

(* A replayed code or reused refresh token costs the session every token   *)
(* that exists when the statement for its table runs, unless a statement   *)
(* fails or the process stops before that; a failure earlier on, of this   *)
(* request or of another, excuses nothing later.                           *)
ReplayRevokesTheTokens ==
  \A n \in 0..MaxFaults :
    /\ \A r \in Request, t \in AToken :
         (/\ faults = n /\ req[r].pc \in {"markReuse", "revokeATs"}
          /\ t \in AccessTokensOf({SessionOf(req[r].cred)})) ~> (t \in revoked \/ faults > n)
    /\ \A r \in Request, x \in RToken :
         (/\ faults = n /\ req[r].pc \in {"markReuse", "revokeATs", "revokeRTs"}
          /\ x \in RefreshTokensOf({SessionOf(req[r].cred)})) ~> (x \in revoked \/ faults > n)

(* An incident request that starts revokes the sessions it covers and      *)
(* every token of theirs that exists when its table's turn comes, tokens   *)
(* issued after the first statement included; a repetition after a failure *)
(* does what the first attempt left undone.                                *)
IncidentsRevokeTheTokens ==
  \A n \in 0..MaxFaults :
    /\ \A a \in Admin, t \in AToken :
         (faults = n /\ inc[a].pc = "accessTokens" /\ t \in AccessTokensOf(inc[a].target))
           ~> (t \in revoked \/ faults > n)
    /\ \A a \in Admin, x \in RToken :
         (faults = n /\ inc[a].pc # "idle" /\ x \in RefreshTokensOf(inc[a].target))
           ~> (x \in revoked \/ faults > n)

=============================================================================
