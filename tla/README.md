# A verification development of oidc-demo

The repository holds an OpenID Connect provider (OP, Go, `op/backend`), its login page
and management console (`op/frontend`) and a relying party (RP, Next.js, `rp`). The
modules in this directory model the state those programs keep in PostgreSQL, in cookies
and in browser tabs, and the handlers that change it; they are checked with TLC, and all
their safety properties but those that only a violation run checks are proved with TLAPS.

Paths below are relative to `op/backend/internal` unless they start with `docs`, `rp`,
`op`, `cmd` or `lib`, `app`, `components` (of `op/frontend/src` in AdminSessions, of
`rp/src` in RelyingParty).

## 1. Inventory

### How the system runs

* The OP is one process that serves two HTTP APIs: the OpenID endpoints and the
  management API. Each request has a goroutine of its own; there is no lock, no queue
  and no background job.
* All state is in PostgreSQL, reached through GORM. **No handler opens a transaction**:
  a handler is a sequence of SQL statements, each atomic, and anything may run between
  two of them. The only exception is `Create` of a row with associations, which GORM
  runs as one transaction.
* A statement may fail (the handler answers 500, or drops the error where the code says
  `_ =`), and the process may stop at any point and start again with the rows it left.
* The RP keeps its own tables (users, sessions) and carries `state`, `nonce` and the
  PKCE verifier of a login in cookies.
* A browser's tabs share its cookies and nothing else. An answer changes them when it is
  heard, which may be long after another tab has logged in or out.

### Components

| Component | State | Operations | What is hard |
|---|---|---|---|
| Codes and token endpoint (`oidc/token*.go`) | `authorization_codes`, `access_tokens`, `refresh_tokens`, `id_tokens` | redeem a code, replay, rotate a refresh token, reuse detection | check-then-act without a lock, partial failure in a chain of inserts, retries of what was done already |
| Revocation (`oidc/revoke.go`) | same | revoke an access token; a refresh token and its access token | dropped errors, races with rotation |
| Incidents (`management/incident.go`) | sessions and tokens | revoke all, a tenant, a user, in three statements | tokens inserted between or after the statements |
| Authorize (`oidc/authorize.go`) | `authorization_codes`, reads `sessions`, `clients` | check, then insert a code | the session may die between check and insert |
| Login and sessions (`auth/*.go`) | `sessions`, `users` | login, validate, me | revocation and expiry while a session is in use |
| Signing keys (`jwt/key_service.go`, `management/key.go`) | `sign_keys` | boot, rotate, deactivate, sign, publish the JWKS | overlapping rotations, a rotation that fails half way, tokens that outlive their key |
| Tenants (`management/tenant.go`) | `tenants` | create (check, insert), edit (load, save every column) | lost updates, two creations of one code |
| Clients (`management/client.go`, `redirect_uri.go`) | `clients`, `redirect_uris` | create, edit (load, save), rotate the secret, disable, add and remove URIs | an edit that saves what it loaded before a rotation |
| Administrator sessions (`management/auth_*.go`, `middleware.go`; the console in `op/frontend`) | `admin_sessions`, the cookie, the page of each tab | login, me, logout, check before each handler | a request that passed the check runs on after a logout; answers of two tabs overtake each other; dropped errors |
| Relying party (`rp/src`) | `users`, `sessions`, cookies | start a login, callback, logout, middleware | two login attempts in one browser; two first logins of a user |
| Userinfo | none of its own | validate, look the row up, answer | keys and rows change between the steps |
| JWKS, discovery | none of their own | read | stale keys |
| Config, database, migrations | start-up | - | - |

Interactions: the token endpoint reads clients (guard `ClientAuthenticated`), sessions
(through `IsValid`) and signing keys (through `Sign`); incidents and the token endpoint
share the token tables; the RP sends browsers to authorize and calls token, userinfo and JWKS.
Userinfo and revocation read the keys, then the rows of the grants.

### What makes each component correct

* **Grants.** A token exists only against a code or refresh token that was spent first;
  a spent grant yields nothing more; a refresh token belongs with exactly one access
  token; a chain of rotations never leaves its session; one code, one redemption, and no
  fork of a chain, but for the race of two requests that read one row; a reuse closes
  the chain, unless a rotation of it is in flight; what an incident revoked stays dead.
* **Keys.** The server can sign when it is up, unless two deactivations meet; the newest
  key signs; a restart repairs a failed rotation; tokens verify as long as the design says.
* **Administration.** Requests act as if each were one step, but for an edit that saves over
  a change it has not seen; a rotated secret or a disabled client is dead for good once
  such edits are over; codes of tenants are unique.
* **Administrator sessions.** A management request acts only under a session valid when
  it was checked; logout ends the session; a session no browser holds stays out of reach.
* **Relying party.** A session is opened only for the login the browser began (state,
  nonce), one user row per subject, an undisturbed login succeeds.
* **The provider as a whole.** What holds of the parts holds of the composition; a token
  once refused is refused for good.

## 2. The modules

| # | Module | Content |
|---|---|---|
| 1 | `TokenGrants` | codes, both grants, revocation, incidents, login and authorize as far as they write rows |
| 2 | `SigningKeys` | boot, rotation, deactivation, the readers of keys |
| 3 | `ClientAdmin` over `Rows`, `ClientRegistry` | tenants, clients, URIs; the atomic registry they should implement |
| 4 | `Provider` | composes 1 and 2 in one process and adds signing, `/userinfo` and the revocation of access tokens; implements both |
| 5 | `AdminSessions` | administrator login, logout, expiry, the middleware, the tabs of the console |
| 6 | `RelyingParty` | the RP's routes and tables, the browsers, and the OP as the front channel sees it |
| 7 | `TokenGrantsProofs`, `GrantPromisesProofs`, `SigningKeysProofs` (with `DrawOrder`), `ClientAdminProofs`, `ProviderProofs`, `AdminSessionsProofs`, `RelyingPartyProofs` | the theorems of section 5 |
| 8 | `MCTokenGrants`, `MCSigningKeys`, `MCClientAdmin`, `MCProvider`, `MCRelyingParty` | constants of the runs |

`Provider` EXTENDS `TokenGrants` and INSTANCEs `SigningKeys`. `RelyingParty` has its own,
coarser codes and code grant: what a relying party can tell apart is whether a code is
accepted, refused or replayed, and a replay's effect on the tokens of the session.

## 3. The modules and the code

Conventions in all modules:

* An action is one SQL statement together with the reads and the pure computation around
  it that no other goroutine can see. A request that is refused changes nothing; it is
  a stuttering step and has no action.
* A table is a function from keys to rows (`DOMAIN` is the set of rows that exist). A
  column that is written after the insert, such as `revoked_at`, is a set of keys.
* A program counter in `req`, `inc` or `act` says which statement a goroutine runs next
  and what it has read: that record is the handler's local variables.
* Keys are never drawn twice (`gen_random_uuid()`, `uuid.New()`, random secrets).
* `D_How` is the definition `D` with the mistake `How` names. No specification uses
  it. Put in the place of `D` it breaks one property of one run, which shows that the
  property can fail: the end of section 4 lists the pairs in the words of the mistakes.

### TokenGrants

| Code | Action |
|---|---|
| `auth/service.go` Login | `Login` |
| `oidc/authorize.go` up to the session check / the insert | `AuthorizeCheck` / `CreateCode` |
| `token_authcode.go` up to line 86 / replay at 57-61 | `CodeGrantAccept` / `CodeGrantReplay` |
| `:89` / `:123` / `:150` / `:172-180` | `MarkAsUsed` / `CodeGrantCreateAT` / `CreateIDToken` / `CreateRT` |
| `token_refresh.go` up to line 67 / reuse at 50-57 | `RefreshAccept` / `RefreshReuse` |
| `:70` / `:75` / `:112` / `:130` | `Rotate` / `RetireAT` / `RefreshCreateAT` / `CreateRT` |
| `:53`, `:54`, `:55` | `MarkReuse`, `RevokeSessionATs`, `RevokeSessionRTs` |
| `revoke.go` | `RevokeAccessToken`, `RevokeRefreshToken`, `RevokePairedAT` |
| `management/incident.go` | `IncidentSessions`, `IncidentAccessTokens`, `IncidentRefreshTokens` |
| error returns, process stop, `expires_at` | `Abort`, `AbortIncident`, `Crash`, `Expire` |

`grant` and `origin` of an access token are history: the credential redeemed and the code
the chain began with. No column holds them and no guard reads them. What is abstracted:
client authentication, PKCE and `redirect_uri` (they only refuse), the contents of tokens
(except the scope), hashes.

### SigningKeys

`EnsureSigningKey`, `GenerateKey` and `InsertKey` are the boot
(`key_service.go:34-45`, `:64-109`); `DeactivateAllActive`, `GenerateKey` and `InsertKey`
are a rotation (`:48-61`); `FindByKID`, `FindAllActive` and `Deactivate` are the three
statements of `DELETE /keys/:kid`. Generation is a step of its own because
`created_at` is set there and the insert comes later: keys may be inserted in another
order than their `created_at`, which is what `FindActive` sorts by. `drawn` keeps the kids in
that order. `deleted` and `signed` are history.

### ClientAdmin over Rows, and ClientRegistry

PUT on a tenant or client is two actions, `FindTenant`/`FindClient` and
`SaveTenant`/`SaveClient`: the load and GORM's `Save`, which writes **every** column. POST
of a tenant is two, `FindByCode` and `CreateTenant`: the check and the insert under a
unique index. The other handlers also look a row up first, but all they use of it never
changes, and they update the columns they name: one action each. `ClientAuthenticated`
and `RedirectAccepted` are the guards by which the OpenID endpoints read these tables.

`ClientRegistry` is the abstract specification. Its `asked` is what each goroutine was
asked to do and has not answered: `Ask` records a request, and one later step carries it
out, on the row as it is then, or withdraws it. The other requests are one step. `ClientAdmin`
instantiates it as `Registry`, with the identity on the tables and on `asked`; `loaded`, the
row a goroutine read and will save, is what the detailed specification adds. An edit must
therefore set exactly the settings it was asked to set.

The handlers do not implement the registry outright: a PUT that saves a row somebody changed
since it loaded it takes that change back. `LostUpdate` is that step, and
`AtomicButForLostUpdates` says that there is no other exception: every step is one of
`Registry!Next` or a `LostUpdate`, which itself may restore the settings, the secret and the
status it loaded and nothing else. Two more properties say how far its harm goes. `Held` are
the rows of a client that edits in flight have loaded: once none of them holds a dead
secret alive, it is dead for good (`ForgottenSecretsStayDead`), and likewise a disabled
client (`RemovedClientsStayOut`).

### Provider

| Code | Action |
|---|---|
| `jwt/token_service.go:28-101` | `SignToken`: reads the newest active key for the next token of a grant |
| `token_authcode.go:115-125`, `:142-152`, `token_refresh.go:105-114` | `SaveAccessToken`, `SaveIDToken`: the inserts, whatever has become of the key since |
| `oidc/token.go:96-105`, `:129-141` | `AbortGrant` |
| `userinfo.go:40` / `:47` / `:54`, error returns | `ValidateAccessToken` / `FindByJTI` / `AnswerUserinfo`, `LoseUserinfo` |
| `revoke.go:84` / `:89` / `:94`, dropped errors | `ValidateAccessToken` / `FindByJTI` / `Revoke`, `LoseRevocation` |
| process stop | `CrashProvider`: `Crash` of both parts at once |

`GrantStep` and `KeyStep` collect the actions of the parts that are as they were, `Unsigned` those
in which no token is signed: they stand for no code of their own. `kid` is the
header of each token, `sig` the key a goroutine has signed with. No key and a key that
does not decrypt end in `AbortGrant`.

### AdminSessions

| Code | Action |
|---|---|
| `auth_handler.go:35-75`, `auth_service.go:46-82` | `HandleLogin`, `RefuseLogin`, `Login` |
| `auth_handler.go:78-106` / `:109-131` | `HandleMe` / `HandleLogout` with `RevokeSession`, which may fail unnoticed |
| `middleware.go:18` / `:19` | `AuthMiddleware` / `HandleManagement` |
| `lib/management-auth.tsx:37-50`, `components/layout/auth-guard.tsx` | `Load`, `HearMe`, `CheckAuth` |
| `app/management/login/page.tsx:22-39` | `SubmitLogin`, `HearLogin` |
| `components/layout/sidebar.tsx:20-23`, `management-auth.tsx:57-64` | `ClickLogout`, `HearLogout`, `LoseCall` |
| `lib/fetcher.ts` | `Send`, `HearManagement` |

A call carries the cookie of the moment it is sent; an answer sets the cookie when it is
heard. A tab that loads a page abandons its call (`awaited`): the server serves it
nevertheless, and its cookie may or may not be stored. Who the administrator is is left out,
a session is its own identity.

### RelyingParty

| Code | Action |
|---|---|
| `app/api/auth/login/route.ts` | `ClickLogin`: state, nonce and verifier are one `Attempt`, in cookies that overwrite the last ones |
| `oidc/authorize.go:122-217`, `auth/login.go` | `Authorize`, `SubmitLogin` |
| `app/api/auth/callback/route.ts:11-45` | `Callback`: reads the cookies, takes a request |
| `lib/oidc/token.ts` with `token_authcode.go:47-125` | `Exchange` (state, `used_at`, verifier; a replay revokes), `Redeem` |
| `lib/oidc/userinfo.ts` | `FetchUserInfo` |
| `lib/db/queries/user.ts:15` / `:35` | `SelectUser` / `InsertUser` under the unique `op_sub` |
| `lib/db/queries/session.ts` | `CreateSession`, `RevokeSession`, `OpenDashboard` |
| `app/api/auth/logout/route.ts` | `Logout` |
| the answers | `Hear` with `Cookies`, `Drop`; `AbortCallback`, `AbortLogout` |

`Authorize` issues a code for the session of the `op_session` cookie. A session that has expired
or was revoked sends the browser to the login page instead: that may happen at any time
and is counted as a fault, since the tables of `TokenGrants` are not repeated here. `Drop` is the
answer of a callback or logout nobody waits for any more: the browser stores its cookies
or does not. `Visitors` are the people who may log in: those seen before and one of the others,
who are alike.

`Reopen` opens a callback address in another tab, of the same or another browser,
`Reload` asks for it again while the first request runs. `begun` and the `code` of a
session are history. `Layouts` says which tab belongs to which browser: both tabs in one
jar of cookies, or one in each. The new key of a row is picked deterministically
(`Fresh`): random keys are never compared but for equality, so which is drawn tells nothing.

## 4. The runs

| Run | Question | Instance and why it is enough |
|---|---|---|
| `grants_concurrent` | what holds whatever interleaves, and which races alone break single use and reuse detection | 1 session, 1 code, 3 access and 3 refresh tokens, 2 requests, 1 incident, 1 fault, the code expires: two redemptions or rotations overlap, and a third token can come of it |
| `grants_chains` | do chains keep to their session, and is reuse followed through, when clients hand tokens on | 2 sessions, 2 codes, 3 clients of which 2 rotate each other's refresh tokens, 3 tokens of each kind, 1 request, 1 fault, a session expires: a chain of two rotations by different clients next to another session |
| `grants_fair` | no handler waits for another; every request ends; replay, reuse and incidents reach every token | 1 session, 2 tokens of each kind, 2 requests, 1 incident, no fault, fairness. With a fault the liveness graph is too large for TLC; the theorems cover any number of them |
| `grants_code_race` | violation: one code, two redemptions | 2 requests |
| `grants_incident_code` | violation: a token outlives an incident | 1 request, 1 incident |
| `keys_lifecycle` | what alone leaves the server without a key; the newest signs, boots repair, rotations end | 4 kids, 2 administrators who both rotate and deactivate, 1 fault, boots and crashes |
| `keys_verify` | violation: a rotated key no longer verifies | 2 kids, 1 administrator |
| `clients_edits` | requests act as one step but for lost updates; what is dead and forgotten stays dead | 2 tenants, 1 code, 1 client, 1 URI, 3 secrets, 2 settings of 2 values, 2 administrators: an edit loads a row that the other edits, rotates or disables |
| `clients_lost_update` | violation: an edit brings a rotated secret back | 1 client, 2 secrets, 1 administrator |
| `provider` | the composition implements its parts; refusals and revocations hold across rotations and restarts | 2 kids, 1 administrator, 1 code, 2 tokens of each kind that expire, 1 request, 1 userinfo and 1 revocation, 1 fault of each part: a token, its refreshed successor, and a rotation or restart between any two steps of a validation. Deactivation by name and incidents, which add nothing to what a rotation and a revocation do to a token here, stay with the runs of the parts |
| `admin_sessions` | sessions end, abandoned ones are inert, logins arrive, logouts end what they carry | 2 sessions, 2 tabs, one session expires, 1 fault, 2 page loads: each tab logs in and out while the other's answer is late, lost or abandoned |
| `relying_party` | a browser only holds its own logins, and an undisturbed one succeeds, whatever failed before | 2 tabs of one browser or of two, 2 attempts, codes, OP sessions and users, 2 requests, 1 fault or reload: two logins of one or two users overlap at every await. 3 user rows and 5 sessions, so that the keys of these tables never run out (`KeysLeft`) |

Named bounds: `MaxFaults` (failed statements and crashes together), `MayExpire` (rows the
clock may pass), the sizes of the sets of keys. `MaxKeyFaults` is the same for the keys in
`Provider`, `MaxLoads` bounds pages opened in `AdminSessions`, `MaxMishaps` faults and reloads
together in `RelyingParty`. When keys run out, no new row is created, which stops growth but no
cleanup. `AKidIsLeft` keeps a rotation from starting that
could not draw its kid: otherwise the bound alone would leave the server without a key.

*Symmetry* (`Symmetric` in the MC modules) permutes the keys of one table and the
goroutines of one kind, and in `clients_edits` rows, secrets, settings and administrators.
It is used only in runs without liveness and only over sets whose elements no constant tells
apart: `Interchangeable` keeps the keys that `MayExpire` names apart from the others, and only
the clients with refresh tokens are permuted among themselves.
In `provider` the keys of three tables are permuted, its properties being safety only.
*Deadlock* is checked everywhere but in `keys_lifecycle`, `provider`, `admin_sessions` and
`relying_party`, where the kids, faults, page loads or keys of a small instance run out.

### Fairness

`FairSpec` of `TokenGrants` and `SigningKeys` has weak fairness on the continuation of
each goroutine that has started: handlers take no lock and wait for nobody, so the Go
scheduler and the database let each statement finish or fail. There is no fairness on
beginning a request, on a crash, on the clock or on the boot: nobody is obliged to do these.
`AdminSessions` assumes that the server serves each call that reaches it and that the
browser hears each answer; `RelyingParty`, that a browser follows redirects and that
the server goes on with what it serves. Nobody has to click, and a lost call is a fault, which the
liveness properties name. `Provider` has no fairness of its own and
its run is about safety; its liveness theorems take the fairness of `TokenGrants` as a premise.

Weak fairness says something only of a step that can be taken. That it always can is a property of
the code: no handler holds a lock, loops until a row changes, or asks of a row
something another goroutine may have changed without an answer for the case. `HandlersNeverWait`
(`TokenGrants`, checked by `grants_fair`; `SigningKeys`), `CallsNeverWait` (`AdminSessions`) and
`CallbacksNeverWait` (`RelyingParty`) state it with `ENABLED`, and the liveness theorems
of section 5 have them as their premise. The last three are invariants of the
instances of `SigningKeys_lifecycle.cfg`, `AdminSessions_fair.cfg` and `RelyingParty.cfg`, as is
`KeysLeft` of the last: TLC passes when they are added there. They are not listed because the
liveness properties of these runs already break when a rotation, call or callback is stuck.

### Properties and the mistakes that break them

Grants: `TypeOK`, which has the foreign keys of the migrations in it as `ReferencesHold` (a parent that is
never null), `TokensComeFromSpentGrants` (forgotten
`MarkAsUsed`), `RefreshTokensArePaired` (the old access token in the new row),
`RedeemedOncePerRequest` and `OnlyRacesRedeemTwice` (no check of `used_at`),
`RotationRetiresThePair` (old access token kept), `ClosedGrantsMintNothing` (no check of
`revoked_at`), `RevokedSessionsDoNotRotate` (session not
checked), `DeadSessionsStayDead` (`IsValid` ignores revocation),
`ChainsStayInTheirSession` (session found by user), `ReuseClosesTheChain` and
`ReplayRevokesTheTokens` (only the presented token is revoked), `HandlersNeverWait` and
`RequestsAreAnswered` (an update retried until it changes a row), `IncidentsRevokeTheTokens` (tokens found through sessions still
valid).
Keys: `TypeOK` (the kid is lost between statements), `KeysSurvive` (off by
one in the count), `NewestKeySigns` (sorted the wrong way), `BootRestoresSigning` (any row
counts, active or not), `RotationsRestoreSigning` (inserted inactive).
Administration: `TypeOK` (a client of a tenant that is not there), `TenantCodesAreUnique` (no
unique index), `ForgottenSecretsStayDead` (a secret drawn again), `RemovedClientsStayOut`
(an edit sets the status), `AtomicButForLostUpdates` (an edit resets what it does not name).
Provider: `ProviderTypeOK` (the kid of a new token is lost), `GrantsBehave` (a revocation
deletes the row), `KeysBehave` (rotations resume after a restart), `RefusalIsFinal` (a verified
signature is enough), `RevocationsAreHonoured` (the hint of the client ends the search).
Administrator sessions: `TypeOK` (a logout without a row), `EndedSessionsStayOver` (`IsValid`
ignores revocation), `AbandonedSessionsAreInert` (a login takes up an older session),
`LoginsReachTheConsole` (a fetch that drops the cookie), `LogoutsEndTheSession` (only the cookie
is cleared).
Relying party: `TypeOK` (a conflicting insert is taken for done), `SessionsComeFromOwnLogins` (the state is
compared with the address itself), `AbandonedSessionsAreInert` (a session row is reused),
`LoginsSucceed` (a used code is punished before the state is compared).

## 5. What is proved

All proofs hold for every value of the constants that satisfies the named assumptions
(`KeysAreDisjoint`, `OwnersAreTyped`, `BoundsAreTyped`, `ActorsAreTyped`, `GoroutinesAreTyped`,
`TabsAreTyped`): any number of rows, goroutines, tabs and faults.

**TokenGrantsProofs.** `TypeOK` is not inductive: a handler writes what it loaded, so the
invariant must say of each program counter which rows it holds. `TypeInv` adds that
(`Loaded`, `TablesOK`) and gives `TypeCorrect`, with `ReferencesHold`: every foreign key of the
token tables names a row at any time, so no insert of a handler can fail for want of the row it refers
to, and the model rightly has no such failure (a statement may fail for any other reason, as `Abort`).
The `client_id` columns are left to `ClientAdmin`: no handler deletes a client. The lineage properties need each other:
a pairing stays right only because the grant of the access token that is about to be paired was
spent, and because no two requests hold the same new key. `GrantInv` joins
`TokensComeFromSpentGrants`, `RefreshTokensArePaired` and `ChainsStayInTheirSession`
with `KeysDistinct` and what each request in flight has done so far; from
it follow `TokensArePaidFor`, `PairingHolds` and `ChainsKeepTheirSession`. Lemma
`NewAccessTokens` says which steps insert an access token, and with which grant,
`RedemptionsBeginUnspent` that a request comes to redeem only what is unspent, and `MarksStay`
that nothing is unspent again; from them `ClosedGrantsStayClosed`, an action property, follows.

**SigningKeysProofs.** `KeyInv`: typed state, each kid drawn once, every statement holds a kid
it drew or read, requests only while the server is up. `FindActive` is a `CHOOSE`; that
it is well defined rests on `LeastOf`, the least element of a set of indices.
`NewestOnItsWay` (unless deactivated by name, the last kid drawn is active or its goroutine is
about to insert it) gives `NewestSigns`. `KeysAreSupplied` goes through the steps of a server
that has a key which stays or is making one (`Supplied`): the count of `IsLastActive` protects the last
key from everybody but a second deactivation that has counted it too
(`DeactivationsMeet`). `KeysRunOutByRaceOrFault` says the same of whole behaviours: a running server always
has a key or one coming, unless two deactivations meet or something fails. `BootRepairs` needs
`KeyInv` alone. `RotationsRepair` is liveness: who is drawing or inserting a key goes on until it is
active, whatever emptied the table before, unless something fails again.

**ClientAdminProofs.** `RowsInv` adds to `TypeOK` that a loaded row exists in its table, with
the same immutable columns (`LoadedRows`). `CodesUnique` holds
since the unique index is checked in the inserting step and edits do not touch the code.
`StepsRefine` takes the handlers action by action: each step is a step of the registry, a stutter
or a `LostUpdate`, whence `OnlyLostUpdatesBreakAtomicity`, without any assumption on who edits when;
`OvertakenEditsAloneLoseUpdates` draws the conclusion for whole behaviours: they are behaviours
of the registry, or some edit holds a row that has changed. `SecretsDieOnceForgotten` and
`RemovalIsFinal` rest on one fact: what an edit holds was in the table when it loaded it.

**GrantPromisesProofs.** What the grants promise beyond lineage, all from `GrantInv`, a few
more invariants and lemmas about what one step may do. `RowsAreKept` is the first of them as a theorem:
the tables are a history. `RotationsStop` and `DeadStayDead` follow step by step: whoever
may still rotate in a revoked session already runs (`RotationStopped`). A session is `Quiet` when
it is revoked, its codes are spent and nobody serves it: nothing more is issued for it (`QuietKept`), and
`IncidentsEndQuietSessions` proves that an incident leaves it dead for good, the positive side of
`grants_incident_code`. `RotationsRetire` needs
`RetireInv`, which says what a rotation has revoked at each program counter, and counts: the access
tokens left live by rotations are no more than the statements that failed.
`RedemptionsAreBounded` counts: `BudgetInv` bounds the tokens of a grant together with the
requests still redeeming it by the number of goroutines, since only who accepted it while
unspent can redeem it.

Single use and reuse detection are not promises the code keeps in every interleaving, and the theorems
say exactly where it does. `OnlyRacesBreakSingleUse`: a grant with one claim gets a second one only when
two requests hold it that both read it before either wrote (`Racing`). `RacesAloneBreakThePromises`:
so every behaviour without such a moment redeems each code once and keeps each chain linear.
`ReuseIsFollowedThrough`: a chain whose reuse is being or has been handled (`Handled`) stays so at
every step but a failure, or one at which a rotation of that chain is in flight; `origin` ties all
tokens of a chain to the session the handler sweeps. `OutrunAloneBreaksReuseDetection`: so, without a failure,
nothing but such a rotation leaves a live token in a chain whose reuse was handled.

Liveness: `EveryRequestIsAnswered` by a measure, `StepsLeft`, the statements a handler has still to
run; no step of anybody raises it and its own steps lower it. `ReplaysRevoke` and
`IncidentsRevoke` follow a token from statement to statement of the sweep: until the one
for its table runs it stays among the rows of the session (`SessionsKeepTheirTokens`). Both
hold after any number `n` of failures and are excused by the next one alone: the handlers drop the
error of a failed sweep or end there, and what a later sweep then meets is the case of `n + 1`.

**ProviderProofs.** A step of the composition is a step of the keys or leaves them alone, and
likewise of the grants: two refinements with the identity as mapping. `ProviderKeepsItsGrants` and
`ProviderKeepsItsKeys` carry the safety theorems of the parts over to the provider; the second
takes `SigningKeysProofs` as an instance, as `Provider` takes `SigningKeys` (`SameKeys`). The inductive
invariant, `ProviderInv`, is `GrantInv`, the keys' `KeyInv` and what ties them together (each token
names a key with a row, each validating request holds an issued token), so each part's steps keep it by
the part's own lemmas. `RefusalsAreFinal` adds that kids are drawn once and
inactive keys stay inactive; `RevocationsHold`, that a token is refused before its revoker ends,
by its row or by its key.
Three theorems run from a session's end to the answers of `/userinfo`, through both parts. A session is
`Shut` when it is dead and nobody is about to answer for it: `ShutSessionsAreRefused` says that none of
its tokens is accepted or answered for again. `IncidentsReachUserinfo` and `ReplaysReachUserinfo` are
liveness: the tokens an incident, a replay or a reuse sweeps end up refused for good, and no
request that had verified a signature before gets past its row (`NobodyPasses`).
`IncidentsShutQuietSessions` is `IncidentsEndQuietSessions` of the composition. Their premises are
the fairness of the one handler and that it never waits, both of `TokenGrants`;
`DownMeansIdle`, that no request is in flight while the process is down, shows that
the fairness of an incident never asks for a step the composition refuses.

**AdminSessionsProofs, RelyingPartyProofs.** `TypeOK` of the administrators' sessions is
inductive; the two action properties follow by cases over the actions. In the relying party, what ties a cookie to
its login passes through the jar, the tab, the request and the rows: the inductive
invariant has a part for each, and `SessionsAreOwn` is their conjunction read at the cookie.

`LogoutsEnd` and `LoginsReach` are the liveness of the console. The second follows
a tab from the accepted login through the page load and `/auth/me` to the console, where a new
page load may start it over. While no session has ended and nobody logs out (`Calm`), little can
happen (`CalmMoves`), and what the tab carries is a live session. Its premise `AdministratorRests` says that pages
are not opened for ever. In the model this follows from `MaxLoads`, but by an
induction on the loads that are left, which the prover cannot do over temporal formulas.

`LoginsEndInASession` follows a code that has come back: address, request, exchange, user
information, the user's row, session, answer. The lemmas say of each stage that every step of anybody
keeps it, excuses it, or moves it on (`BackMoves`, `ServingStays`, `ServingGoesOn`,
over the invariant `TabsAreOfTheirCode`). It assumes `KeysLeft`, that the two tables have
keys to draw; `KeysDoNotRunOut` proves that of every behaviour when the keys are infinitely
many, since only finitely many rows ever exist.

**How liveness is proved.** For each stage of a handler three plain facts: every step keeps the
stage or leaves it for the better, the step under weak fairness leaves it, and it can be
taken. PTL combines them. `Scheduled` and `Progress` keep the fairness of one goroutine
in one opaque formula, so that a stage with a parameter (which request, which tab) is
proved for each and then joined by a quantifier under the box.

**Only model-checked.** That a step can be taken is an `ENABLED` formula, which the prover
does not handle: `HandlersNeverWait` and its kin stay with TLC (see *Fairness*), and the liveness
theorems hold given them (those of `Provider` given the part for one handler, `IncidentCanContinue` or
`CanContinue`; the provider implements the grants, so `grants_fair` speaks for it too). So does `AdministratorRests`. Every other property of a passing run is a
theorem.

## 6. Where the documents and the code disagree

Each has a run whose counterexample shows it (`PROJECT.json`, "findings"):

1. Single use of codes: `token_authcode.go:57` reads, `:89` writes by id alone; two
   requests redeem one code (`docs/design/02-domain-model.md:333-335`).
2. A code grant never looks at its session: tokens appear after an incident
   (`docs/plan/phase2-implementation-plan.md:283-287`).
3. A rotated key leaves the JWKS at once (same file, `:257` and `:271`).
4. A PUT writes back a rotated secret (same plan, `:182`).

Met while reading and not given a run:

* Reuse detection misses what a rotation in flight inserts afterwards: the handler sweeps the rows
  that exist (`token_refresh.go:54-55`), then the rotation inserts a live pair (`:112`, `:130`;
  `docs/plan/phase1-implementation-plan.md:231` wants RT-2 unusable too). `ReuseKillsTheChain` states the
  document's promise, and fails there; `ReuseClosesTheChain` and its theorems show that such a
  rotation, or a failed statement, is the only way.
* A refresh takes the scope of the request unchecked (`token_refresh.go:88-90` against the
  comment at `:86`).
* Two deactivations that both count two active keys leave none (the comment at
  `management/key.go:95`): `KeysSurvive` shows that they alone do, failures apart.
* `prompt=login` always asks for a password: the login page returns to the same URL, which asks again
  (`oidc/authorize.go:141-148` against `docs/plan/implementation-plan.md:429-430`).
* The console shows a 401 of the management API as any other error and stays
  (`lib/fetcher.ts:45-51`), where `docs/design/06-frontend-architecture.md:410` returns to the login.
* A race of two refreshes forks a chain (`docs/design/03-api-design.md:210-214` against
  `token_refresh.go:52` and `:70`): the same shape as 1; `OnlyRacesRedeemTwice` shows that
  `ChainsAreLinear` fails in no other way.
* Reuse detection leaves the session row valid (`docs/design/03-api-design.md:218`): no
  statement of the handler writes it.
* A failed rotation leaves no active key until the next boot or rotation
  (phase 2 plan `:253-256` against `key_service.go:50`): `BootRestoresSigning` is what holds.
* The phase 1 plan (`:221`) has a refresh return an ID token; the code issues none.
* A PUT that overlaps a DELETE makes the client active again: the same shape as 4;
  `RemovedClientsStayOut` bounds it to the PUTs that had loaded the client before.
* POST of a client with `require_pkce: false` leaves the column to its default, true: GORM
  skips a zero value of a column with a default. PUT accepts an empty `grant_types`, which
  POST refuses. Both are about data the models leave out.

## 7. What is not modelled

* Discovery: a constant document per tenant.
* Password verification and hashing, JWT encoding and claims, PKCE digests, HTML: they decide
  whether a request is refused or what it shows, and a refused request changes no row.
* The errors the OP sends to the callback (`prompt=none`, bad parameters) and the callback's
  page for them: they read and write nothing.
* The 24 hours of an RP session and the expiry of a code before the RP redeems it: they only refuse
  more. The refresh tokens the RP stores are never used by it.
* The userinfo call of the RP's dashboard: it shows an error when it fails.
* `ClientAdmin` is not part of `Provider`: the OpenID endpoints read a client once per request, as a
  guard, and change none of its rows.
* The lists and forms of the management console: no state that outlives a page.
* Migrations, configuration, deployment files: no protocol of their own.
* The database: statements are atomic and their effects are seen by the next statement
  (read committed, one node).
