---------------------------- MODULE RelyingParty ----------------------------
(***************************************************************************)
(* The relying party and the front channel that leads to it: the login,    *)
(* callback and logout routes over the tables rp.users and rp.sessions,    *)
(* the browsers with the cookies their tabs share, and, of the provider,   *)
(* the login endpoint, the authorization endpoint and the code grant as a  *)
(* relying party sees them.                                                *)
(*                                                                         *)
(* One GET /api/auth/login draws a state, a nonce and a PKCE verifier and  *)
(* sets them as three cookies at once: together they are an attempt.  The  *)
(* callback route awaits the provider twice and the database up to three   *)
(* times; its cookies change when the browser gets its answer, if the tab  *)
(* still waits for it.                                                     *)
(*                                                                         *)
(* A definition D_How is D with the mistake How names.  No specification   *)
(* uses it: put in the place of D, it breaks a property below.             *)
(***************************************************************************)
EXTENDS Naturals

CONSTANTS
  Browser, Tab,
  Layouts,                   \* which tab may be of which browser
  User,                      \* the subjects of the provider
  Attempt,                   \* what the login route draws
  OpSession, Code,           \* primary keys at the provider
  RpUser, RpSession,         \* primary keys at the relying party
  Request,                   \* requests the relying party can serve at once
  MaxMishaps,                \* bound: faults (failed statements, lost answers, expired sessions,
                             \* codes and cookies, crashes) and callbacks abandoned for another
  None

ASSUME TabsAreTyped ==
  /\ Layouts \subseteq [Tab -> Browser]
  /\ MaxMishaps \in Nat
  /\ None \notin Attempt \cup OpSession \cup Code \cup RpSession \cup RpUser \cup Request

VARIABLES
  browserOf,    \* the browser of each tab
  opSessions,   \* the user of each session at the provider
  code,         \* the authorization codes
  used,         \* those with used_at set
  users,        \* rp.users: the op_sub of each row
  sessions,     \* rp.sessions
  revoked,      \* those with revoked_at set
  begun,        \* history: the browser each attempt was drawn for
  jar,          \* the cookies of each browser
  tab,          \* what each tab shows or waits for
  req,          \* what each request does next
  reloads, faults

opTables == <<opSessions, code, used>>
rpTables == <<users, sessions, revoked>>
vars == <<browserOf, opTables, rpTables, begun, jar, tab, req, reloads, faults>>

-----------------------------------------------------------------------------

CodeRow == [session : OpSession, attempt : Attempt]

(* code is history: the code the login was completed with.                 *)
SessionRow == [user : RpUser, code : Code]

(* oidc_state, oidc_nonce and oidc_code_verifier; op_session; rp_session.  *)
Jar == [temp : Attempt \cup {None}, op : OpSession \cup {None}, rp : RpSession \cup {None}]

(* The error page and the start page offer the same: a login.              *)
Page == {"home", "authorize", "loginPage", "callback", "waiting", "dashboard"}

TabState == [at : Page, attempt : Attempt \cup {None}, code : Code \cup {None},
             req : Request \cup {None}]

Home == [at |-> "home", attempt |-> None, code |-> None, req |-> None]

(* browser: the one that sent the request and its cookies; live: the       *)
(* access token the request got has not been revoked.                      *)
RequestState ==
  [pc : {"idle", "exchange", "redeem", "userinfo", "selectUser", "insertUser",
         "insertSession", "answer", "fail", "revoke", "cleared"},
   browser : Browser \cup {None}, expected : Attempt \cup {None},
   state : Attempt \cup {None}, code : Code \cup {None},
   live : BOOLEAN, user : RpUser \cup {None}, session : RpSession \cup {None}]

Idle == [pc |-> "idle", browser |-> None, expected |-> None, state |-> None, code |-> None,
         live |-> FALSE, user |-> None, session |-> None]

TypeOK ==
  /\ browserOf \in Layouts
  /\ DOMAIN opSessions \subseteq OpSession /\ \A s \in DOMAIN opSessions : opSessions[s] \in User
  /\ DOMAIN code \subseteq Code /\ \A k \in DOMAIN code : code[k] \in CodeRow
  /\ used \subseteq DOMAIN code
  /\ DOMAIN users \subseteq RpUser /\ \A u \in DOMAIN users : users[u] \in User
  /\ DOMAIN sessions \subseteq RpSession
  /\ \A s \in DOMAIN sessions : sessions[s] \in SessionRow /\ sessions[s].user \in DOMAIN users
  /\ revoked \subseteq DOMAIN sessions
  /\ DOMAIN begun \subseteq Attempt /\ \A a \in DOMAIN begun : begun[a] \in Browser
  /\ jar \in [Browser -> Jar] /\ \A b \in Browser : jar[b].rp \in DOMAIN sessions \cup {None}
  /\ tab \in [Tab -> TabState]
  /\ req \in [Request -> RequestState]
  /\ reloads \in Nat /\ faults \in Nat

Init ==
  /\ browserOf \in Layouts
  /\ opSessions = [s \in {} |-> None] /\ code = [k \in {} |-> None] /\ used = {}
  /\ users = [u \in {} |-> None] /\ sessions = [s \in {} |-> None] /\ revoked = {}
  /\ begun = [a \in {} |-> None]
  /\ jar = [b \in Browser |-> [temp |-> None, op |-> None, rp |-> None]]
  /\ tab = [t \in Tab |-> Home]
  /\ req = [r \in Request |-> Idle]
  /\ reloads = 0 /\ faults = 0

-----------------------------------------------------------------------------
(* Helpers *)

(* The key of the next row: keys are random, so which is drawn tells nothing. *)
Fresh(keys, table) ==
  LET unused == keys \ DOMAIN table IN {k \in unused : k = CHOOSE x \in unused : TRUE}

(* A request that does not run yet. *)
Unserved == LET idle == {r \in Request : req[r].pc = "idle"} IN
            {r \in idle : r = CHOOSE x \in idle : TRUE}

(* Who may log in: those who have, and one of the others, who are alike.   *)
Visitors ==
  LET seen == {opSessions[s] : s \in DOMAIN opSessions} IN
  {u \in User : u \in seen \/ u = CHOOSE x \in User \ seen : TRUE}

Insert(table, id, row) ==
  [x \in DOMAIN table \cup {id} |-> IF x = id THEN row ELSE table[x]]

Fault == faults + reloads < MaxMishaps /\ faults' = faults + 1 /\ UNCHANGED reloads

Subject(k) == opSessions[code[k].session]

Goto(r, pc) == req' = [req EXCEPT ![r] = [@ EXCEPT !.pc = pc]]

Show(t, page) == tab' = [tab EXCEPT ![t] = page]

SetCookie(b, cookies) == jar' = [jar EXCEPT ![b] = cookies]

-----------------------------------------------------------------------------
(* The browser and the provider *)

(* GET /api/auth/login: the cookies of an earlier attempt are overwritten. *)
ClickLogin(t) ==
  /\ tab[t].at = "home"
  /\ \E a \in Fresh(Attempt, begun) :
       /\ begun' = Insert(begun, a, browserOf[t])
       /\ SetCookie(browserOf[t], [jar[browserOf[t]] EXCEPT !.temp = a])
       /\ Show(t, [Home EXCEPT !.at = "authorize", !.attempt = a])
  /\ UNCHANGED <<browserOf, opTables, rpTables, req, reloads, faults>>

(* AuthorizeHandler: a code for the session of op_session, or the page     *)
(* that asks for a password and keeps the URL in redirect_after_login.     *)
(* The page also comes if the session has expired or been revoked.         *)
Authorize(t) ==
  LET s == jar[browserOf[t]].op IN
  /\ tab[t].at = "authorize"
  /\ \/ /\ Show(t, [tab[t] EXCEPT !.at = "loginPage"])
        /\ IF s = None THEN UNCHANGED <<reloads, faults>> ELSE Fault
        /\ UNCHANGED code
     \/ /\ s # None
        /\ UNCHANGED <<reloads, faults>>
        /\ \E k \in Fresh(Code, code) :
             /\ code' = Insert(code, k, [session |-> s, attempt |-> tab[t].attempt])
             /\ Show(t, [tab[t] EXCEPT !.at = "callback", !.code = k])
  /\ UNCHANGED <<browserOf, opSessions, used, rpTables, begun, jar, req>>

(* LoginHandler answers with a new op_session, and the page returns to the *)
(* authorization URL.  A refused password leaves everything as it is.      *)
SubmitLogin(t, u) ==
  /\ tab[t].at = "loginPage"
  /\ \E s \in Fresh(OpSession, opSessions) :
       /\ opSessions' = Insert(opSessions, s, u)
       /\ SetCookie(browserOf[t], [jar[browserOf[t]] EXCEPT !.op = s])
  /\ Show(t, [tab[t] EXCEPT !.at = "authorize"])
  /\ UNCHANGED <<browserOf, code, used, rpTables, begun, req, reloads, faults>>

(* The user goes back to the start page, which shows every visitor the     *)
(* link to the login; the cookies stay.                                    *)
Leave(t) ==
  /\ tab[t].at \in {"loginPage", "dashboard"}
  /\ Show(t, Home)
  /\ UNCHANGED <<browserOf, opTables, rpTables, begun, jar, req, reloads, faults>>

(* A tab opens the callback another tab was sent to: duplicated, restored, *)
(* passed on to another browser.                                           *)
Reopen(t, o) ==
  /\ tab[t].at = "home" /\ tab[o].at = "callback"
  /\ Show(t, tab[o])
  /\ UNCHANGED <<browserOf, opTables, rpTables, begun, jar, req, reloads, faults>>

(* A tab stops waiting and asks for the same callback again; the request   *)
(* it abandons goes on.                                                    *)
Reload(t) ==
  /\ tab[t].at = "waiting" /\ tab[t].code # None
  /\ faults + reloads < MaxMishaps /\ reloads' = reloads + 1 /\ UNCHANGED faults
  /\ Show(t, [tab[t] EXCEPT !.at = "callback", !.req = None])
  /\ UNCHANGED <<browserOf, opTables, rpTables, begun, jar, req>>

-----------------------------------------------------------------------------
(* GET /api/auth/callback *)

Expected_FromTheUrl(t) == tab[t].attempt

(* The values to check against are those of the cookies. *)
Expected(t) == jar[browserOf[t]].temp

Callback(t, r) ==
  /\ tab[t].at = "callback"
  /\ IF Expected(t) = None
       THEN Show(t, Home) /\ UNCHANGED req
       ELSE /\ r \in Unserved
            /\ req' = [req EXCEPT ![r] = [Idle EXCEPT
                 !.pc = "exchange", !.browser = browserOf[t], !.expected = Expected(t),
                 !.state = tab[t].attempt, !.code = tab[t].code]]
            /\ Show(t, [tab[t] EXCEPT !.at = "waiting", !.req = r])
  /\ UNCHANGED <<browserOf, opTables, rpTables, begun, jar, reloads, faults>>

(* authorizationCodeGrant compares the state before it sends the code; the *)
(* token endpoint looks the code up and compares the PKCE challenge.       *)
Acceptable(r) ==
  /\ req[r].expected = req[r].state
  /\ req[r].code \notin used
  /\ code[req[r].code].attempt = req[r].expected

Replayed_IgnoresTheState(r) == req[r].code \in used

(* A used code costs its session every token that has been issued.         *)
Replayed(r) == req[r].expected = req[r].state /\ req[r].code \in used

Exchange(r) ==
  /\ req[r].pc = "exchange"
  /\ req' = [o \in Request |->
       IF o = r THEN [req[r] EXCEPT !.pc = IF Acceptable(r) THEN "redeem" ELSE "fail"]
       ELSE [req[o] EXCEPT !.live =
               @ /\ ~(Replayed(r) /\ code[req[o].code].session = code[req[r].code].session)]]
  /\ UNCHANGED <<browserOf, opTables, rpTables, begun, jar, tab, reloads, faults>>

(* The code is marked used, whoever else has just looked it up, and the    *)
(* tokens are issued; the nonce of the ID token is the code's.             *)
Redeem(r) ==
  /\ req[r].pc = "redeem"
  /\ used' = used \cup {req[r].code}
  /\ req' = [req EXCEPT ![r] = [@ EXCEPT !.pc = "userinfo", !.live = TRUE]]
  /\ UNCHANGED <<browserOf, opSessions, code, rpTables, begun, jar, tab, reloads, faults>>

FetchUserInfo(r) ==
  /\ req[r].pc = "userinfo"
  /\ Goto(r, IF req[r].live THEN "selectUser" ELSE "fail")
  /\ UNCHANGED <<browserOf, opTables, rpTables, begun, jar, tab, reloads, faults>>

RowsOf(sub) == {u \in DOMAIN users : users[u] = sub}

(* upsertUser: a row that is found is updated, else one is inserted.       *)
SelectUser(r) ==
  LET found == RowsOf(Subject(req[r].code)) IN
  /\ req[r].pc = "selectUser"
  /\ req' = [req EXCEPT ![r] =
       IF found # {}
         THEN [@ EXCEPT !.pc = "insertSession", !.user = CHOOSE u \in found : TRUE]
         ELSE [@ EXCEPT !.pc = "insertUser"]]
  /\ UNCHANGED <<browserOf, opTables, rpTables, begun, jar, tab, reloads, faults>>

InsertUser_IgnoresTheConflict(r) ==
  LET sub == Subject(req[r].code) IN
  /\ req[r].pc = "insertUser"
  /\ \E u \in Fresh(RpUser, users) :
       /\ users' = IF RowsOf(sub) # {} THEN users ELSE Insert(users, u, sub)
       /\ req' = [req EXCEPT ![r] = [@ EXCEPT !.pc = "insertSession", !.user = u]]
  /\ UNCHANGED <<browserOf, opTables, sessions, revoked, begun, jar, tab, reloads, faults>>

(* op_sub is unique: the second insert of one subject is an error.         *)
InsertUser(r) ==
  LET sub == Subject(req[r].code) IN
  /\ req[r].pc = "insertUser"
  /\ IF RowsOf(sub) # {}
       THEN Goto(r, "fail") /\ UNCHANGED users
       ELSE \E u \in Fresh(RpUser, users) :
            /\ users' = Insert(users, u, sub)
            /\ req' = [req EXCEPT ![r] = [@ EXCEPT !.pc = "insertSession", !.user = u]]
  /\ UNCHANGED <<browserOf, opTables, sessions, revoked, begun, jar, tab, reloads, faults>>

CreateSession_ReusesTheRow(r) ==
  /\ req[r].pc = "insertSession"
  /\ \E s \in RpSession :
       /\ \/ s \notin DOMAIN sessions
          \/ s \in DOMAIN sessions /\ sessions[s].user = req[r].user
       /\ sessions' = Insert(sessions, s, [user |-> req[r].user, code |-> req[r].code])
       /\ req' = [req EXCEPT ![r] = [@ EXCEPT !.pc = "answer", !.session = s]]
  /\ UNCHANGED <<browserOf, opTables, users, revoked, begun, jar, tab, reloads, faults>>

CreateSession(r) ==
  /\ req[r].pc = "insertSession"
  /\ \E s \in Fresh(RpSession, sessions) :
       /\ sessions' = Insert(sessions, s, [user |-> req[r].user, code |-> req[r].code])
       /\ req' = [req EXCEPT ![r] = [@ EXCEPT !.pc = "answer", !.session = s]]
  /\ UNCHANGED <<browserOf, opTables, users, revoked, begun, jar, tab, reloads, faults>>

-----------------------------------------------------------------------------
(* POST /api/auth/logout, and the dashboard *)

Logout(t, r) ==
  LET s == jar[browserOf[t]].rp IN
  /\ tab[t].at = "dashboard" /\ r \in Unserved
  /\ req' = [req EXCEPT ![r] = [Idle EXCEPT !.pc = IF s = None THEN "cleared" ELSE "revoke",
                                            !.browser = browserOf[t], !.session = s]]
  /\ Show(t, [Home EXCEPT !.at = "waiting", !.req = r])
  /\ UNCHANGED <<browserOf, opTables, rpTables, begun, jar, reloads, faults>>

RevokeSession(r) ==
  /\ req[r].pc = "revoke"
  /\ revoked' = revoked \cup {req[r].session}
  /\ Goto(r, "cleared")
  /\ UNCHANGED <<browserOf, opTables, users, sessions, begun, jar, tab, reloads, faults>>

(* getSessionWithUser finds the row of the cookie, and it is not revoked.  *)
OpenDashboard(t) ==
  /\ tab[t].at = "home"
  /\ jar[browserOf[t]].rp \in DOMAIN sessions \ revoked
  /\ Show(t, [Home EXCEPT !.at = "dashboard"])
  /\ UNCHANGED <<browserOf, opTables, rpTables, begun, jar, req, reloads, faults>>

-----------------------------------------------------------------------------
(* Answers *)

(* What the answer of r makes of the cookies c.  The temporary ones are    *)
(* deleted on success and on failure, whichever attempt they are of by now.*)
Cookies(r, c) ==
  CASE req[r].pc = "answer" -> [c EXCEPT !.temp = None, !.rp = req[r].session]
    [] req[r].pc = "fail" -> [c EXCEPT !.temp = None]
    [] req[r].pc = "cleared" -> [c EXCEPT !.rp = None]

Hear(t, r) ==
  LET b == browserOf[t] IN
  /\ tab[t].at = "waiting" /\ tab[t].req = r
  /\ req[r].pc \in {"answer", "fail", "cleared"}
  /\ SetCookie(b, Cookies(r, jar[b]))
  /\ Show(t, IF req[r].pc = "answer" THEN [Home EXCEPT !.at = "dashboard"] ELSE Home)
  /\ req' = [req EXCEPT ![r] = Idle]
  /\ UNCHANGED <<browserOf, opTables, rpTables, begun, reloads, faults>>

Awaited(r) == \E t \in Tab : tab[t].at = "waiting" /\ tab[t].req = r

(* No tab waits for the answer any more: the browser may have stored its   *)
(* cookies all the same, or not.                                           *)
Drop(r) ==
  LET b == req[r].browser IN
  /\ req[r].pc \in {"answer", "fail", "cleared"} /\ ~Awaited(r)
  /\ SetCookie(b, Cookies(r, jar[b])) \/ UNCHANGED jar
  /\ req' = [req EXCEPT ![r] = Idle]
  /\ UNCHANGED <<browserOf, opTables, rpTables, begun, tab, reloads, faults>>

-----------------------------------------------------------------------------
(* Failures *)

(* A statement or a call to the provider fails, or the code has expired    *)
(* when the provider looks it up: the callback answers with the error      *)
(* page, the logout with a 500 that leaves the cookie.                     *)
AbortCallback(r) ==
  /\ req[r].pc \in {"exchange", "redeem", "userinfo", "selectUser", "insertUser", "insertSession"}
  /\ Fault
  /\ Goto(r, "fail")
  /\ UNCHANGED <<browserOf, opTables, rpTables, begun, jar, tab>>

(* The process stops, or the answer is lost: the tabs show an error.       *)
Crash ==
  /\ \E r \in Request : req[r].pc # "idle"
  /\ Fault
  /\ req' = [r \in Request |-> Idle]
  /\ tab' = [t \in Tab |-> IF tab[t].at = "waiting" THEN Home ELSE tab[t]]
  /\ UNCHANGED <<browserOf, opTables, rpTables, begun, jar>>

AbortLogout(t, r) ==
  /\ req[r].pc = "revoke" /\ tab[t].at = "waiting" /\ tab[t].req = r
  /\ Fault
  /\ req' = [req EXCEPT ![r] = Idle]
  /\ Show(t, Home)
  /\ UNCHANGED <<browserOf, opTables, rpTables, begun, jar>>

(* The temporary cookies outlive their five minutes. *)
ExpireTemp(b) ==
  /\ jar[b].temp # None
  /\ Fault
  /\ SetCookie(b, [jar[b] EXCEPT !.temp = None])
  /\ UNCHANGED <<browserOf, opTables, rpTables, begun, tab, req>>

-----------------------------------------------------------------------------

Serve(r) ==
  \/ Exchange(r) \/ Redeem(r) \/ FetchUserInfo(r)
  \/ SelectUser(r) \/ InsertUser(r) \/ CreateSession(r)
  \/ RevokeSession(r)
  \/ Drop(r) \/ \E t \in Tab : Hear(t, r)

Follow(t) == \E r \in Request : Callback(t, r)

Next ==
  \/ \E t \in Tab :
       \/ ClickLogin(t) \/ Authorize(t) \/ Reload(t) \/ Leave(t) \/ OpenDashboard(t) \/ Follow(t)
       \/ \E u \in Visitors : SubmitLogin(t, u)
       \/ \E o \in Tab : Reopen(t, o)
       \/ \E r \in Request : Logout(t, r) \/ AbortLogout(t, r)
  \/ \E r \in Request : Serve(r) \/ AbortCallback(r)
  \/ \E b \in Browser : ExpireTemp(b)
  \/ Crash

Spec == Init /\ [][Next]_vars

(* A browser follows redirects and the server goes on with what it serves; *)
(* nobody has to click.                                                    *)
Follows(t) == WF_vars(Authorize(t)) /\ WF_vars(Follow(t))
Scheduled(r) == WF_vars(Serve(r))

Fairness == (\A t \in Tab : Follows(t)) /\ (\A r \in Request : Scheduled(r))

FairSpec == Spec /\ Fairness

(* There is room for one request more, and keys for the rows it inserts:   *)
(* then no step of a callback waits for anything but itself.               *)
AllAwaited == \A r \in Request : req[r].pc # "idle" => Awaited(r)

KeysLeft == RpUser \ DOMAIN users # {} /\ RpSession \ DOMAIN sessions # {}

CanFollow(t) == tab[t].at = "callback" /\ AllAwaited => ENABLED <<Follow(t)>>_vars

CanContinue(r) == req[r].pc # "idle" /\ KeysLeft => ENABLED <<Serve(r)>>_vars

CallbacksNeverWait == (\A t \in Tab : CanFollow(t)) /\ (\A r \in Request : CanContinue(r))

-----------------------------------------------------------------------------
(* Properties *)

(* The session a browser holds comes from a login begun in that browser,   *)
(* and its user is the one who was logged in at the provider when the code *)
(* was issued: no mixture of tabs, reloads, shared addresses and answers   *)
(* that come late puts a browser into the session of another login         *)
(* (callback/route.ts:26-60).                                              *)
SessionsComeFromOwnLogins ==
  \A b \in Browser : jar[b].rp # None =>
    LET s == sessions[jar[b].rp] IN
    /\ begun[code[s.code].attempt] = b
    /\ users[s.user] = Subject(s.code)

(* A session whose cookie never arrived, was overwritten by another login  *)
(* or was cleared by a logout that came late is never shown again: nothing *)
(* revokes it, but nothing uses it either.                                 *)
Abandoned(s) ==
  /\ s \in DOMAIN sessions
  /\ \A b \in Browser : jar[b].rp # s
  /\ \A r \in Request : req[r].pc = "answer" => req[r].session # s

AbandonedSessionsAreInert == [][\A s \in RpSession : Abandoned(s) => Abandoned(s)']_vars

(* What may keep the callback with code k from its session: another tab of *)
(* the browser on its way through a login, whose cookies interfere, or a   *)
(* request the tab has abandoned;                                          *)
Disturbed(k) ==
  \E t \in Tab : tab[t].code = k /\
    \/ \E o \in Tab \ {t} : browserOf[o] = browserOf[t] /\ tab[o].at \notin {"home", "dashboard"}
    \/ \E r \in Request : req[r].pc # "idle" /\ ~Awaited(r)

(* the first login of a subject, overtaken by another one of the same      *)
(* subject between the SELECT and the INSERT (user.ts:15, :35);            *)
Overtaken(k) ==
  \E r \in Request : /\ req[r].pc = "insertUser" /\ req[r].code = k
                     /\ RowsOf(Subject(k)) # {}

(* another used code of the same session, presented again, which revokes   *)
(* the tokens of k too (token_authcode.go:47).                             *)
HitByAReplay(k) ==
  k \in used /\ \E r \in Request :
    /\ req[r].pc = "exchange" /\ req[r].state = req[r].expected /\ req[r].code \in used
    /\ code[req[r].code].session = code[k].session

(* k returns, unredeemed, to the browser whose newest attempt it answers.  *)
Returned(k) ==
  /\ k \notin used
  /\ \E t \in Tab : /\ tab[t].at = "callback" /\ tab[t].code = k
                   /\ jar[browserOf[t]].temp = code[k].attempt

Shown(k) ==
  \E t \in Tab : tab[t].at = "dashboard" /\ \E s \in DOMAIN sessions :
    jar[browserOf[t]].rp = s /\ sessions[s].code = k

(* A code that returns, unredeemed, to the browser whose newest attempt it *)
(* answers ends in a session of that login, shown in a tab, if no fault    *)
(* and none of the above gets in between (callback/route.ts:26-82).  What  *)
(* failed before does not matter: a login begun anew after a callback that *)
(* broke off at any of its statements succeeds.                            *)
LoginsSucceed ==
  \A k \in Code, n \in 0..MaxMishaps : (Returned(k) /\ faults = n) ~>
    (Shown(k) \/ Disturbed(k) \/ Overtaken(k) \/ HitByAReplay(k) \/ faults > n)

=============================================================================
