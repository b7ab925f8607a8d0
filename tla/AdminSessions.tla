---------------------------- MODULE AdminSessions ----------------------------
(***************************************************************************)
(* The sessions of the administrators: the table admin_sessions, the login,*)
(* logout and me endpoints, the middleware in front of the management API, *)
(* and the console in the browser, whose tabs share one session cookie.    *)
(*                                                                         *)
(* A call of a tab carries the cookie as it was when the call was sent; an *)
(* answer changes the cookie and the page when the browser hears it.  Both *)
(* may come long after another tab has logged in or out.  A tab that loads *)
(* a page abandons the call it has under way: the server still serves it,  *)
(* and the cookie of its answer may or may not be stored.  The tab waits   *)
(* for that answer, or for its loss, before it sends another such call.    *)
(*                                                                         *)
(* Who the administrator is changes nothing: a session is its own identity.*)
(* A definition D_How is D with the mistake How names.  No specification   *)
(* uses it: put in the place of D, it breaks a property below.             *)
(***************************************************************************)
EXTENDS Naturals

CONSTANTS
  Session,     \* primary keys of admin_sessions
  Tab,         \* tabs of one browser
  MayExpire,   \* bound: sessions whose expires_at may pass
  MaxFaults,   \* bound: failed statements, lost requests and lost answers
  MaxLoads,    \* bound: pages the administrator opens or reloads
  None

ASSUME BoundsAreTyped ==
  MayExpire \subseteq Session /\ None \notin Session /\ MaxFaults \in Nat /\ MaxLoads \in Nat

VARIABLES
  sessions,    \* the sessions that have a row
  revoked,     \* those with revoked_at set
  expired,     \* those whose expires_at has passed
  cookie,      \* op_admin_session in the browser
  page,        \* what each tab shows
  check,       \* the call to /auth/me each page sends when it is loaded
  call,        \* the other call each tab has under way
  loads, faults

table == <<sessions, revoked, expired>>
vars == <<sessions, revoked, expired, cookie, page, check, call, loads, faults>>

-----------------------------------------------------------------------------

Cookie == Session \cup {None}

(* "checking" is the console before the answer of /auth/me.                *)
Page == {"closed", "login", "checking", "console"}

NoCheck == [at |-> "none", sid |-> None, ok |-> FALSE]
Check == [at : {"none", "sent", "answered"}, sid : Cookie, ok : BOOLEAN]

(* sid is the cookie the call carries, or the one a login is answered with;*)
(* "admitted" is a management request that has passed the middleware; a    *)
(* call that is not awaited belongs to a page that is gone.                *)
NoCall == [kind |-> "none", at |-> "sent", sid |-> None, ok |-> FALSE, awaited |-> FALSE]
Call == [kind : {"none", "login", "logout", "manage"}, at : {"sent", "admitted", "answered"},
         sid : Cookie, ok : BOOLEAN, awaited : BOOLEAN]

TypeOK ==
  /\ sessions \subseteq Session
  /\ revoked \subseteq sessions /\ expired \subseteq sessions
  /\ cookie \in sessions \cup {None}
  /\ page \in [Tab -> Page]
  /\ check \in [Tab -> Check] /\ call \in [Tab -> Call]
  /\ \A t \in Tab : /\ check[t].sid \in sessions \cup {None}
                    /\ call[t].sid \in sessions \cup {None}
  /\ loads \in Nat /\ faults \in Nat

Init ==
  /\ sessions = {} /\ revoked = {} /\ expired = {}
  /\ cookie = None
  /\ page = [t \in Tab |-> "closed"]
  /\ check = [t \in Tab |-> NoCheck]
  /\ call = [t \in Tab |-> NoCall]
  /\ loads = 0 /\ faults = 0

-----------------------------------------------------------------------------
(* Helpers *)

Fault == faults < MaxFaults /\ faults' = faults + 1

IsValid_IgnoresRevocation(s) == s \in sessions /\ s \notin expired

IsValid(s) == s \in sessions /\ s \notin revoked /\ s \notin expired

(* A cookie that is missing, or names no row, is refused like a dead one.  *)
ValidateSession(sid) == IsValid(sid)

Answer(t, ok) == call' = [call EXCEPT ![t] = [@ EXCEPT !.at = "answered", !.ok = ok]]

Tell(t, ok) == check' = [check EXCEPT ![t] = [@ EXCEPT !.at = "answered", !.ok = ok]]

Ended(t) == call' = [call EXCEPT ![t] = NoCall]

(* A full page load: React starts afresh and asks /auth/me who is there;   *)
(* the call under way, if any, goes on without the page, as calls says.    *)
Load(t, path, sid, calls) ==
  /\ page' = [page EXCEPT ![t] = IF path = "login" THEN "login" ELSE "checking"]
  /\ check' = [check EXCEPT ![t] = [at |-> "sent", sid |-> sid, ok |-> FALSE]]
  /\ call' = calls

Abandoned(t) == [call EXCEPT ![t].awaited = FALSE]

-----------------------------------------------------------------------------
(* The administrator *)

OpenPage(t, path) ==
  /\ loads < MaxLoads /\ loads' = loads + 1
  /\ Load(t, path, cookie, Abandoned(t))
  /\ UNCHANGED <<table, cookie, faults>>

Send(t, kind, from) ==
  /\ page[t] = from /\ call[t].kind = "none"
  /\ call' = [call EXCEPT ![t] = [kind |-> kind, at |-> "sent", sid |-> cookie,
                                  ok |-> FALSE, awaited |-> TRUE]]
  /\ UNCHANGED <<table, cookie, page, check, loads, faults>>

(* The form is there while /auth/me has not answered yet.                  *)
SubmitLogin(t) == Send(t, "login", "login")
ClickLogout(t) == Send(t, "logout", "console")
Manage(t) == Send(t, "manage", "console")

-----------------------------------------------------------------------------
(* The server *)

(* Login, once the password has been verified: the insert of a session.    *)
(* last_login_at is written next; nothing reads it, an error is dropped.   *)
Login_ReusesASession(s) == sessions' = sessions \cup {s} /\ s \notin revoked \cup expired

Login(s) == s \notin sessions /\ sessions' = sessions \cup {s}

HandleLogin(t) ==
  /\ call[t].kind = "login" /\ call[t].at = "sent"
  /\ \E s \in Session :
       /\ Login(s)
       /\ call' = [call EXCEPT ![t] = [@ EXCEPT !.at = "answered", !.ok = TRUE, !.sid = s]]
  /\ UNCHANGED <<revoked, expired, cookie, page, check, loads, faults>>

(* An unknown or inactive administrator, a wrong password, a failed insert.*)
RefuseLogin(t) ==
  /\ call[t].kind = "login" /\ call[t].at = "sent"
  /\ Answer(t, FALSE)
  /\ UNCHANGED <<table, cookie, page, check, loads, faults>>

HandleMe(t) ==
  /\ check[t].at = "sent"
  /\ \/ Tell(t, ValidateSession(check[t].sid)) /\ UNCHANGED faults
     \/ Tell(t, FALSE) /\ Fault
  /\ UNCHANGED <<table, cookie, page, call, loads>>

(* `_ = RevokeSession(...)`: the answer is the same when it fails.         *)
RevokeSession_WithoutACookie(sid) ==
  \/ revoked' = revoked \cup {sid} /\ UNCHANGED faults
  \/ Fault /\ UNCHANGED revoked

RevokeSession(sid) ==
  \/ revoked' = revoked \cup ({sid} \cap sessions) /\ UNCHANGED faults
  \/ Fault /\ UNCHANGED revoked

HandleLogout_OnlyTheCookie(t) ==
  /\ call[t].kind = "logout" /\ call[t].at = "sent"
  /\ Answer(t, TRUE)
  /\ UNCHANGED <<table, cookie, page, check, loads, faults>>

HandleLogout(t) ==
  /\ call[t].kind = "logout" /\ call[t].at = "sent"
  /\ RevokeSession(call[t].sid)
  /\ Answer(t, TRUE)
  /\ UNCHANGED <<sessions, expired, cookie, page, check, loads>>

(* The middleware admits a management request or answers 401 ...           *)
AuthMiddleware(t) ==
  /\ call[t].kind = "manage" /\ call[t].at = "sent"
  /\ \/ /\ IF ValidateSession(call[t].sid) THEN call' = [call EXCEPT ![t].at = "admitted"]
                                           ELSE Answer(t, FALSE)
        /\ UNCHANGED faults
     \/ Fault /\ Answer(t, FALSE)
  /\ UNCHANGED <<table, cookie, page, check, loads>>

(* ... and the handler, which asks no more, does its work or fails.        *)
HandleManagement(t) ==
  /\ call[t].kind = "manage" /\ call[t].at = "admitted"
  /\ \/ Answer(t, TRUE) /\ UNCHANGED faults
     \/ Answer(t, FALSE) /\ Fault
  /\ UNCHANGED <<table, cookie, page, check, loads>>

-----------------------------------------------------------------------------
(* The browser hears an answer *)

(* checkAuth: setUser and setIsLoading, then what the guard of the page    *)
(* makes of them.  The console without a user goes to the login form; the  *)
(* form with a user goes to the console.                                   *)
CheckAuth(t, ok) ==
  IF page[t] = "login" /\ ok THEN Load(t, "console", cookie, Abandoned(t))
  ELSE IF page[t] = "checking" /\ ~ok THEN Load(t, "login", cookie, Abandoned(t))
  ELSE /\ page' = [page EXCEPT ![t] = IF @ = "checking" THEN "console" ELSE @]
       /\ check' = [check EXCEPT ![t] = NoCheck]
       /\ UNCHANGED call

HearMe(t) ==
  /\ check[t].at = "answered"
  /\ CheckAuth(t, check[t].ok)
  /\ UNCHANGED <<table, cookie, loads, faults>>

(* login() and the assignment of window.location that follows it.          *)
HearLogin_WithoutCredentials(t) ==
  /\ call[t].kind = "login" /\ call[t].at = "answered"
  /\ IF call[t].ok /\ call[t].awaited
     THEN Load(t, "console", cookie, [call EXCEPT ![t] = NoCall])
     ELSE Ended(t) /\ UNCHANGED <<page, check>>
  /\ UNCHANGED <<table, cookie, loads, faults>>

HearLogin(t) ==
  /\ call[t].kind = "login" /\ call[t].at = "answered"
  /\ \/ call[t].ok /\ cookie' = call[t].sid
     \/ ~(call[t].ok /\ call[t].awaited) /\ UNCHANGED cookie
  /\ IF call[t].ok /\ call[t].awaited
     THEN Load(t, "console", cookie', [call EXCEPT ![t] = NoCall])
     ELSE Ended(t) /\ UNCHANGED <<page, check>>
  /\ UNCHANGED <<table, loads, faults>>

(* logout() and the assignment of window.location that follows it.         *)
HearLogout(t) ==
  /\ call[t].kind = "logout" /\ call[t].at = "answered"
  /\ \/ cookie' = None
     \/ ~call[t].awaited /\ UNCHANGED cookie
  /\ IF call[t].awaited
     THEN Load(t, "login", cookie', [call EXCEPT ![t] = NoCall])
     ELSE Ended(t) /\ UNCHANGED <<page, check>>
  /\ UNCHANGED <<table, loads, faults>>

(* A result or an error message; a 401 is shown like any other error.      *)
HearManagement(t) ==
  /\ call[t].kind = "manage" /\ call[t].at = "answered"
  /\ Ended(t)
  /\ UNCHANGED <<table, cookie, page, check, loads, faults>>

-----------------------------------------------------------------------------
(* Time and failures *)

Expire(s) ==
  /\ s \in (MayExpire \cap sessions) \ expired
  /\ expired' = expired \cup {s}
  /\ UNCHANGED <<sessions, revoked, cookie, page, check, call, loads, faults>>

(* A request or an answer is lost, or the server stops while it serves the *)
(* call.  logout() ignores the error and the page leaves as if logged out. *)
LoseCall(t) ==
  /\ call[t].kind # "none" /\ Fault
  /\ IF call[t].kind = "logout" /\ call[t].awaited
     THEN Load(t, "login", cookie, [call EXCEPT ![t] = NoCall])
     ELSE Ended(t) /\ UNCHANGED <<page, check>>
  /\ UNCHANGED <<table, cookie, loads>>

LoseCheck(t) ==
  /\ check[t].at # "none" /\ Fault
  /\ CheckAuth(t, FALSE)
  /\ UNCHANGED <<table, cookie, loads>>

-----------------------------------------------------------------------------

Serve(t) ==
  \/ HandleLogin(t) \/ RefuseLogin(t) \/ HandleMe(t) \/ HandleLogout(t)
  \/ AuthMiddleware(t) \/ HandleManagement(t)

Hear(t) == HearMe(t) \/ HearLogin(t) \/ HearLogout(t) \/ HearManagement(t)

Administrator(t) ==
  \/ \E path \in {"login", "console"} : OpenPage(t, path)
  \/ SubmitLogin(t) \/ ClickLogout(t) \/ Manage(t)

Next ==
  \/ \E t \in Tab : Administrator(t) \/ Serve(t) \/ Hear(t) \/ LoseCall(t) \/ LoseCheck(t)
  \/ \E s \in Session : Expire(s)

Spec == Init /\ [][Next]_vars

ServeCall(t) ==
  HandleLogin(t) \/ RefuseLogin(t) \/ HandleLogout(t) \/ AuthMiddleware(t) \/ HandleManagement(t)

HearCall(t) == HearLogin(t) \/ HearLogout(t) \/ HearManagement(t)

(* The server serves every call that reaches it and the browser hears      *)
(* every answer; the administrator is obliged to nothing.                  *)
Scheduled(t) ==
  /\ WF_vars(ServeCall(t)) /\ WF_vars(HearCall(t))
  /\ WF_vars(HandleMe(t)) /\ WF_vars(HearMe(t))

Fairness == \A t \in Tab : Scheduled(t)

FairSpec == Spec /\ Fairness

(* No call waits for another one, at the server or in the browser.         *)
Unserved(t) == call[t].kind # "none" /\ call[t].at # "answered"
Unheard(t) == call[t].kind # "none" /\ call[t].at = "answered"

CallCanGoOn(t) ==
  /\ Unserved(t) => ENABLED <<ServeCall(t)>>_vars
  /\ Unheard(t) => ENABLED <<HearCall(t)>>_vars
  /\ check[t].at = "sent" => ENABLED <<HandleMe(t)>>_vars
  /\ check[t].at = "answered" => ENABLED <<HearMe(t)>>_vars

CallsNeverWait == \A t \in Tab : CallCanGoOn(t)

-----------------------------------------------------------------------------
(* Properties *)

Admits(s) == \E t \in Tab : call[t].at = "admitted" /\ call[t].sid = s

Over(s) == s \in revoked \cup expired /\ ~Admits(s)

(* The middleware looks at a session once and the handlers never again     *)
(* (middleware.go:18): a request it admitted may work on after a logout or *)
(* the expiry.  When the last of those is answered the session is over for *)
(* good: no cookie, tab or request brings it back to the management API.   *)
EndedSessionsStayOver == [][\A s \in Session : Over(s) => Over(s)']_vars

Unheld(s) ==
  /\ s \in sessions /\ cookie # s
  /\ \A t \in Tab : check[t].sid # s /\ call[t].sid # s

(* A login never revokes the session the browser had before, and a logout  *)
(* revokes only the one its own request carries: a session whose cookie    *)
(* was overwritten stays valid for its eight hours.  Nothing the server    *)
(* does, and no late answer, puts it back into the browser's hands.        *)
AbandonedSessionsAreInert == [][\A s \in Session : Unheld(s) => Unheld(s)']_vars

(* A login the server accepted brings its tab to the console, whatever the *)
(* other tabs are doing, whichever cookie they stored last, and whatever   *)
(* failed before, unless the administrator leaves the page first, somebody *)
(* logs out, a session ended or another call fails.                        *)
LoginsReachTheConsole ==
  \A n \in 0..MaxFaults, t \in Tab :
    (/\ call[t].kind = "login" /\ call[t].at = "answered" /\ call[t].ok /\ call[t].awaited
     /\ faults = n)
      ~> (\/ page[t] = "console"
          \/ call[t].kind = "login" /\ ~call[t].awaited
          \/ \E u \in Tab : call[u].kind = "logout"
          \/ revoked # {} \/ expired # {} \/ faults > n)

(* A logout the server receives ends the session the request carries, also *)
(* when the tab was closed over it or another tab logged in meanwhile, and *)
(* whatever failed before.  The answer says so in every case               *)
(* (auth_handler.go:114 drops the error): a statement that fails, or a     *)
(* request that is lost, from then on is the only exception.               *)
LogoutsEndTheSession ==
  \A n \in 0..MaxFaults, t \in Tab, s \in Session :
    (call[t].kind = "logout" /\ call[t].at = "sent" /\ call[t].sid = s /\ faults = n)
      ~> (~IsValid(s) \/ faults > n)

=============================================================================
