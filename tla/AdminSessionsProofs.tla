------------------------- MODULE AdminSessionsProofs -------------------------
(***************************************************************************)
(* Theorems about AdminSessions, for every set of sessions and tabs and    *)
(* every bound on expiries, faults and page loads.                         *)
(***************************************************************************)
EXTENDS AdminSessions, TLAPS

USE BoundsAreTyped

-----------------------------------------------------------------------------
(* Pages, loaded with a cookie the browser has.                            *)

Typed(calls) ==
  /\ calls \in [Tab -> Call]
  /\ \A t \in Tab : calls[t].sid \in sessions \cup {None}

(* Loading a page keeps the types, if the calls that go on are typed.      *)
LEMMA LoadIsTyped ==
  ASSUME TypeOK, NEW t \in Tab, NEW path, NEW sid \in sessions \cup {None}, NEW calls,
         Load(t, path, sid, calls), Typed(calls)
  PROVE  /\ page' \in [Tab -> Page]
         /\ check' \in [Tab -> Check] /\ \A u \in Tab : check'[u].sid \in sessions \cup {None}
         /\ Typed(call')
PROOF
  <1>1. page' \in [Tab -> Page]
    BY DEF Load, TypeOK, Page
  <1>2. sid \in Cookie
    BY DEF TypeOK, Cookie
  <1>3. check' \in [Tab -> Check] /\ \A u \in Tab : check'[u].sid \in sessions \cup {None}
    BY <1>2 DEF Load, TypeOK, Check
  <1> QED BY <1>1, <1>3 DEF Load

(* So does replacing one tab's call by one that is typed.                  *)
LEMMA EntryIsTyped ==
  ASSUME TypeOK, NEW t \in Tab, NEW c \in Call, c.sid \in sessions \cup {None}
  PROVE  Typed([call EXCEPT ![t] = c])
PROOF
  <1>1. [call EXCEPT ![t] = c] \in [Tab -> Call]
    BY DEF TypeOK
  <1>2. \A u \in Tab : [call EXCEPT ![t] = c][u].sid \in sessions \cup {None}
    BY DEF TypeOK
  <1> QED BY <1>1, <1>2 DEF Typed

LEMMA CallsAreTyped ==
  ASSUME TypeOK
  PROVE  Typed(call) /\ \A t \in Tab : Typed(Abandoned(t)) /\ Typed([call EXCEPT ![t] = NoCall])
PROOF
  <1>1. NoCall \in Call /\ NoCall.sid = None
    BY DEF NoCall, Call, Cookie
  <1>2. Typed(call)
    BY DEF TypeOK, Typed
  <1>3. ASSUME NEW t \in Tab PROVE Typed(Abandoned(t))
    <2>1. Abandoned(t) \in [Tab -> Call]
      BY DEF TypeOK, Abandoned, Call
    <2>2. \A u \in Tab : Abandoned(t)[u].sid \in sessions \cup {None}
      BY DEF TypeOK, Abandoned, Call
    <2> QED BY <2>1, <2>2 DEF Typed
  <1>4. ASSUME NEW t \in Tab PROVE Typed([call EXCEPT ![t] = NoCall])
    BY <1>1, EntryIsTyped
  <1> QED BY <1>2, <1>3, <1>4

LEMMA AnswersAreTyped ==
  ASSUME TypeOK, NEW t \in Tab, NEW ok \in BOOLEAN, Answer(t, ok)
  PROVE  Typed(call')
PROOF
  <1> DEFINE c == [call[t] EXCEPT !.at = "answered", !.ok = ok]
  <1>1. c \in Call /\ c.sid = call[t].sid
    BY DEF TypeOK, Call
  <1>2. call[t].sid \in sessions \cup {None}
    BY DEF TypeOK
  <1>3. call' = [call EXCEPT ![t] = c]
    BY DEF Answer
  <1> HIDE DEF c
  <1> QED BY <1>1, <1>2, <1>3, EntryIsTyped

(* An answer of /auth/me, whatever it says, keeps the types.               *)
LEMMA CheckAuthIsTyped ==
  ASSUME TypeOK, NEW t \in Tab, NEW ok \in BOOLEAN, CheckAuth(t, ok),
         UNCHANGED <<table, cookie, loads>>, faults' \in Nat
  PROVE  TypeOK'
PROOF
  <1>1. cookie \in sessions \cup {None}
    BY DEF TypeOK
  <1>2. CASE page[t] = "login" /\ ok
    <2>1. Load(t, "console", cookie, Abandoned(t))
      BY <1>2 DEF CheckAuth
    <2> QED BY <1>1, <2>1, LoadIsTyped, CallsAreTyped DEF TypeOK, Typed, table
  <1>3. CASE page[t] = "checking" /\ ~ok
    <2>1. Load(t, "login", cookie, Abandoned(t))
      BY <1>3 DEF CheckAuth
    <2> QED BY <1>1, <2>1, LoadIsTyped, CallsAreTyped DEF TypeOK, Typed, table
  <1>4. CASE ~(page[t] = "login" /\ ok) /\ ~(page[t] = "checking" /\ ~ok)
    <2>1. /\ page' = [page EXCEPT ![t] = IF @ = "checking" THEN "console" ELSE @]
          /\ check' = [check EXCEPT ![t] = NoCheck]
          /\ UNCHANGED call
      BY <1>4 DEF CheckAuth
    <2>2. NoCheck \in Check /\ NoCheck.sid = None
      BY DEF NoCheck, Check, Cookie
    <2> QED BY <2>1, <2>2 DEF TypeOK, Page, table
  <1> QED BY <1>2, <1>3, <1>4

-----------------------------------------------------------------------------
(* The types *)

LEMMA NextTypeOK ==
  ASSUME TypeOK, [Next]_vars
  PROVE  TypeOK'
PROOF
  <1> USE DEF table
  <1> DEFINE PagesOK == /\ page' \in [Tab -> Page] /\ check' \in [Tab -> Check]
                        /\ \A u \in Tab : check'[u].sid \in sessions \cup {None}
             RowsOK == /\ UNCHANGED table /\ cookie' \in sessions \cup {None}
                       /\ loads' \in Nat /\ faults' \in Nat
  <1>0. /\ cookie \in sessions \cup {None} /\ loads \in Nat /\ faults \in Nat
        /\ page \in [Tab -> Page] /\ check \in [Tab -> Check]
        /\ \A u \in Tab : check[u].sid \in sessions \cup {None}
    BY DEF TypeOK
  <1>a. ASSUME PagesOK, RowsOK, Typed(call') PROVE TypeOK'
    BY <1>a DEF TypeOK, Typed
  <1>b. UNCHANGED <<page, check>> => PagesOK
    BY <1>0
  <1> HIDE DEF PagesOK
  <1>c. ASSUME NEW t \in Tab, NEW path, NEW sid \in sessions \cup {None}, NEW calls,
               Load(t, path, sid, calls), Typed(calls)
        PROVE  PagesOK /\ Typed(call')
    BY <1>c, LoadIsTyped DEF PagesOK
  <1>1. ASSUME NEW t \in Tab, NEW path, OpenPage(t, path) PROVE TypeOK'
    <2>1. Load(t, path, cookie, Abandoned(t)) /\ RowsOK
      BY <1>0, <1>1 DEF OpenPage
    <2> QED BY <1>0, <1>a, <1>c, <2>1, CallsAreTyped
  <1>2. ASSUME NEW t \in Tab, SubmitLogin(t) \/ ClickLogout(t) \/ Manage(t) PROVE TypeOK'
    <2>1. PICK kind \in {"login", "logout", "manage"} : \E from : Send(t, kind, from)
      BY <1>2 DEF SubmitLogin, ClickLogout, Manage
    <2> DEFINE c == [kind |-> kind, at |-> "sent", sid |-> cookie, ok |-> FALSE, awaited |-> TRUE]
    <2>2. c \in Call /\ c.sid = cookie
      BY <1>0 DEF Call, Cookie, TypeOK
    <2>3. call' = [call EXCEPT ![t] = c] /\ RowsOK /\ UNCHANGED <<page, check>>
      BY <1>0, <2>1 DEF Send
    <2> HIDE DEF c
    <2> QED BY <1>0, <1>a, <1>b, <2>2, <2>3, EntryIsTyped
  <1>3. ASSUME NEW t \in Tab, HandleLogin(t) PROVE TypeOK'
    <2>1. PICK s \in Session :
            /\ sessions' = sessions \cup {s}
            /\ call' = [call EXCEPT ![t] = [@ EXCEPT !.at = "answered", !.ok = TRUE, !.sid = s]]
      BY <1>3 DEF HandleLogin, Login
    <2> DEFINE c == [call[t] EXCEPT !.at = "answered", !.ok = TRUE, !.sid = s]
    <2>2. c \in Call /\ c.sid = s
      BY DEF TypeOK, Call, Cookie
    <2>3. call' = [call EXCEPT ![t] = c]
      BY <2>1
    <2> HIDE DEF c
    <2>4. call' \in [Tab -> Call] /\ \A u \in Tab : call'[u].sid \in sessions' \cup {None}
      BY <2>1, <2>2, <2>3 DEF TypeOK
    <2>5. UNCHANGED <<revoked, expired, cookie, page, check, loads, faults>>
      BY <1>3 DEF HandleLogin
    <2> QED BY <2>1, <2>4, <2>5 DEF TypeOK
  <1>4. ASSUME NEW t \in Tab, RefuseLogin(t) PROVE TypeOK'
    BY <1>0, <1>a, <1>b, <1>4, AnswersAreTyped DEF RefuseLogin
  <1>5. ASSUME NEW t \in Tab, HandleMe(t) PROVE TypeOK'
    <2>1. PICK ok \in BOOLEAN : Tell(t, ok)
      BY <1>5 DEF HandleMe, ValidateSession, IsValid
    <2> DEFINE c == [check[t] EXCEPT !.at = "answered", !.ok = ok]
    <2>2. c \in Check /\ c.sid = check[t].sid
      BY <1>0 DEF Check
    <2>3. check' = [check EXCEPT ![t] = c]
      BY <2>1 DEF Tell
    <2> HIDE DEF c
    <2>4. check' \in [Tab -> Check] /\ \A u \in Tab : check'[u].sid \in sessions \cup {None}
      BY <1>0, <2>2, <2>3
    <2>5. PagesOK
      BY <1>0, <1>5, <2>4 DEF HandleMe, PagesOK
    <2>6. RowsOK /\ UNCHANGED call
      BY <1>0, <1>5 DEF HandleMe, Fault, Tell, ValidateSession, IsValid
    <2>7. Typed(call')
      BY <2>6, CallsAreTyped DEF Typed
    <2> QED BY <1>a, <2>5, <2>6, <2>7
  <1>6. ASSUME NEW t \in Tab, HandleLogout(t) PROVE TypeOK'
    <2>1. revoked' \subseteq sessions /\ UNCHANGED <<sessions, expired, cookie, page, check, loads>>
      BY <1>6 DEF HandleLogout, RevokeSession, TypeOK
    <2>2. faults' \in Nat
      BY <1>0, <1>6 DEF HandleLogout, RevokeSession, Fault
    <2>3. Typed(call')
      BY <1>6, AnswersAreTyped DEF HandleLogout
    <2> QED BY <2>1, <2>2, <2>3 DEF TypeOK, Typed
  <1>7. ASSUME NEW t \in Tab, AuthMiddleware(t) PROVE TypeOK'
    <2>1. RowsOK /\ UNCHANGED <<page, check>>
      BY <1>0, <1>7 DEF AuthMiddleware, Fault, Answer, ValidateSession, IsValid
    <2>2. CASE call' = [call EXCEPT ![t].at = "admitted"]
      <3>1. call' \in [Tab -> Call]
        BY <2>2 DEF TypeOK, Call
      <3>2. \A u \in Tab : call'[u].sid \in sessions \cup {None}
        BY <2>2 DEF TypeOK, Call
      <3>3. Typed(call')
        BY <3>1, <3>2 DEF Typed
      <3> QED BY <1>a, <1>b, <2>1, <3>3
    <2>3. CASE Answer(t, FALSE)
      BY <1>a, <1>b, <2>1, <2>3, AnswersAreTyped
    <2>4. call' = [call EXCEPT ![t].at = "admitted"] \/ Answer(t, FALSE)
      BY <1>7 DEF AuthMiddleware, Answer, ValidateSession, IsValid
    <2> QED BY <2>2, <2>3, <2>4, Zenon
  <1>8. ASSUME NEW t \in Tab, HandleManagement(t) PROVE TypeOK'
    <2>1. RowsOK /\ UNCHANGED <<page, check>>
      BY <1>0, <1>8 DEF HandleManagement, Fault, Answer
    <2>2. \E ok \in BOOLEAN : Answer(t, ok)
      BY <1>8 DEF HandleManagement, Answer
    <2> QED BY <1>a, <1>b, <2>1, <2>2, AnswersAreTyped
  <1>9. ASSUME NEW t \in Tab, HearMe(t) PROVE TypeOK'
    <2>1. check[t].ok \in BOOLEAN
      BY <1>0 DEF Check
    <2> QED BY <1>0, <1>9, <2>1, CheckAuthIsTyped DEF HearMe
  <1>10. ASSUME NEW t \in Tab, HearLogin(t) \/ HearLogout(t) PROVE TypeOK'
    <2>1. cookie' \in sessions \cup {None} /\ RowsOK
      BY <1>0, <1>10 DEF HearLogin, HearLogout, TypeOK
    <2>2. CASE \E path : Load(t, path, cookie', [call EXCEPT ![t] = NoCall])
      BY <1>a, <1>c, <2>1, <2>2, CallsAreTyped
    <2>3. CASE Ended(t) /\ UNCHANGED <<page, check>>
      BY <1>a, <1>b, <2>1, <2>3, CallsAreTyped DEF Ended
    <2> QED BY <1>10, <2>2, <2>3 DEF HearLogin, HearLogout
  <1>11. ASSUME NEW t \in Tab, HearManagement(t) PROVE TypeOK'
    BY <1>0, <1>a, <1>b, <1>11, CallsAreTyped DEF HearManagement, Ended
  <1>12. ASSUME NEW s \in Session, Expire(s) PROVE TypeOK'
    BY <1>12 DEF Expire, TypeOK
  <1>13. ASSUME NEW t \in Tab, LoseCall(t) PROVE TypeOK'
    <2>1. RowsOK
      BY <1>0, <1>13 DEF LoseCall, Fault
    <2>2. CASE Load(t, "login", cookie, [call EXCEPT ![t] = NoCall])
      BY <1>0, <1>a, <1>c, <2>1, <2>2, CallsAreTyped
    <2>3. CASE Ended(t) /\ UNCHANGED <<page, check>>
      BY <1>a, <1>b, <2>1, <2>3, CallsAreTyped DEF Ended
    <2> QED BY <1>13, <2>2, <2>3 DEF LoseCall
  <1>14. ASSUME NEW t \in Tab, LoseCheck(t) PROVE TypeOK'
    <2>1. CheckAuth(t, FALSE) /\ UNCHANGED <<table, cookie, loads>> /\ Fault
      BY <1>14, Zenon DEF LoseCheck
    <2>2. faults' \in Nat
      BY <1>0, <2>1 DEF Fault
    <2> QED BY <2>1, <2>2, CheckAuthIsTyped, Zenon
  <1>15. CASE UNCHANGED vars
    BY <1>15 DEF vars, TypeOK
  <1> QED BY <1>1, <1>2, <1>3, <1>4, <1>5, <1>6, <1>7, <1>8, <1>9, <1>10, <1>11, <1>12, <1>13,
             <1>14, <1>15 DEF Next, Administrator, Serve, Hear

(* The rows stay rows, and whatever session a cookie, a check or a call    *)
(* carries has one.                                                        *)
THEOREM TypeCorrect == Spec => []TypeOK
PROOF
  <1>1. Init => TypeOK
    BY DEF Init, TypeOK, NoCheck, NoCall, Page, Check, Call, Cookie
  <1> QED BY <1>1, NextTypeOK, PTL DEF Spec

-----------------------------------------------------------------------------
(* Sessions that are over *)

(* A page that loads admits nothing.                                       *)
LEMMA LoadAdmitsNothing ==
  ASSUME TypeOK, NEW t \in Tab, NEW s \in Session, ~Admits(s),
         \/ call' = Abandoned(t)
         \/ call' = [call EXCEPT ![t] = NoCall]
         \/ UNCHANGED call
  PROVE  ~Admits(s)'
PROOF BY DEF TypeOK, Call, Abandoned, NoCall, Admits

LEMMA NextStaysOver ==
  ASSUME TypeOK, [Next]_vars, NEW s \in Session, Over(s)
  PROVE  Over(s)'
PROOF
  <1> USE DEF table, Over
  <1>1. ASSUME revoked \subseteq revoked', expired \subseteq expired', ~Admits(s)'
        PROVE  Over(s)'
    BY <1>1
  <1>2. ASSUME NEW t \in Tab, NEW path, OpenPage(t, path) PROVE Over(s)'
    BY <1>1, <1>2, LoadAdmitsNothing DEF OpenPage, Load
  <1>3. ASSUME NEW t \in Tab, SubmitLogin(t) \/ ClickLogout(t) \/ Manage(t) PROVE Over(s)'
    <2>1. ~Admits(s)'
      BY <1>3 DEF SubmitLogin, ClickLogout, Manage, Send, Admits, TypeOK, Call
    <2> QED BY <1>1, <1>3, <2>1 DEF SubmitLogin, ClickLogout, Manage, Send
  <1>4. ASSUME NEW t \in Tab, HandleLogin(t) \/ RefuseLogin(t) \/ HandleLogout(t) \/ HandleManagement(t)
        PROVE  Over(s)'
    <2>0. \E ok \in BOOLEAN : \E sid :
            call' = [call EXCEPT ![t] = [@ EXCEPT !.at = "answered", !.ok = ok, !.sid = sid]]
      <3>1. CASE HandleLogin(t)
        BY <3>1 DEF HandleLogin
      <3>2. CASE \E ok \in BOOLEAN : Answer(t, ok)
        <4>1. \A ok \in BOOLEAN :
                [call[t] EXCEPT !.at = "answered", !.ok = ok]
                  = [call[t] EXCEPT !.at = "answered", !.ok = ok, !.sid = call[t].sid]
          BY DEF TypeOK, Call
        <4> QED BY <3>2, <4>1 DEF Answer
      <3> QED BY <1>4, <3>1, <3>2 DEF RefuseLogin, HandleLogout, HandleManagement
    <2>1. ~Admits(s)'
      BY <2>0 DEF TypeOK, Call, Admits
    <2> QED BY <1>1, <1>4, <2>1
         DEF HandleLogin, Login, RefuseLogin, HandleLogout, RevokeSession, HandleManagement
  <1>5. ASSUME NEW t \in Tab, AuthMiddleware(t) PROVE Over(s)'
    <2>1. CASE call' = [call EXCEPT ![t].at = "admitted"] /\ ValidateSession(call[t].sid)
      <3>1. call[t].sid # s
        BY <2>1 DEF ValidateSession, IsValid
      <3>2. ~Admits(s)'
        BY <2>1, <3>1 DEF Admits, TypeOK, Call
      <3> QED BY <1>1, <1>5, <3>2 DEF AuthMiddleware
    <2>2. CASE Answer(t, FALSE)
      <3>1. ~Admits(s)'
        BY <2>2 DEF Answer, Admits, TypeOK, Call
      <3> QED BY <1>1, <1>5, <3>1 DEF AuthMiddleware
    <2> QED BY <1>5, <2>1, <2>2 DEF AuthMiddleware
  <1>6. ASSUME NEW t \in Tab, HandleMe(t) PROVE Over(s)'
    BY <1>1, <1>6, LoadAdmitsNothing DEF HandleMe
  <1>7. ASSUME NEW t \in Tab, HearMe(t) \/ LoseCheck(t) PROVE Over(s)'
    BY <1>1, <1>7, LoadAdmitsNothing DEF HearMe, LoseCheck, CheckAuth, Load
  <1>8. ASSUME NEW t \in Tab, HearLogin(t) \/ HearLogout(t) \/ HearManagement(t) \/ LoseCall(t)
        PROVE  Over(s)'
    BY <1>1, <1>8, LoadAdmitsNothing DEF HearLogin, HearLogout, HearManagement, LoseCall, Ended, Load
  <1>9. ASSUME NEW u \in Session, Expire(u) PROVE Over(s)'
    BY <1>1, <1>9 DEF Expire, Admits
  <1>10. CASE UNCHANGED vars
    BY <1>1, <1>10 DEF vars, Admits
  <1> QED BY <1>2, <1>3, <1>4, <1>5, <1>6, <1>7, <1>8, <1>9, <1>10
          DEF Next, Administrator, Serve, Hear

(* Once a logout or the expiry has ended a session and the last request the*)
(* middleware admitted under it is answered, no request is admitted under  *)
(* it again (middleware.go:18).                                            *)
THEOREM EndedSessions == Spec => EndedSessionsStayOver
PROOF
  <1>1. ASSUME TypeOK, [Next]_vars PROVE \A s \in Session : Over(s) => Over(s)'
    BY <1>1, NextStaysOver
  <1> QED BY <1>1, TypeCorrect, PTL DEF Spec, EndedSessionsStayOver

-----------------------------------------------------------------------------
(* Sessions no browser holds *)

LEMMA LoadTakesTheCookie ==
  ASSUME TypeOK, NEW t \in Tab, NEW path, NEW s \in Session, Unheld(s),
         NEW calls, Load(t, path, cookie', calls),
         cookie' # s, s \in sessions',
         calls = Abandoned(t) \/ calls = [call EXCEPT ![t] = NoCall]
  PROVE  Unheld(s)'
PROOF
  <1>1. s # None
    OBVIOUS
  <1>2. \A u \in Tab : check'[u].sid # s
    BY DEF TypeOK, Check, Load, Unheld
  <1>3. \A u \in Tab : call'[u].sid # s
    BY <1>1 DEF TypeOK, Call, Load, Unheld, Abandoned, NoCall
  <1> QED BY <1>2, <1>3 DEF Unheld

LEMMA NextStaysUnheld ==
  ASSUME TypeOK, [Next]_vars, NEW s \in Session, Unheld(s)
  PROVE  Unheld(s)'
PROOF
  <1> USE DEF table
  <1>0. s # None /\ s \in sessions /\ cookie # s
    BY DEF Unheld
  <1>1. ASSUME NEW t \in Tab, NEW path, OpenPage(t, path) PROVE Unheld(s)'
    BY <1>0, <1>1, LoadTakesTheCookie DEF OpenPage
  <1>2. ASSUME NEW t \in Tab, SubmitLogin(t) \/ ClickLogout(t) \/ Manage(t) PROVE Unheld(s)'
    BY <1>2 DEF SubmitLogin, ClickLogout, Manage, Send, Unheld, TypeOK, Call
  <1>3. ASSUME NEW t \in Tab, HandleLogin(t) PROVE Unheld(s)'
    BY <1>0, <1>3 DEF HandleLogin, Login, Unheld, TypeOK, Call
  <1>4. ASSUME NEW t \in Tab,
               RefuseLogin(t) \/ HandleLogout(t) \/ AuthMiddleware(t) \/ HandleManagement(t)
        PROVE  Unheld(s)'
    <2>1. UNCHANGED <<sessions, cookie, check>>
      BY <1>4 DEF RefuseLogin, HandleLogout, AuthMiddleware, HandleManagement
    <2>2. CASE \E ok : Answer(t, ok)
      BY <2>1, <2>2 DEF Answer, Unheld, TypeOK, Call
    <2>3. CASE call' = [call EXCEPT ![t].at = "admitted"]
      BY <2>1, <2>3 DEF Unheld, TypeOK, Call
    <2> QED BY <1>4, <2>2, <2>3
         DEF RefuseLogin, HandleLogout, AuthMiddleware, HandleManagement
  <1>5. ASSUME NEW t \in Tab, HandleMe(t) PROVE Unheld(s)'
    <2>1. \E ok : check' = [check EXCEPT ![t] = [@ EXCEPT !.at = "answered", !.ok = ok]]
      BY <1>5 DEF HandleMe, Tell
    <2> QED BY <1>5, <2>1 DEF HandleMe, Unheld, TypeOK, Check
  <1>6. ASSUME NEW t \in Tab, NEW ok, CheckAuth(t, ok), UNCHANGED <<sessions, cookie>>
        PROVE  Unheld(s)'
    <2>1. CASE \E path : Load(t, path, cookie, Abandoned(t))
      BY <1>0, <1>6, <2>1, LoadTakesTheCookie
    <2>2. CASE check' = [check EXCEPT ![t] = NoCheck] /\ UNCHANGED call
      BY <1>0, <1>6, <2>2 DEF Unheld, TypeOK, NoCheck
    <2> QED BY <1>6, <2>1, <2>2 DEF CheckAuth
  <1>7. ASSUME NEW t \in Tab, HearMe(t) \/ LoseCheck(t) PROVE Unheld(s)'
    BY <1>6, <1>7 DEF HearMe, LoseCheck
  <1>8. ASSUME NEW t \in Tab, cookie' # s, UNCHANGED sessions,
               \/ \E path : Load(t, path, cookie', [call EXCEPT ![t] = NoCall])
               \/ Ended(t) /\ UNCHANGED check
        PROVE  Unheld(s)'
    <2>1. CASE Ended(t) /\ UNCHANGED check
      BY <1>0, <1>8, <2>1 DEF Ended, Unheld, TypeOK, NoCall
    <2>2. CASE \E path : Load(t, path, cookie', [call EXCEPT ![t] = NoCall])
      BY <1>0, <1>8, <2>2, LoadTakesTheCookie
    <2> QED BY <1>8, <2>1, <2>2
  <1>9. ASSUME NEW t \in Tab, HearLogin(t) PROVE Unheld(s)'
    <2>1. cookie' # s
      BY <1>0, <1>9 DEF HearLogin, Unheld
    <2> QED BY <1>8, <1>9, <2>1 DEF HearLogin
  <1>10. ASSUME NEW t \in Tab, HearLogout(t) PROVE Unheld(s)'
    <2>1. cookie' # s
      BY <1>0, <1>10 DEF HearLogout
    <2> QED BY <1>8, <1>10, <2>1 DEF HearLogout
  <1>11. ASSUME NEW t \in Tab, HearManagement(t) \/ LoseCall(t) PROVE Unheld(s)'
    <2>1. UNCHANGED <<sessions, cookie>>
      BY <1>11 DEF HearManagement, LoseCall
    <2> QED BY <1>0, <1>8, <1>11, <2>1 DEF HearManagement, LoseCall
  <1>12. ASSUME NEW u \in Session, Expire(u) PROVE Unheld(s)'
    BY <1>12 DEF Expire, Unheld
  <1>13. CASE UNCHANGED vars
    BY <1>13 DEF vars, Unheld
  <1> QED BY <1>1, <1>2, <1>3, <1>4, <1>5, <1>7, <1>9, <1>10, <1>11, <1>12, <1>13
          DEF Next, Administrator, Serve, Hear

(* A session whose cookie was overwritten by another login, or dropped by a*)
(* logout whose statement failed, never comes back to the browser.         *)
THEOREM AbandonedSessions == Spec => AbandonedSessionsAreInert
PROOF
  <1>1. ASSUME TypeOK, [Next]_vars PROVE \A s \in Session : Unheld(s) => Unheld(s)'
    BY <1>1, NextStaysUnheld
  <1> QED BY <1>1, TypeCorrect, PTL DEF Spec, AbandonedSessionsAreInert

-----------------------------------------------------------------------------
(* Liveness: a fair scheduler, and calls that can always go on.            *)
Progress(t) ==
  /\ []TypeOK /\ [][Next]_vars
  /\ []<>(~Unserved(t)) \/ []<><<ServeCall(t)>>_vars
  /\ []<>(~Unheard(t)) \/ []<><<HearCall(t)>>_vars
  /\ []<>(~(check[t].at = "sent")) \/ []<><<HandleMe(t)>>_vars
  /\ []<>(~(check[t].at = "answered")) \/ []<><<HearMe(t)>>_vars

LEMMA CallsGoOn ==
  ASSUME NEW t \in Tab
  PROVE  FairSpec /\ []CallsNeverWait => Progress(t)
PROOF
  <1>1. CallsNeverWait => CallCanGoOn(t)
    BY DEF CallsNeverWait
  <1>2. FairSpec => Spec /\ Scheduled(t)
    BY DEF FairSpec, Fairness
  <1> QED BY <1>1, <1>2, TypeCorrect, PTL DEF Spec, Scheduled, CallCanGoOn, Progress

(* A tab is changed by its own calls and by nobody else's. *)
LEMMA TabMoves ==
  ASSUME TypeOK, [Next]_vars, NEW t \in Tab
  PROVE  \/ page'[t] = page[t] /\ check'[t] = check[t] /\ call'[t] = call[t]
         \/ Administrator(t) \/ Serve(t) \/ Hear(t) \/ LoseCall(t) \/ LoseCheck(t)
PROOF
  <1> DEFINE Same == page'[t] = page[t] /\ check'[t] = check[t] /\ call'[t] = call[t]
  <1>0. page \in [Tab -> Page] /\ check \in [Tab -> Check] /\ call \in [Tab -> Call]
    BY DEF TypeOK
  <1>1. ASSUME NEW u \in Tab, u # t, NEW path, NEW sid, NEW calls, Load(u, path, sid, calls),
               calls = Abandoned(u) \/ calls = [call EXCEPT ![u] = NoCall]
        PROVE  Same
    BY <1>0, <1>1 DEF Load, Abandoned
  <1>2. ASSUME NEW u \in Tab, u # t, NEW ok, CheckAuth(u, ok)
        PROVE  Same
    <2>1. CASE \E path : Load(u, path, cookie, Abandoned(u))
      BY <1>1, <1>2, <2>1
    <2>2. CASE ~\E path : Load(u, path, cookie, Abandoned(u))
      BY <1>0, <1>2, <2>2 DEF CheckAuth
    <2> QED BY <2>1, <2>2
  <1>3. ASSUME NEW u \in Tab, u # t, Administrator(u)
        PROVE  Same
    BY <1>0, <1>1, <1>3 DEF Administrator, OpenPage, SubmitLogin, ClickLogout, Manage, Send
  <1>4. ASSUME NEW u \in Tab, u # t, Serve(u)
        PROVE  Same
    <2>1. CASE HandleMe(u)
      BY <1>0, <1>4, <2>1 DEF HandleMe, Tell
    <2>2. CASE ~HandleMe(u)
      BY <1>0, <1>4, <2>2 DEF Serve, HandleLogin, RefuseLogin, HandleLogout, AuthMiddleware,
                              HandleManagement, Answer
    <2> QED BY <2>1, <2>2
  <1>5. ASSUME NEW u \in Tab, u # t, Hear(u)
        PROVE  Same
    <2>1. CASE HearMe(u)
      BY <1>2, <1>5, <2>1 DEF HearMe
    <2>2. CASE \E path, sid : Load(u, path, sid, [call EXCEPT ![u] = NoCall])
      BY <1>1, <1>5, <2>2
    <2>3. CASE Ended(u) /\ UNCHANGED <<page, check>>
      BY <1>0, <1>5, <2>3 DEF Ended
    <2> QED BY <1>5, <2>1, <2>2, <2>3 DEF Hear, HearLogin, HearLogout, HearManagement
  <1>6. ASSUME NEW u \in Tab, u # t, LoseCall(u) \/ LoseCheck(u)
        PROVE  Same
    <2>1. CASE LoseCheck(u)
      BY <1>2, <1>6, <2>1 DEF LoseCheck
    <2>2. CASE \E path : Load(u, path, cookie, [call EXCEPT ![u] = NoCall])
      BY <1>1, <1>6, <2>2
    <2>3. CASE Ended(u) /\ UNCHANGED <<page, check>>
      BY <1>0, <1>6, <2>3 DEF Ended
    <2> QED BY <1>6, <2>1, <2>2, <2>3 DEF LoseCall
  <1>7. CASE UNCHANGED vars \/ \E s \in Session : Expire(s)
    BY <1>7 DEF vars, Expire
  <1> QED BY <1>3, <1>4, <1>5, <1>6, <1>7 DEF Next

(* What a page that loads, or hears /auth/me, does to its other call.      *)
LEMMA PagesKeepTheCall ==
  ASSUME TypeOK, NEW t \in Tab,
         (\E path : OpenPage(t, path)) \/ HandleMe(t) \/ HearMe(t)
  PROVE  call'[t] = call[t] \/ call'[t] = [call[t] EXCEPT !.awaited = FALSE]
PROOF
  <1>1. \A path, sid : Load(t, path, sid, Abandoned(t)) =>
          call'[t] = [call[t] EXCEPT !.awaited = FALSE]
    BY DEF Load, Abandoned, TypeOK
  <1> QED BY <1>1 DEF OpenPage, HandleMe, HearMe, CheckAuth

(* A failure is counted, and nothing else is. *)
LEMMA FaultsCount ==
  ASSUME TypeOK, NEW n \in Nat, faults = n
  PROVE  /\ Fault => faults' > n
         /\ \A t \in Tab : LoseCall(t) \/ LoseCheck(t) => faults' > n
         /\ [Next]_vars => faults' = n \/ faults' > n
PROOF
  <1>1. Fault => faults' > n
    BY DEF Fault, TypeOK
  <1>2. \A t \in Tab : LoseCall(t) \/ LoseCheck(t) => faults' > n
    BY <1>1 DEF LoseCall, LoseCheck
  <1>3. ASSUME NEW t \in Tab, Administrator(t) \/ Serve(t) \/ Hear(t)
        PROVE  faults' = n \/ faults' > n
    <2>1. HandleLogout(t) => faults' = n \/ faults' > n
      BY <1>1 DEF HandleLogout, RevokeSession
    <2>2. HandleMe(t) \/ AuthMiddleware(t) \/ HandleManagement(t) => faults' = n \/ faults' > n
      BY <1>1 DEF HandleMe, AuthMiddleware, HandleManagement
    <2> QED BY <1>3, <2>1, <2>2 DEF Administrator, OpenPage, SubmitLogin, ClickLogout, Manage,
               Send, Serve, HandleLogin, RefuseLogin, Hear, HearMe, HearLogin, HearLogout,
               HearManagement
  <1> QED BY <1>1, <1>2, <1>3 DEF Next, Expire, vars

LogoutSent(n, t, s) ==
  call[t].kind = "logout" /\ call[t].at = "sent" /\ call[t].sid = s /\ faults = n

Failed(n) == faults > n

LEMMA LogoutMoves ==
  ASSUME TypeOK, [Next]_vars, NEW n \in Nat, NEW t \in Tab, NEW s \in Session, LogoutSent(n, t, s)
  PROVE  /\ LogoutSent(n, t, s)' \/ ~IsValid(s)' \/ Failed(n)'
         /\ ServeCall(t) => ~IsValid(s)' \/ Failed(n)'
PROOF
  <1>0. /\ faults = n /\ (Fault => Failed(n)')
        /\ (\A u \in Tab : LoseCall(u) \/ LoseCheck(u) => Failed(n)')
        /\ faults' = n \/ Failed(n)'
    BY FaultsCount DEF LogoutSent, Failed
  <1>1. ASSUME HandleLogout(t)
        PROVE  ~IsValid(s)' \/ Failed(n)'
    <2>1. call[t].sid = s /\ s \in sessions
      BY DEF LogoutSent, TypeOK
    <2>2. s \in revoked' \/ Fault
      BY <1>1, <2>1 DEF HandleLogout, RevokeSession
    <2> QED BY <1>0, <2>2 DEF IsValid
  <1>2. ServeCall(t) => HandleLogout(t)
    BY DEF ServeCall, LogoutSent, HandleLogin, RefuseLogin, AuthMiddleware, HandleManagement
  <1>3. Serve(t) => HandleMe(t) \/ ServeCall(t)
    BY DEF Serve, ServeCall
  <1>4. Hear(t) => HearMe(t)
    BY DEF Hear, LogoutSent, HearLogin, HearLogout, HearManagement
  <1>5. Administrator(t) => \E path : OpenPage(t, path)
    BY DEF Administrator, LogoutSent, SubmitLogin, ClickLogout, Manage, Send
  <1>6. ASSUME faults' = n, (\E path : OpenPage(t, path)) \/ HandleMe(t) \/ HearMe(t)
        PROVE  LogoutSent(n, t, s)'
    BY <1>6, PagesKeepTheCall DEF LogoutSent, TypeOK, Call
  <1>7. ASSUME faults' = n, call'[t] = call[t]
        PROVE  LogoutSent(n, t, s)'
    BY <1>7 DEF LogoutSent
  <1> QED BY <1>0, <1>1, <1>2, <1>3, <1>4, <1>5, <1>6, <1>7, TabMoves

(* A logout the server receives ends the session it carries                *)
(* (LogoutsEndTheSession; AdminAuthHandler.HandleLogout), whatever the     *)
(* other tabs and the page it came from do meanwhile, and whatever failed  *)
(* before.                                                                 *)
THEOREM LogoutsEnd == FairSpec /\ []CallsNeverWait => LogoutsEndTheSession
PROOF
  <1>1. ASSUME NEW n \in 0..MaxFaults, NEW t \in Tab, NEW s \in Session
        PROVE  Progress(t) =>
                 ((call[t].kind = "logout" /\ call[t].at = "sent" /\ call[t].sid = s /\ faults = n)
                    ~> (~IsValid(s) \/ faults > n))
    <2>0. n \in Nat
      OBVIOUS
    <2>1. TypeOK /\ [Next]_vars /\ LogoutSent(n, t, s) =>
            LogoutSent(n, t, s)' \/ ~IsValid(s)' \/ Failed(n)'
      BY <2>0, LogoutMoves
    <2>2. TypeOK /\ [Next]_vars /\ <<ServeCall(t)>>_vars /\ LogoutSent(n, t, s) =>
            ~IsValid(s)' \/ Failed(n)'
      BY <2>0, LogoutMoves
    <2>3. LogoutSent(n, t, s) => Unserved(t)
      BY DEF LogoutSent, Unserved
    <2>4. call[t].kind = "logout" /\ call[t].at = "sent" /\ call[t].sid = s /\ faults = n =>
            LogoutSent(n, t, s)
      BY DEF LogoutSent
    <2>5. Failed(n) <=> faults > n
      BY DEF Failed
    <2> QED BY <2>1, <2>2, <2>3, <2>4, <2>5, PTL DEF Progress
  <1> QED BY <1>1, CallsGoOn DEF LogoutsEndTheSession

-----------------------------------------------------------------------------
(* Logins.  The form waits for the answer of its login, and an accepted    *)
(* login is answered with a session.                                       *)
TabOK(t) ==
  call[t].kind = "login" => /\ call[t].awaited => page[t] = "login"
                            /\ call[t].ok => call[t].sid # None

LoginInv == \A t \in Tab : TabOK(t)

LEMMA NextLoginInv ==
  ASSUME TypeOK, LoginInv, [Next]_vars
  PROVE  LoginInv'
PROOF
  <1> SUFFICES ASSUME NEW t \in Tab
               PROVE  TabOK(t)'
    BY DEF LoginInv
  <1> USE DEF TabOK
  <1>1. /\ page \in [Tab -> Page] /\ check \in [Tab -> Check] /\ call \in [Tab -> Call]
        /\ None \notin Session /\ TabOK(t)
    BY BoundsAreTyped DEF TypeOK, LoginInv
  <1>2. NoCall.kind = "none" /\ [call EXCEPT ![t] = NoCall][t] = NoCall
    BY <1>1 DEF NoCall
  <1>3. ASSUME NEW path, NEW sid, Load(t, path, sid, Abandoned(t))
        PROVE  TabOK(t)'
    <2>1. call'[t] = [call[t] EXCEPT !.awaited = FALSE]
      BY <1>1, <1>3 DEF Load, Abandoned
    <2>2. /\ ~call'[t].awaited /\ call'[t].kind = call[t].kind
          /\ call'[t].sid = call[t].sid /\ call'[t].ok = call[t].ok
      BY <1>1, <2>1 DEF Call
    <2> QED BY <1>1, <2>2
  <1>4. ASSUME NEW path, NEW sid, Load(t, path, sid, [call EXCEPT ![t] = NoCall])
        PROVE  TabOK(t)'
    BY <1>2, <1>4 DEF Load
  <1>5. ASSUME NEW ok, CheckAuth(t, ok)
        PROVE  TabOK(t)'
    <2>1. CASE \E path : Load(t, path, cookie, Abandoned(t))
      BY <1>3, <2>1
    <2>2. CASE ~\E path : Load(t, path, cookie, Abandoned(t))
      <3>1. page'[t] = (IF page[t] = "checking" THEN "console" ELSE page[t]) /\ call' = call
        BY <1>1, <1>5, <2>2 DEF CheckAuth
      <3> QED BY <1>1, <3>1
    <2> QED BY <2>1, <2>2
  <1>6. ASSUME Ended(t)
        PROVE  TabOK(t)'
    BY <1>2, <1>6 DEF Ended
  <1>7. ASSUME NEW ok, Answer(t, ok), page' = page, call[t].kind = "login" => ~ok
        PROVE  TabOK(t)'
    <2>1. /\ call'[t].kind = call[t].kind /\ call'[t].awaited = call[t].awaited
          /\ call'[t].ok = ok
      BY <1>1, <1>7 DEF Answer, Call
    <2> QED BY <1>1, <1>7, <2>1
  <1>8. ASSUME Administrator(t)
        PROVE  TabOK(t)'
    <2>1. CASE \E path : OpenPage(t, path)
      BY <1>3, <2>1 DEF OpenPage
    <2>2. CASE SubmitLogin(t) \/ ClickLogout(t) \/ Manage(t)
      <3>1. PICK kind \in {"login", "logout", "manage"}, from \in {"login", "console"} :
              Send(t, kind, from) /\ (kind = "login" => from = "login")
        BY <2>2 DEF SubmitLogin, ClickLogout, Manage
      <3>2. /\ page[t] = from /\ page' = page
            /\ call'[t] = [kind |-> kind, at |-> "sent", sid |-> cookie, ok |-> FALSE,
                           awaited |-> TRUE]
        BY <1>1, <3>1 DEF Send
      <3> QED BY <3>1, <3>2
    <2> QED BY <1>8, <2>1, <2>2 DEF Administrator
  <1>9. ASSUME Serve(t)
        PROVE  TabOK(t)'
    <2>1. CASE HandleLogin(t)
      <3>1. PICK s \in Session :
              call' = [call EXCEPT ![t] = [@ EXCEPT !.at = "answered", !.ok = TRUE, !.sid = s]]
        BY <2>1 DEF HandleLogin
      <3>2. /\ page' = page /\ call'[t].sid = s /\ call'[t].awaited = call[t].awaited
            /\ call[t].kind = "login"
        BY <1>1, <2>1, <3>1 DEF HandleLogin, Call
      <3> QED BY <1>1, <3>2
    <2>2. CASE HandleMe(t)
      BY <1>1, <2>2 DEF HandleMe
    <2>3. CASE RefuseLogin(t) \/ HandleLogout(t) \/ HandleManagement(t)
      BY <1>7, <2>3 DEF RefuseLogin, HandleLogout, HandleManagement
    <2>4. CASE AuthMiddleware(t)
      <3>1. page' = page /\ call[t].kind = "manage"
        BY <2>4 DEF AuthMiddleware
      <3>2. CASE call' = [call EXCEPT ![t].at = "admitted"]
        BY <1>1, <3>1, <3>2 DEF Call
      <3>3. CASE Answer(t, FALSE)
        BY <1>7, <3>1, <3>3
      <3> QED BY <2>4, <3>2, <3>3 DEF AuthMiddleware
    <2> QED BY <1>9, <2>1, <2>2, <2>3, <2>4 DEF Serve
  <1>10. ASSUME Hear(t)
         PROVE  TabOK(t)'
    BY <1>4, <1>5, <1>6, <1>10 DEF Hear, HearMe, HearLogin, HearLogout, HearManagement
  <1>11. ASSUME LoseCall(t) \/ LoseCheck(t)
         PROVE  TabOK(t)'
    BY <1>4, <1>5, <1>6, <1>11 DEF LoseCall, LoseCheck
  <1>12. CASE page'[t] = page[t] /\ check'[t] = check[t] /\ call'[t] = call[t]
    BY <1>1, <1>12
  <1> QED BY <1>8, <1>9, <1>10, <1>11, <1>12, TabMoves

LEMMA LoginInvHolds == Spec => []LoginInv
PROOF
  <1>1. Init => LoginInv
    BY DEF Init, LoginInv, TabOK, NoCall
  <1> QED BY <1>1, NextLoginInv, TypeCorrect, PTL DEF Spec

(* No session has ended, nobody logs out, and nothing fails any more.      *)
LoggingOut == \E u \in Tab : call[u].kind = "logout"

Calm(n) == revoked = {} /\ expired = {} /\ faults = n /\ ~LoggingOut

(* As long as this lasts, this is all that can happen to a tab, and the    *)
(* browser keeps a cookie.                                                 *)
LEMMA CalmMoves ==
  ASSUME TypeOK, LoginInv, [Next]_vars, NEW n \in Nat, Calm(n), Calm(n)', NEW t \in Tab
  PROVE  /\ \/ page'[t] = page[t] /\ check'[t] = check[t] /\ call'[t] = call[t]
            \/ \E path \in {"login", "console"} : OpenPage(t, path)
            \/ SubmitLogin(t) \/ Manage(t)
            \/ HandleLogin(t) \/ RefuseLogin(t) \/ HandleMe(t)
            \/ AuthMiddleware(t) \/ HandleManagement(t)
            \/ HearMe(t) \/ HearLogin(t) \/ HearManagement(t)
         /\ cookie' = cookie \/ cookie' # None
         /\ ~Fault
PROOF
  <1>1. /\ ~Fault /\ \A u \in Tab : ~LoseCall(u) /\ ~LoseCheck(u)
    BY FaultsCount DEF Calm
  <1>2. \A u \in Tab : ~HandleLogout(u) /\ ~HearLogout(u)
    BY DEF Calm, LoggingOut, HandleLogout, HearLogout
  <1>3. ~ClickLogout(t)
    <2> SUFFICES ASSUME ClickLogout(t) PROVE FALSE
      OBVIOUS
    <2>1. call'[t].kind = "logout"
      BY DEF ClickLogout, Send, TypeOK
    <2> QED BY <2>1 DEF Calm, LoggingOut
  <1>4. cookie' = cookie \/ cookie' # None
    <2>1. ASSUME NEW u \in Tab, HearLogin(u) PROVE cookie' = cookie \/ cookie' # None
      BY <2>1 DEF HearLogin, LoginInv, TabOK
    <2>2. ASSUME NEW u \in Tab, Administrator(u) \/ Serve(u)
          PROVE  cookie' = cookie
      BY <2>2 DEF Administrator, OpenPage, SubmitLogin, ClickLogout, Manage, Send, Serve,
                  HandleLogin, RefuseLogin, HandleMe, HandleLogout, AuthMiddleware,
                  HandleManagement
    <2>3. ASSUME NEW u \in Tab, HearMe(u) \/ HearManagement(u) PROVE cookie' = cookie
      BY <2>3 DEF HearMe, HearManagement
    <2>4. UNCHANGED vars \/ (\E s \in Session : Expire(s)) => cookie' = cookie
      BY DEF vars, Expire
    <2> QED BY <1>1, <1>2, <2>1, <2>2, <2>3, <2>4 DEF Next, Hear
  <1> QED BY <1>1, <1>2, <1>3, <1>4, TabMoves DEF Administrator, Serve, Hear

(* Where a tab stands on its way to the console: the answer of the login is*)
(* there; the console waits for /auth/me; the form of a browser that has a *)
(* cookie waits for /auth/me, which will bring the console back.           *)
LoginAnswered(n, t) ==
  /\ call[t].kind = "login" /\ call[t].at = "answered" /\ call[t].ok /\ call[t].awaited
  /\ Calm(n)

Asks(n, t, path, at) ==
  /\ page[t] = path /\ check[t].at = at /\ check[t].sid # None
  /\ at = "answered" => check[t].ok
  /\ cookie # None /\ Calm(n)

Asking(n, t) ==
  \E path \in {"checking", "login"}, at \in {"sent", "answered"} : Asks(n, t, path, at)

Arrived(n, t) ==
  \/ page[t] = "console"
  \/ call[t].kind = "login" /\ ~call[t].awaited
  \/ LoggingOut
  \/ revoked # {} \/ expired # {} \/ faults > n

LEMMA CalmOrArrived ==
  ASSUME TypeOK, [Next]_vars, NEW n \in Nat, Calm(n), NEW t \in Tab, ~Arrived(n, t)'
  PROVE  Calm(n)'
  BY FaultsCount DEF Calm, Arrived

(* A load by a browser that has a cookie. *)
LEMMA LoadAsks ==
  ASSUME TypeOK, NEW n \in Nat, Calm(n)', NEW t \in Tab, NEW path, NEW calls,
         Load(t, path, cookie', calls), cookie' # None
  PROVE  /\ Asks(n, t, IF path = "login" THEN "login" ELSE "checking", "sent")'
         /\ call'[t] = calls[t]
PROOF
  BY DEF TypeOK, Load, Asks

(* The server and the browser serve the other call of a tab: the page and  *)
(* its /auth/me are not touched.                                           *)
LEMMA OtherCallsKeepThePage ==
  ASSUME NEW t \in Tab,
         \/ SubmitLogin(t) \/ Manage(t)
         \/ HandleLogin(t) \/ RefuseLogin(t) \/ AuthMiddleware(t) \/ HandleManagement(t)
         \/ HearManagement(t)
         \/ HearLogin(t) /\ ~(call[t].ok /\ call[t].awaited)
  PROVE  UNCHANGED <<page, check>>
PROOF
  BY DEF SubmitLogin, Manage, Send, HandleLogin, RefuseLogin, AuthMiddleware,
         HandleManagement, HearManagement, HearLogin

LEMMA HearLoginAsks ==
  ASSUME TypeOK, LoginInv, NEW n \in Nat, Calm(n)', NEW t \in Tab, HearLogin(t),
         call[t].ok, call[t].awaited
  PROVE  Asks(n, t, "checking", "sent")'
PROOF
  <1>1. Load(t, "console", cookie', [call EXCEPT ![t] = NoCall]) /\ cookie' = call[t].sid
    BY DEF HearLogin
  <1>2. cookie' # None
    BY <1>1 DEF HearLogin, LoginInv, TabOK
  <1>3. Asks(n, t, IF "console" = "login" THEN "login" ELSE "checking", "sent")'
    BY <1>1, <1>2, LoadAsks
  <1> QED BY <1>3

LEMMA LoginAnsweredMoves ==
  ASSUME TypeOK, LoginInv, [Next]_vars, NEW n \in Nat, NEW t \in Tab, LoginAnswered(n, t),
         ~Arrived(n, t)'
  PROVE  /\ LoginAnswered(n, t)' \/ Asking(n, t)'
         /\ HearCall(t) => Asking(n, t)'
PROOF
  <1>1. Calm(n)' /\ Calm(n)
    BY CalmOrArrived DEF LoginAnswered
  <1>2. ASSUME HearLogin(t) PROVE Asking(n, t)'
    BY <1>1, <1>2, HearLoginAsks DEF LoginAnswered, Asking
  <1>3. HearCall(t) => HearLogin(t)
    BY DEF HearCall, LoginAnswered, HearLogout, HearManagement
  <1>4. ASSUME call'[t] = [call[t] EXCEPT !.awaited = FALSE] PROVE FALSE
    BY <1>4 DEF LoginAnswered, Arrived, TypeOK, Call
  <1>5. (\E path : OpenPage(t, path)) \/ HandleMe(t) \/ HearMe(t) => LoginAnswered(n, t)'
    BY <1>1, <1>4, PagesKeepTheCall DEF LoginAnswered
  <1>6. ~ \/ SubmitLogin(t) \/ Manage(t)
          \/ HandleLogin(t) \/ RefuseLogin(t) \/ AuthMiddleware(t) \/ HandleManagement(t)
          \/ HearManagement(t)
    BY DEF LoginAnswered, SubmitLogin, Manage, Send, HandleLogin, RefuseLogin,
           AuthMiddleware, HandleManagement, HearManagement
  <1>7. call'[t] = call[t] => LoginAnswered(n, t)'
    BY <1>1 DEF LoginAnswered
  <1>8. LoginAnswered(n, t)' \/ Asking(n, t)'
    BY <1>1, <1>2, <1>5, <1>6, <1>7, CalmMoves
  <1> QED BY <1>2, <1>3, <1>8

(* The steps of a tab that waits for /auth/me.  The last two are those of  *)
(* the fair scheduler; only a page the administrator opens goes back.      *)
LEMMA AskingMoves ==
  ASSUME TypeOK, LoginInv, [Next]_vars, NEW n \in Nat, NEW t \in Tab, ~Arrived(n, t)'
  PROVE  /\ Asks(n, t, "login", "sent") =>
              Asks(n, t, "login", "sent")' \/ Asks(n, t, "login", "answered")' \/ Asks(n, t, "checking", "sent")'
         /\ Asks(n, t, "login", "answered") =>
              \/ Asks(n, t, "login", "answered")' \/ Asks(n, t, "checking", "sent")'
              \/ loads' # loads /\ Asks(n, t, "login", "sent")'
         /\ Asks(n, t, "checking", "sent") =>
              \/ Asks(n, t, "checking", "sent")' \/ Asks(n, t, "checking", "answered")'
              \/ loads' # loads /\ Asks(n, t, "login", "sent")'
         /\ Asks(n, t, "checking", "answered") =>
              \/ Asks(n, t, "checking", "answered")'
              \/ loads' # loads /\ (Asks(n, t, "login", "sent")' \/ Asks(n, t, "checking", "sent")')
         /\ HandleMe(t) /\ Asks(n, t, "login", "sent") => Asks(n, t, "login", "answered")'
         /\ HandleMe(t) /\ Asks(n, t, "checking", "sent") => Asks(n, t, "checking", "answered")'
         /\ HearMe(t) /\ Asks(n, t, "login", "answered") => Asks(n, t, "checking", "sent")'
         /\ HearMe(t) => ~Asks(n, t, "checking", "answered")
PROOF
  <1>0. /\ page \in [Tab -> Page] /\ check \in [Tab -> Check]
        /\ check[t].sid \in sessions \cup {None} /\ loads \in Nat
    BY DEF TypeOK
  <1>1. ASSUME NEW path, NEW at, Asks(n, t, path, at)
        PROVE  /\ Calm(n) /\ Calm(n)' /\ cookie # None /\ cookie' # None /\ ~Fault
    <2>1. Calm(n) /\ Calm(n)' /\ cookie # None
      BY <1>1, CalmOrArrived DEF Asks
    <2> QED BY <2>1, CalmMoves
  <1>3. ASSUME NEW path, NEW at, Asks(n, t, path, at),
               (page'[t] = page[t] /\ check'[t] = check[t]) \/ UNCHANGED <<page, check>>
        PROVE  Asks(n, t, path, at)'
    BY <1>1, <1>3 DEF Asks
  <1>4. ASSUME NEW path, NEW at, Asks(n, t, path, at), HandleMe(t)
        PROVE  at = "sent" /\ Asks(n, t, path, "answered")'
    <2>1. at = "sent" /\ page' = page /\ Tell(t, ValidateSession(check[t].sid))
      BY <1>1, <1>4 DEF Asks, HandleMe
    <2>2. ValidateSession(check[t].sid)
      BY <1>0, <1>1, <1>4 DEF Asks, Calm, ValidateSession, IsValid
    <2>3. /\ check'[t].at = "answered" /\ check'[t].sid = check[t].sid
          /\ check'[t].ok = ValidateSession(check[t].sid)
      BY <1>0, <2>1 DEF Tell, Check
    <2> QED BY <1>1, <1>4, <2>1, <2>2, <2>3 DEF Asks
  <1>5. ASSUME NEW path, NEW at, Asks(n, t, path, at), HearMe(t)
        PROVE  /\ at = "answered" /\ path # "checking"
               /\ path = "login" => Asks(n, t, "checking", "sent")'
    <2>1. /\ at = "answered" /\ page[t] = path /\ check[t].ok /\ cookie' = cookie
          /\ CheckAuth(t, TRUE)
      BY <1>0, <1>5 DEF Asks, HearMe, Check
    <2>2. ASSUME path = "checking" PROVE FALSE
      <3>1. page' = [page EXCEPT ![t] = "console"]
        BY <2>1, <2>2 DEF CheckAuth
      <3> QED BY <1>0, <3>1 DEF Arrived
    <2>3. ASSUME path = "login" PROVE Asks(n, t, "checking", "sent")'
      <3>1. Load(t, "console", cookie', Abandoned(t))
        BY <2>1, <2>3 DEF CheckAuth
      <3>2. Asks(n, t, IF "console" = "login" THEN "login" ELSE "checking", "sent")'
        BY <1>1, <1>5, <3>1, LoadAsks
      <3> QED BY <3>2
    <2> QED BY <2>1, <2>2, <2>3
  <1>6. ASSUME NEW path, NEW at, Asks(n, t, path, at), NEW to, OpenPage(t, to)
        PROVE  loads' # loads /\ (Asks(n, t, "login", "sent")' \/ Asks(n, t, "checking", "sent")')
    <2>1. Load(t, to, cookie', Abandoned(t)) /\ loads' # loads
      BY <1>0, <1>6 DEF OpenPage
    <2>2. Asks(n, t, IF to = "login" THEN "login" ELSE "checking", "sent")'
      BY <1>1, <1>6, <2>1, LoadAsks
    <2> QED BY <2>1, <2>2
  <1>7. ASSUME NEW path, NEW at, Asks(n, t, path, at), HearLogin(t)
        PROVE  \/ Asks(n, t, path, at)'
               \/ path = "login" /\ Asks(n, t, "checking", "sent")'
    <2>1. CASE call[t].ok /\ call[t].awaited
      <3>1. path = "login"
        BY <1>7, <2>1 DEF LoginInv, TabOK, Asks, HearLogin
      <3> QED BY <1>1, <1>7, <2>1, <3>1, HearLoginAsks
    <2>2. CASE ~(call[t].ok /\ call[t].awaited)
      BY <1>3, <1>7, <2>2, OtherCallsKeepThePage
    <2> QED BY <2>1, <2>2
  <1>8. ASSUME NEW path \in {"checking", "login"}, NEW at, Asks(n, t, path, at)
        PROVE  \/ Asks(n, t, path, at)'
               \/ path = "login" /\ Asks(n, t, "checking", "sent")'
               \/ at = "sent" /\ Asks(n, t, path, "answered")'
               \/ loads' # loads /\ (Asks(n, t, "login", "sent")' \/ Asks(n, t, "checking", "sent")')
    <2>1. CASE HearMe(t)
      BY <1>5, <1>8, <2>1
    <2>2. CASE page'[t] = page[t] /\ check'[t] = check[t]
      BY <1>3, <1>8, <2>2
    <2>3. CASE \/ SubmitLogin(t) \/ Manage(t)
               \/ HandleLogin(t) \/ RefuseLogin(t) \/ AuthMiddleware(t) \/ HandleManagement(t)
               \/ HearManagement(t)
      BY <1>3, <1>8, <2>3, OtherCallsKeepThePage
    <2>4. CASE HandleMe(t) \/ HearLogin(t) \/ \E to : OpenPage(t, to)
      BY <1>4, <1>6, <1>7, <1>8, <2>4
    <2> QED BY <1>1, <1>8, <2>1, <2>2, <2>3, <2>4, CalmMoves
  <1> QED BY <1>4, <1>5, <1>8

Quiet(t) == Progress(t) /\ []LoginInv

LEMMA AnswersBringTheConsole ==
  ASSUME NEW n \in Nat, NEW t \in Tab
  PROVE  Quiet(t) => (LoginAnswered(n, t) ~> (Asking(n, t) \/ Arrived(n, t)))
PROOF
  <1>1. TypeOK /\ LoginInv /\ [Next]_vars /\ LoginAnswered(n, t) =>
          LoginAnswered(n, t)' \/ Asking(n, t)' \/ Arrived(n, t)'
    BY LoginAnsweredMoves
  <1>2. TypeOK /\ LoginInv /\ [Next]_vars /\ <<HearCall(t)>>_vars /\ LoginAnswered(n, t) =>
          Asking(n, t)' \/ Arrived(n, t)'
    BY LoginAnsweredMoves
  <1>3. LoginAnswered(n, t) => Unheard(t)
    BY DEF LoginAnswered, Unheard
  <1> QED BY <1>1, <1>2, <1>3, PTL DEF Quiet, Progress

(* Once the administrator opens no page, /auth/me brings the console.      *)
LEMMA AskingArrives ==
  ASSUME NEW n \in Nat, NEW t \in Tab
  PROVE  Quiet(t) /\ [][UNCHANGED loads]_vars => (Asking(n, t) ~> Arrived(n, t))
PROOF
  <1> DEFINE Ls == Asks(n, t, "login", "sent")
             La == Asks(n, t, "login", "answered")
             Cs == Asks(n, t, "checking", "sent")
             Ca == Asks(n, t, "checking", "answered")
             Step == TypeOK /\ LoginInv /\ [Next]_vars /\ [UNCHANGED loads]_vars
  <1>0. [UNCHANGED loads]_vars => loads' = loads
    BY DEF vars
  <1>1. /\ Step /\ Ls => Ls' \/ La' \/ Cs' \/ Arrived(n, t)'
        /\ Step /\ La => La' \/ Cs' \/ Arrived(n, t)'
        /\ Step /\ Cs => Cs' \/ Ca' \/ Arrived(n, t)'
        /\ Step /\ Ca => Ca' \/ Arrived(n, t)'
    BY <1>0, AskingMoves
  <1>2. /\ Step /\ <<HandleMe(t)>>_vars /\ Ls => La' \/ Arrived(n, t)'
        /\ Step /\ <<HandleMe(t)>>_vars /\ Cs => Ca' \/ Arrived(n, t)'
        /\ Step /\ <<HearMe(t)>>_vars /\ La => Cs' \/ Arrived(n, t)'
        /\ Step /\ <<HearMe(t)>>_vars /\ Ca => Arrived(n, t)'
    BY AskingMoves
  <1>3. /\ Ls => check[t].at = "sent"
        /\ Cs => check[t].at = "sent"
        /\ La => check[t].at = "answered"
        /\ Ca => check[t].at = "answered"
    BY DEF Asks
  <1>4. Asking(n, t) => Ls \/ La \/ Cs \/ Ca
    BY DEF Asking
  <1> HIDE DEF Ls, La, Cs, Ca
  <1>5. Quiet(t) /\ [][UNCHANGED loads]_vars => (Ca ~> Arrived(n, t))
    BY <1>1, <1>2, <1>3, PTL DEF Quiet, Progress
  <1>6. Quiet(t) /\ [][UNCHANGED loads]_vars => (Cs ~> (Ca \/ Arrived(n, t)))
    BY <1>1, <1>2, <1>3, PTL DEF Quiet, Progress
  <1>7. Quiet(t) /\ [][UNCHANGED loads]_vars => (La ~> (Cs \/ Arrived(n, t)))
    BY <1>1, <1>2, <1>3, PTL DEF Quiet, Progress
  <1>8. Quiet(t) /\ [][UNCHANGED loads]_vars => (Ls ~> (La \/ Cs \/ Arrived(n, t)))
    BY <1>1, <1>2, <1>3, PTL DEF Quiet, Progress
  <1> QED BY <1>4, <1>5, <1>6, <1>7, <1>8, PTL

(* The administrator stops opening pages.  Every behaviour does so, because*)
(* loads is bounded by MaxLoads: the hypothesis stands for that bound.     *)
AdministratorRests == <>[][UNCHANGED loads]_vars

(* A login the server accepted brings its tab to the console               *)
(* (LoginsReachTheConsole; login() and checkAuth of the console): whatever *)
(* the other tabs do and whatever failed before, the cookie this tab's     *)
(* /auth/me carries is a live one, and the form of a browser that is       *)
(* logged in goes back to the console.                                     *)
THEOREM LoginsReach ==
  FairSpec /\ []CallsNeverWait /\ AdministratorRests => LoginsReachTheConsole
PROOF
  <1>1. ASSUME NEW n \in 0..MaxFaults, NEW t \in Tab
        PROVE  Quiet(t) /\ AdministratorRests =>
                 ((/\ call[t].kind = "login" /\ call[t].at = "answered" /\ call[t].ok /\ call[t].awaited
                   /\ faults = n)
                    ~> (\/ page[t] = "console"
                        \/ call[t].kind = "login" /\ ~call[t].awaited
                        \/ \E u \in Tab : call[u].kind = "logout"
                        \/ revoked # {} \/ expired # {} \/ faults > n))
    <2>0. n \in Nat
      OBVIOUS
    <2>1. Quiet(t) => (LoginAnswered(n, t) ~> (Asking(n, t) \/ Arrived(n, t)))
      BY <2>0, AnswersBringTheConsole
    <2>2. Quiet(t) /\ [][UNCHANGED loads]_vars => (Asking(n, t) ~> Arrived(n, t))
      BY <2>0, AskingArrives
    <2>3. TypeOK /\ LoginInv /\ [Next]_vars /\ Asking(n, t) => Asking(n, t)' \/ Arrived(n, t)'
      BY <2>0, AskingMoves DEF Asking
    <2>4. Quiet(t) => []Quiet(t)
      BY PTL DEF Quiet, Progress
    <2>5. Quiet(t) /\ AdministratorRests => (LoginAnswered(n, t) ~> Arrived(n, t))
      BY <2>1, <2>2, <2>3, <2>4, PTL DEF Quiet, Progress, AdministratorRests
    <2>6. (/\ call[t].kind = "login" /\ call[t].at = "answered" /\ call[t].ok /\ call[t].awaited
           /\ faults = n) => LoginAnswered(n, t) \/ Arrived(n, t)
      BY DEF LoginAnswered, Calm, Arrived, LoggingOut
    <2>7. Arrived(n, t) => (\/ page[t] = "console"
                            \/ call[t].kind = "login" /\ ~call[t].awaited
                            \/ \E u \in Tab : call[u].kind = "logout"
                            \/ revoked # {} \/ expired # {} \/ faults > n)
      BY DEF Arrived, LoggingOut
    <2> QED BY <2>5, <2>6, <2>7, PTL
  <1>2. FairSpec => []LoginInv
    BY LoginInvHolds DEF FairSpec
  <1> QED BY <1>1, <1>2, CallsGoOn DEF LoginsReachTheConsole, Quiet

=============================================================================
