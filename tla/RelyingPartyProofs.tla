------------------------- MODULE RelyingPartyProofs -------------------------
(***************************************************************************)
(* Theorems about RelyingParty, for every set of browsers, tabs, keys and  *)
(* requests, every layout of the tabs and every bound on mishaps.  What    *)
(* ties a cookie to the login it came from passes through four places: the *)
(* cookies, the tab, the request and the rows; the invariant has a part    *)
(* for each.                                                               *)
(***************************************************************************)
EXTENDS RelyingParty, FiniteSetTheorems, TLAPS

USE TabsAreTyped

-----------------------------------------------------------------------------
(* The inductive invariant *)

CodesAreLinked ==
  \A k \in DOMAIN code : /\ code[k].session \in DOMAIN opSessions
                         /\ code[k].attempt \in DOMAIN begun

OfItsUser(u, k) == u \in DOMAIN users /\ k \in DOMAIN code /\ users[u] = Subject(k)

SessionsAreLinked == \A s \in DOMAIN sessions : OfItsUser(sessions[s].user, sessions[s].code)

(* A request with a code, and one whose state has been compared. *)
Asking == {"exchange", "redeem", "userinfo", "selectUser", "insertUser", "insertSession", "answer"}
Checked == Asking \ {"exchange"}

BegunIn(a, b) == a \in DOMAIN begun /\ begun[a] = b

(* The cookies a request was sent with are those of its browser.           *)
RequestOK(r) ==
  /\ req[r].pc # "idle" => req[r].browser \in Browser
  /\ req[r].pc \in Asking => /\ req[r].code \in DOMAIN code
                             /\ BegunIn(req[r].expected, req[r].browser)
  /\ req[r].pc \in Checked => code[req[r].code].attempt = req[r].expected
  /\ req[r].pc \in {"insertSession", "answer"} => OfItsUser(req[r].user, req[r].code)
  /\ req[r].pc = "answer" => /\ req[r].session \in DOMAIN sessions
                             /\ sessions[req[r].session].code = req[r].code
  /\ req[r].pc = "revoke" => req[r].session \in DOMAIN sessions

(* The browser that waits for a request is the one that sent it.           *)
TabOK(t) ==
  /\ tab[t].at \in {"authorize", "loginPage", "callback"} => tab[t].attempt \in DOMAIN begun
  /\ tab[t].at = "callback" => tab[t].code \in DOMAIN code
  /\ tab[t].at = "waiting" =>
       /\ tab[t].code # None => /\ tab[t].code \in DOMAIN code
                                /\ tab[t].attempt \in DOMAIN begun
       /\ tab[t].req \in Request
       /\ req[tab[t].req].pc # "idle"
       /\ req[tab[t].req].browser = browserOf[t]

OneWaits ==
  \A t, o \in Tab : /\ tab[t].at = "waiting" /\ tab[o].at = "waiting"
                    /\ tab[t].req = tab[o].req
                    => t = o

JarOK(b) ==
  /\ jar[b].temp # None => BegunIn(jar[b].temp, b)
  /\ jar[b].op # None => jar[b].op \in DOMAIN opSessions
  /\ jar[b].rp # None => BegunIn(code[sessions[jar[b].rp].code].attempt, b)

Inv ==
  /\ TypeOK
  /\ CodesAreLinked
  /\ SessionsAreLinked
  /\ \A r \in Request : RequestOK(r)
  /\ \A t \in Tab : TabOK(t)
  /\ OneWaits
  /\ \A b \in Browser : JarOK(b)

-----------------------------------------------------------------------------
(* Rows are inserted and never change: what was linked stays linked.       *)

Extends(new, old) == DOMAIN old \subseteq DOMAIN new /\ \A x \in DOMAIN old : new[x] = old[x]

Grows ==
  /\ Extends(opSessions', opSessions) /\ Extends(code', code) /\ Extends(begun', begun)
  /\ Extends(users', users) /\ Extends(sessions', sessions)

LEMMA SameExtends == ASSUME NEW table PROVE Extends(table, table)
PROOF
  BY DEF Extends

LEMMA OfItsUserStays ==
  ASSUME Inv, Grows, NEW u, NEW k, OfItsUser(u, k)
  PROVE  OfItsUser(u, k)'
PROOF
  BY DEF Inv, TypeOK, CodeRow, CodesAreLinked, Grows, Extends, OfItsUser, Subject

LEMMA RequestStays ==
  ASSUME Inv, Grows, NEW r \in Request,
         \/ req'[r] = req[r]
         \/ req'[r] = [req[r] EXCEPT !.live = FALSE]
  PROVE  RequestOK(r)'
PROOF
  <1>1. /\ req'[r].pc = req[r].pc /\ req'[r].code = req[r].code
        /\ req'[r].expected = req[r].expected /\ req'[r].user = req[r].user
        /\ req'[r].browser = req[r].browser /\ req'[r].session = req[r].session
    BY DEF Inv, TypeOK, RequestState
  <1>2. RequestOK(r)
    BY DEF Inv
  <1>3. OfItsUser(req[r].user, req[r].code) => OfItsUser(req[r].user, req[r].code)'
    BY <1>1 DEF Inv, TypeOK, CodeRow, CodesAreLinked, Grows, Extends, OfItsUser, Subject
  <1> QED BY <1>1, <1>2, <1>3 DEF RequestOK, BegunIn, Grows, Extends, Asking, Checked

(* A tab that shows what it showed, whose request is where it was or       *)
(* further, is in order.                                                   *)
LEMMA TabStays ==
  ASSUME Inv, Grows, NEW t \in Tab, tab'[t] = tab[t], browserOf' = browserOf,
         tab[t].at = "waiting" =>
           /\ req'[tab[t].req].pc # "idle"
           /\ req'[tab[t].req].browser = req[tab[t].req].browser
  PROVE  TabOK(t)'
PROOF
  <1>1. TabOK(t)
    BY DEF Inv
  <1> QED BY <1>1 DEF TabOK, Grows, Extends

(* A cookie that stays or goes needs no other justification.               *)
LEMMA CookiesStay ==
  ASSUME Inv, Grows, NEW b \in Browser,
         jar'[b].temp \in {None, jar[b].temp} \/ BegunIn(jar[b].temp, b)',
         jar'[b].op = jar[b].op \/ (jar[b].op \in DOMAIN opSessions)',
         \/ jar'[b].rp \in {None, jar[b].rp}
         \/ BegunIn(code[sessions[jar[b].rp].code].attempt, b)'
  PROVE  JarOK(b)'
PROOF
  <1>1. JarOK(b) /\ jar[b].rp \in DOMAIN sessions \cup {None}
    BY DEF Inv, TypeOK
  <1>2. ASSUME jar[b].rp # None
        PROVE  code'[sessions'[jar[b].rp].code].attempt = code[sessions[jar[b].rp].code].attempt
    <2>1. sessions'[jar[b].rp] = sessions[jar[b].rp]
      BY <1>1, <1>2 DEF Grows, Extends
    <2>2. sessions[jar[b].rp].code \in DOMAIN code
      BY <1>1, <1>2 DEF Inv, SessionsAreLinked, OfItsUser
    <2> QED BY <2>1, <2>2 DEF Grows, Extends
  <1> QED BY <1>1, <1>2 DEF JarOK, BegunIn, Grows, Extends

LEMMA JarStays ==
  ASSUME Inv, Grows, NEW b \in Browser, jar'[b] = jar[b]
  PROVE  JarOK(b)'
PROOF
  BY CookiesStay

-----------------------------------------------------------------------------
(* Steps of requests                                                       *)

(* r goes on, the browsers stay, and no other request moves.               *)
LEMMA ServerStep ==
  ASSUME Inv, Grows, NEW r \in Request, req[r].pc # "idle",
         UNCHANGED <<browserOf, jar, tab>>,
         req' \in [Request -> RequestState],
         \A o \in Request \ {r} : \/ req'[o] = req[o]
                                  \/ req'[o] = [req[o] EXCEPT !.live = FALSE],
         req'[r].pc # "idle", req'[r].browser = req[r].browser,
         RequestOK(r)'
  PROVE  /\ (\A o \in Request : RequestOK(o))'
         /\ (\A t \in Tab : TabOK(t))'
         /\ OneWaits'
         /\ (\A b \in Browser : JarOK(b))'
PROOF
  <1>1. (\A o \in Request : RequestOK(o))'
    BY RequestStays
  <1>2. ASSUME NEW o \in Request
        PROVE  /\ req[o].pc # "idle" => req'[o].pc # "idle"
               /\ req'[o].browser = req[o].browser
    BY DEF Inv, TypeOK, RequestState
  <1>3. ASSUME NEW t \in Tab PROVE TabOK(t)'
    <2>1. tab[t].at = "waiting" => tab[t].req \in Request /\ req[tab[t].req].pc # "idle"
      BY DEF Inv, TabOK
    <2> QED BY <1>2, <2>1, TabStays
  <1>4. OneWaits'
    BY DEF Inv, OneWaits
  <1>5. (\A b \in Browser : JarOK(b))'
    BY JarStays
  <1> QED BY <1>1, <1>3, <1>4, <1>5

(* Only requests and sessions that are marked change: the tables stay.     *)
LEMMA StillGrows ==
  ASSUME UNCHANGED <<opSessions, code, users, sessions, begun>>
  PROVE  Grows
PROOF
  BY SameExtends DEF Grows

LEMMA LinksStay ==
  ASSUME Inv, Grows, UNCHANGED <<code, sessions>>
  PROVE  CodesAreLinked' /\ SessionsAreLinked'
PROOF
  <1>1. CodesAreLinked'
    BY DEF Inv, CodesAreLinked, Grows, Extends
  <1>2. ASSUME NEW s \in DOMAIN sessions
        PROVE  OfItsUser(sessions[s].user, sessions[s].code)'
    <2>1. OfItsUser(sessions[s].user, sessions[s].code)
      BY DEF Inv, SessionsAreLinked
    <2> QED
      BY <2>1 DEF Inv, TypeOK, CodeRow, CodesAreLinked, Grows, Extends, OfItsUser, Subject
  <1> QED BY <1>1, <1>2 DEF SessionsAreLinked

LEMMA ExchangeKeepsInv == ASSUME Inv, NEW r \in Request, Exchange(r) PROVE Inv'
PROOF
  <1>1. Grows
    BY StillGrows DEF Exchange, opTables, rpTables
  <1>2. /\ req[r] \in RequestState /\ RequestOK(r) /\ req[r].pc = "exchange"
    BY DEF Inv, TypeOK, Exchange
  <1> DEFINE next == IF Acceptable(r) THEN "redeem" ELSE "fail"
             hit(o) == Replayed(r) /\ code[req[o].code].session = code[req[r].code].session
             other(o) == [req[o] EXCEPT !.live = @ /\ ~hit(o)]
  <1>3. req' = [o \in Request |-> IF o = r THEN [req[r] EXCEPT !.pc = next] ELSE other(o)]
    BY DEF Exchange
  <1>4. next \in {"redeem", "fail"}
    OBVIOUS
  <1>5. [req[r] EXCEPT !.pc = next] \in RequestState
    BY <1>2 DEF RequestState
  <1>6. ASSUME NEW o \in Request \ {r}
        PROVE  /\ other(o) \in RequestState
               /\ other(o) = req[o] \/ other(o) = [req[o] EXCEPT !.live = FALSE]
    <2>1. req[o] \in RequestState
      BY DEF Inv, TypeOK
    <2>2. CASE hit(o)
      <3>1. (req[o].live /\ ~hit(o)) = FALSE
        BY <2>2
      <3>2. other(o) = [req[o] EXCEPT !.live = FALSE]
        BY <3>1
      <3> QED BY <2>1, <3>2 DEF RequestState
    <2>3. CASE ~hit(o)
      <3>1. (req[o].live /\ ~hit(o)) = req[o].live
        BY <2>1, <2>3 DEF RequestState
      <3>2. other(o) = req[o]
        BY <2>1, <3>1 DEF RequestState
      <3> QED BY <2>1, <3>2
    <2> QED BY <2>2, <2>3
  <1> HIDE DEF other
  <1>7. req' \in [Request -> RequestState]
    BY <1>3, <1>5, <1>6
  <1>8. /\ req'[r].pc = next
        /\ req'[r].code = req[r].code /\ req'[r].expected = req[r].expected
        /\ req'[r].browser = req[r].browser
    BY <1>2, <1>3 DEF RequestState
  <1>9. ASSUME NEW o \in Request \ {r}
        PROVE  req'[o] = req[o] \/ req'[o] = [req[o] EXCEPT !.live = FALSE]
    BY <1>6, <1>3
  <1>10. RequestOK(r)'
    BY <1>2, <1>8 DEF RequestOK, BegunIn, Asking, Checked, Acceptable, Exchange, opTables
  <1>11. /\ (\A o \in Request : RequestOK(o))' /\ (\A t \in Tab : TabOK(t))'
        /\ OneWaits' /\ (\A b \in Browser : JarOK(b))'
    <2>1. UNCHANGED <<browserOf, jar, tab>>
      BY DEF Exchange
    <2>2. req'[r].pc # "idle" /\ req[r].pc # "idle" /\ req[r].pc \in Asking
      BY <1>2, <1>8, <1>4 DEF Asking
    <2> HIDE DEF next
    <2> QED BY <1>1, <1>7, <1>9, <1>8, <1>10, <2>1, <2>2, ServerStep
  <1>12. CodesAreLinked' /\ SessionsAreLinked'
    BY <1>1, LinksStay DEF Exchange, opTables, rpTables
  <1>13. TypeOK'
    BY <1>7 DEF Inv, TypeOK, Exchange, opTables, rpTables
  <1> QED BY <1>11, <1>12, <1>13 DEF Inv

(* Redeem, FetchUserInfo, SelectUser and the failures move one request.    *)
LEMMA MoveKeepsInv ==
  ASSUME Inv, NEW r \in Request, NEW q \in RequestState,
         req' = [req EXCEPT ![r] = q], q.pc # "idle",
         req[r].pc # "idle", q.browser = req[r].browser, RequestOK(r)',
         UNCHANGED <<browserOf, opSessions, code, users, sessions, begun, jar, tab>>,
         used' \subseteq DOMAIN code, revoked' \subseteq DOMAIN sessions,
         reloads' \in Nat, faults' \in Nat
  PROVE  Inv'
PROOF
  <1>1. Grows
    BY StillGrows
  <1>2. /\ req' \in [Request -> RequestState] /\ req'[r] = q
        /\ \A o \in Request \ {r} : req'[o] = req[o]
    BY DEF Inv, TypeOK
  <1>3. /\ (\A o \in Request : RequestOK(o))' /\ (\A t \in Tab : TabOK(t))'
        /\ OneWaits' /\ (\A b \in Browser : JarOK(b))'
    BY <1>1, <1>2, ServerStep
  <1>4. CodesAreLinked' /\ SessionsAreLinked'
    BY <1>1, LinksStay
  <1>5. TypeOK'
    BY <1>2 DEF Inv, TypeOK
  <1> QED BY <1>3, <1>4, <1>5 DEF Inv

LEMMA RedeemKeepsInv == ASSUME Inv, NEW r \in Request, Redeem(r) PROVE Inv'
PROOF
  <1> DEFINE q == [req[r] EXCEPT !.pc = "userinfo", !.live = TRUE]
  <1>1. req[r] \in RequestState /\ RequestOK(r) /\ req[r].pc = "redeem"
    BY DEF Inv, TypeOK, Redeem
  <1>2. /\ q \in RequestState /\ q.pc = "userinfo" /\ q.code = req[r].code
        /\ q.expected = req[r].expected /\ q.browser = req[r].browser
    BY <1>1 DEF RequestState
  <1>3. req' = [req EXCEPT ![r] = q]
    BY DEF Redeem
  <1>4. UNCHANGED <<browserOf, opSessions, code, users, sessions, revoked, begun, jar, tab, reloads, faults>>
    BY DEF Redeem, rpTables
  <1> HIDE DEF q
  <1>5. req'[r] = q
    BY <1>3 DEF Inv, TypeOK
  <1>6. RequestOK(r)'
    BY <1>1, <1>2, <1>4, <1>5 DEF RequestOK, BegunIn, Asking, Checked
  <1>7. used' \subseteq DOMAIN code
    BY <1>1 DEF Redeem, RequestOK, Asking, Inv, TypeOK
  <1>8. revoked' \subseteq DOMAIN sessions /\ reloads' \in Nat /\ faults' \in Nat
    BY <1>4 DEF Inv, TypeOK
  <1> QED BY <1>1, <1>2, <1>3, <1>4, <1>6, <1>7, <1>8, MoveKeepsInv DEF Asking

(* A request that only goes to another pc, or gives up.                    *)
LEMMA GotoKeepsInv ==
  ASSUME Inv, NEW r \in Request, NEW pc, Goto(r, pc),
         \/ req[r].pc = "userinfo" /\ pc = "selectUser"
         \/ req[r].pc = "selectUser" /\ pc = "insertUser"
         \/ req[r].pc \in Asking /\ pc = "fail"
         \/ req[r].pc = "revoke" /\ pc = "cleared",
         UNCHANGED <<browserOf, opSessions, code, used, users, sessions, begun, jar, tab>>,
         revoked' \subseteq DOMAIN sessions, reloads' \in Nat, faults' \in Nat
  PROVE  Inv'
PROOF
  <1> DEFINE q == [req[r] EXCEPT !.pc = pc]
  <1>1. req[r] \in RequestState /\ RequestOK(r)
    BY DEF Inv, TypeOK
  <1>2. pc \in {"selectUser", "insertUser", "fail", "cleared"}
    OBVIOUS
  <1>3. /\ q \in RequestState /\ q.pc = pc /\ q.code = req[r].code
        /\ q.expected = req[r].expected /\ q.browser = req[r].browser
    BY <1>1, <1>2 DEF RequestState
  <1>4. req' = [req EXCEPT ![r] = q]
    BY DEF Goto
  <1> HIDE DEF q
  <1>5. req'[r] = q
    BY <1>4 DEF Inv, TypeOK
  <1>6. RequestOK(r)'
    BY <1>1, <1>3, <1>5 DEF RequestOK, BegunIn, Asking, Checked
  <1>7. used' \subseteq DOMAIN code
    BY DEF Inv, TypeOK
  <1>8. q.pc # "idle" /\ req[r].pc # "idle"
    BY <1>3 DEF Asking
  <1> QED BY <1>3, <1>4, <1>6, <1>7, <1>8, MoveKeepsInv

LEMMA FetchUserInfoKeepsInv == ASSUME Inv, NEW r \in Request, FetchUserInfo(r) PROVE Inv'
PROOF
  <1>1. revoked' \subseteq DOMAIN sessions /\ reloads' \in Nat /\ faults' \in Nat
    BY DEF Inv, TypeOK, FetchUserInfo, rpTables
  <1>2. UNCHANGED <<browserOf, opSessions, code, used, users, sessions, begun, jar, tab>>
    BY DEF FetchUserInfo, opTables, rpTables
  <1>3. req[r].pc = "userinfo" /\ req[r].pc \in Asking
    BY DEF FetchUserInfo, Asking
  <1>4. CASE req[r].live
    BY <1>1, <1>2, <1>3, <1>4, GotoKeepsInv DEF FetchUserInfo
  <1>5. CASE ~req[r].live
    BY <1>1, <1>2, <1>3, <1>5, GotoKeepsInv DEF FetchUserInfo
  <1> QED BY <1>4, <1>5

LEMMA RevokeSessionKeepsInv == ASSUME Inv, NEW r \in Request, RevokeSession(r) PROVE Inv'
PROOF
  <1>1. req[r].pc = "revoke" /\ Goto(r, "cleared")
    BY DEF RevokeSession
  <1>2. revoked' \subseteq DOMAIN sessions /\ reloads' \in Nat /\ faults' \in Nat
    BY <1>1 DEF Inv, TypeOK, RequestOK, RevokeSession
  <1>3. UNCHANGED <<browserOf, opSessions, code, used, users, sessions, begun, jar, tab>>
    BY DEF RevokeSession, opTables
  <1> QED BY <1>1, <1>2, <1>3, GotoKeepsInv

LEMMA AbortCallbackKeepsInv == ASSUME Inv, NEW r \in Request, AbortCallback(r) PROVE Inv'
PROOF
  <1>1. req[r].pc \in Asking /\ Goto(r, "fail")
    BY DEF AbortCallback, Asking
  <1>2. revoked' \subseteq DOMAIN sessions /\ reloads' \in Nat /\ faults' \in Nat
    BY DEF Inv, TypeOK, AbortCallback, Fault, rpTables
  <1>3. UNCHANGED <<browserOf, opSessions, code, used, users, sessions, begun, jar, tab>>
    BY DEF AbortCallback, opTables, rpTables
  <1> QED BY <1>1, <1>2, <1>3, GotoKeepsInv

LEMMA SelectUserKeepsInv == ASSUME Inv, NEW r \in Request, SelectUser(r) PROVE Inv'
PROOF
  <1> DEFINE found == RowsOf(Subject(req[r].code))
             u == CHOOSE x \in found : TRUE
             q == [req[r] EXCEPT !.pc = "insertSession", !.user = u]
  <1>1. req[r] \in RequestState /\ RequestOK(r) /\ req[r].pc = "selectUser"
    BY DEF Inv, TypeOK, SelectUser
  <1>2. /\ revoked' \subseteq DOMAIN sessions /\ reloads' \in Nat /\ faults' \in Nat
        /\ used' \subseteq DOMAIN code
    BY DEF Inv, TypeOK, SelectUser, opTables, rpTables
  <1>3. UNCHANGED <<browserOf, opSessions, code, used, users, sessions, begun, jar, tab>>
    BY DEF SelectUser, opTables, rpTables
  <1>4. CASE found # {}
    <2>1. u \in found
      BY <1>4
    <2>2. u \in DOMAIN users /\ users[u] = Subject(req[r].code) /\ u \in RpUser
      BY <2>1 DEF RowsOf, Inv, TypeOK
    <2> HIDE DEF u
    <2>3. /\ q \in RequestState /\ q.pc = "insertSession" /\ q.code = req[r].code
          /\ q.expected = req[r].expected /\ q.browser = req[r].browser /\ q.user = u
      BY <1>1, <2>2 DEF RequestState
    <2>4. req' = [req EXCEPT ![r] = q]
      BY <1>4 DEF SelectUser, u
    <2> HIDE DEF q
    <2>5. req'[r] = q
      BY <2>4 DEF Inv, TypeOK
    <2>6. RequestOK(r)'
      <3>1. OfItsUser(req[r].user, req[r].code)'
        BY <1>1, <1>3, <2>2, <2>3, <2>5 DEF RequestOK, Asking, OfItsUser, Subject
      <3> QED BY <1>1, <1>3, <2>3, <2>5, <3>1 DEF RequestOK, BegunIn, Asking, Checked
    <2> QED BY <1>1, <1>2, <1>3, <2>3, <2>4, <2>6, MoveKeepsInv DEF Asking
  <1>5. CASE found = {}
    <2>1. Goto(r, "insertUser")
      BY <1>5 DEF SelectUser, Goto
    <2> QED BY <1>1, <1>2, <1>3, <2>1, GotoKeepsInv
  <1> QED BY <1>4, <1>5

LEMMA InsertUserKeepsInv == ASSUME Inv, NEW r \in Request, InsertUser(r) PROVE Inv'
PROOF
  <1> DEFINE sub == Subject(req[r].code)
  <1>1. req[r] \in RequestState /\ RequestOK(r) /\ req[r].pc = "insertUser"
    BY DEF Inv, TypeOK, InsertUser
  <1>2. UNCHANGED <<browserOf, opSessions, code, used, sessions, revoked, begun, jar, tab, reloads, faults>>
    BY DEF InsertUser, opTables
  <1>3. CASE RowsOf(sub) # {}
    <2>1. Goto(r, "fail") /\ UNCHANGED users
      BY <1>3 DEF InsertUser
    <2>2. revoked' \subseteq DOMAIN sessions /\ reloads' \in Nat /\ faults' \in Nat
      BY <1>2 DEF Inv, TypeOK
    <2> QED BY <1>1, <1>2, <2>1, <2>2, GotoKeepsInv DEF Asking
  <1>4. CASE RowsOf(sub) = {}
    <2>1. PICK u \in Fresh(RpUser, users) :
            /\ users' = Insert(users, u, sub)
            /\ req' = [req EXCEPT ![r] = [@ EXCEPT !.pc = "insertSession", !.user = u]]
      BY <1>4 DEF InsertUser
    <2>2. /\ u \in RpUser /\ Extends(users', users)
          /\ DOMAIN users' = DOMAIN users \cup {u} /\ users'[u] = sub
      <3> HIDE DEF sub
      <3>1. /\ u \in RpUser /\ Extends(Insert(users, u, sub), users)
            /\ DOMAIN Insert(users, u, sub) = DOMAIN users \cup {u}
            /\ Insert(users, u, sub)[u] = sub
        BY DEF Fresh, Insert, Extends
      <3> QED BY <2>1, <3>1
    <2>3. Grows
      BY <1>2, <2>2, SameExtends DEF Grows
    <2>4. /\ req' \in [Request -> RequestState]
          /\ \A o \in Request \ {r} : req'[o] = req[o]
          /\ req'[r].pc = "insertSession" /\ req'[r].user = u
          /\ req'[r].code = req[r].code /\ req'[r].expected = req[r].expected
          /\ req'[r].browser = req[r].browser
      <3> DEFINE q == [req[r] EXCEPT !.pc = "insertSession", !.user = u]
      <3>1. /\ q \in RequestState /\ q.pc = "insertSession" /\ q.user = u
            /\ q.code = req[r].code /\ q.expected = req[r].expected /\ q.browser = req[r].browser
        BY <1>1, <2>2 DEF RequestState
      <3>2. req' = [req EXCEPT ![r] = q]
        BY <2>1
      <3> HIDE DEF q
      <3> QED BY <3>1, <3>2 DEF Inv, TypeOK
    <2>5. code[req[r].code].session \in DOMAIN opSessions /\ req[r].code \in DOMAIN code
      BY <1>1 DEF RequestOK, Asking, Inv, CodesAreLinked
    <2>6. sub \in User
      BY <2>5 DEF Inv, TypeOK, Subject
    <2>7. RequestOK(r)'
      <3>1. OfItsUser(req[r].user, req[r].code)'
        BY <1>2, <2>2, <2>4, <2>5 DEF OfItsUser, Subject
      <3> QED BY <1>1, <1>2, <2>4, <3>1 DEF RequestOK, BegunIn, Asking, Checked
    <2>8. /\ (\A o \in Request : RequestOK(o))' /\ (\A t \in Tab : TabOK(t))'
          /\ OneWaits' /\ (\A b \in Browser : JarOK(b))'
      BY <1>1, <1>2, <2>3, <2>4, <2>7, ServerStep DEF Asking
    <2>9. CodesAreLinked' /\ SessionsAreLinked'
      BY <1>2, <2>3, LinksStay
    <2>10. DOMAIN users' \subseteq RpUser /\ \A x \in DOMAIN users' : users'[x] \in User
      BY <2>2, <2>6 DEF Inv, TypeOK, Extends
    <2>11. \A s \in DOMAIN sessions : sessions[s].user \in DOMAIN users'
      BY <2>2 DEF Inv, TypeOK
    <2>12. TypeOK'
      BY <1>2, <2>4, <2>10, <2>11 DEF Inv, TypeOK
    <2> QED BY <2>8, <2>9, <2>12 DEF Inv
  <1> QED BY <1>3, <1>4

LEMMA CreateSessionKeepsInv == ASSUME Inv, NEW r \in Request, CreateSession(r) PROVE Inv'
PROOF
  <1>1. req[r] \in RequestState /\ RequestOK(r) /\ req[r].pc = "insertSession"
    BY DEF Inv, TypeOK, CreateSession
  <1>2. UNCHANGED <<browserOf, opSessions, code, used, users, revoked, begun, jar, tab, reloads, faults>>
    BY DEF CreateSession, opTables
  <1>3. PICK s \in Fresh(RpSession, sessions) :
          /\ sessions' = Insert(sessions, s, [user |-> req[r].user, code |-> req[r].code])
          /\ req' = [req EXCEPT ![r] = [@ EXCEPT !.pc = "answer", !.session = s]]
    BY DEF CreateSession
  <1>4. /\ s \in RpSession /\ Extends(sessions', sessions)
        /\ DOMAIN sessions' = DOMAIN sessions \cup {s}
        /\ sessions'[s] = [user |-> req[r].user, code |-> req[r].code]
    <2> DEFINE row == [user |-> req[r].user, code |-> req[r].code]
    <2>1. sessions' = Insert(sessions, s, row)
      BY <1>3
    <2> HIDE DEF row
    <2>2. /\ s \in RpSession /\ Extends(Insert(sessions, s, row), sessions)
          /\ DOMAIN Insert(sessions, s, row) = DOMAIN sessions \cup {s}
          /\ Insert(sessions, s, row)[s] = row
      BY DEF Fresh, Insert, Extends
    <2> QED BY <2>1, <2>2 DEF row
  <1>5. Grows
    BY <1>2, <1>4, SameExtends DEF Grows
  <1>6. /\ req' \in [Request -> RequestState]
        /\ \A o \in Request \ {r} : req'[o] = req[o]
        /\ req'[r].pc = "answer" /\ req'[r].session = s /\ req'[r].user = req[r].user
        /\ req'[r].code = req[r].code /\ req'[r].expected = req[r].expected
        /\ req'[r].browser = req[r].browser
    <2> DEFINE q == [req[r] EXCEPT !.pc = "answer", !.session = s]
    <2>1. /\ q \in RequestState /\ q.pc = "answer" /\ q.session = s /\ q.user = req[r].user
          /\ q.code = req[r].code /\ q.expected = req[r].expected /\ q.browser = req[r].browser
      BY <1>1, <1>4 DEF RequestState
    <2>2. req' = [req EXCEPT ![r] = q]
      BY <1>3
    <2> HIDE DEF q
    <2> QED BY <2>1, <2>2 DEF Inv, TypeOK
  <1>7. OfItsUser(req[r].user, req[r].code)
    BY <1>1 DEF RequestOK
  <1>8. OfItsUser(req[r].user, req[r].code)'
    BY <1>2, <1>6, <1>7 DEF OfItsUser, Subject
  <1>9. RequestOK(r)'
    BY <1>1, <1>2, <1>4, <1>6, <1>8 DEF RequestOK, BegunIn, Asking, Checked
  <1>10. /\ (\A o \in Request : RequestOK(o))' /\ (\A t \in Tab : TabOK(t))'
         /\ OneWaits' /\ (\A b \in Browser : JarOK(b))'
    BY <1>1, <1>2, <1>5, <1>6, <1>9, ServerStep DEF Asking
  <1>11. CodesAreLinked'
    BY <1>2 DEF Inv, CodesAreLinked
  <1>12. SessionsAreLinked'
    <2>1. ASSUME NEW x \in DOMAIN sessions'
          PROVE  OfItsUser(sessions[x].user, sessions[x].code)'
      <3>1. CASE x = s
        BY <1>2, <1>4, <1>7, <3>1 DEF OfItsUser, Subject
      <3>2. CASE x # s
        BY <1>2, <1>4, <3>2 DEF Inv, SessionsAreLinked, OfItsUser, Subject, Extends
      <3> QED BY <3>1, <3>2
    <2> QED BY <2>1 DEF SessionsAreLinked
  <1>13. /\ sessions'[s] \in SessionRow /\ sessions'[s].user \in DOMAIN users
    BY <1>4, <1>7 DEF OfItsUser, SessionRow, Inv, TypeOK
  <1>14. TypeOK'
    BY <1>2, <1>4, <1>6, <1>13 DEF Inv, TypeOK, Extends
  <1> QED BY <1>10, <1>11, <1>12, <1>14 DEF Inv

-----------------------------------------------------------------------------
(* Steps of browsers                                                       *)

(* A tab that goes to a page where it waits for nothing.                   *)
LEMMA PageStep ==
  ASSUME Inv, Grows, NEW t \in Tab, NEW p \in TabState, p.at # "waiting",
         tab' = [tab EXCEPT ![t] = p], TabOK(t)',
         UNCHANGED <<browserOf, req>>
  PROVE  /\ tab' \in [Tab -> TabState]
         /\ (\A r \in Request : RequestOK(r))'
         /\ (\A o \in Tab : TabOK(o))'
         /\ OneWaits'
PROOF
  <1>1. /\ tab' \in [Tab -> TabState] /\ tab'[t] = p
        /\ \A o \in Tab \ {t} : tab'[o] = tab[o]
    BY DEF Inv, TypeOK
  <1>2. (\A r \in Request : RequestOK(r))'
    BY RequestStays
  <1>3. ASSUME NEW o \in Tab PROVE TabOK(o)'
    <2>1. tab[o].at = "waiting" => req[tab[o].req].pc # "idle"
      BY DEF Inv, TabOK
    <2> QED BY <1>1, <2>1, TabStays
  <1>4. OneWaits'
    BY <1>1 DEF Inv, OneWaits
  <1> QED BY <1>1, <1>2, <1>3, <1>4

(* Only the page changes: a tab reloads, leaves, opens another address.    *)
LEMMA PageKeepsInv ==
  ASSUME Inv, NEW t \in Tab, NEW p \in TabState, p.at # "waiting", Show(t, p),
         p.at \in {"authorize", "loginPage", "callback"} => p.attempt \in DOMAIN begun,
         p.at = "callback" => p.code \in DOMAIN code,
         UNCHANGED <<browserOf, opSessions, code, used, users, sessions, revoked, begun, jar, req>>,
         reloads' \in Nat, faults' \in Nat
  PROVE  Inv'
PROOF
  <1>1. Grows
    BY StillGrows
  <1>2. tab' = [tab EXCEPT ![t] = p] /\ tab'[t] = p
    BY DEF Show, Inv, TypeOK
  <1>3. TabOK(t)'
    BY <1>2 DEF TabOK
  <1>4. /\ tab' \in [Tab -> TabState] /\ (\A r \in Request : RequestOK(r))'
        /\ (\A o \in Tab : TabOK(o))' /\ OneWaits'
    BY <1>1, <1>2, <1>3, PageStep
  <1>5. (\A b \in Browser : JarOK(b))'
    BY <1>1, JarStays
  <1>6. CodesAreLinked' /\ SessionsAreLinked'
    BY <1>1, LinksStay
  <1>7. TypeOK'
    BY <1>4 DEF Inv, TypeOK
  <1> QED BY <1>4, <1>5, <1>6, <1>7 DEF Inv

LEMMA HomeIsAPage ==
  /\ Home \in TabState /\ Home.at = "home" /\ Home.code = None
  /\ \A page \in Page : /\ [Home EXCEPT !.at = page] \in TabState
                        /\ [Home EXCEPT !.at = page].at = page
                        /\ [Home EXCEPT !.at = page].code = None
PROOF
  BY DEF Home, TabState, Page

LEMMA LeaveKeepsInv == ASSUME Inv, NEW t \in Tab, Leave(t) PROVE Inv'
PROOF
  <1>1. UNCHANGED <<browserOf, opSessions, code, used, users, sessions, revoked, begun, jar, req>>
    BY DEF Leave, opTables, rpTables
  <1>2. reloads' \in Nat /\ faults' \in Nat
    BY DEF Inv, TypeOK, Leave
  <1>3. Show(t, Home)
    BY DEF Leave
  <1> QED BY <1>1, <1>2, <1>3, HomeIsAPage, PageKeepsInv

LEMMA OpenDashboardKeepsInv == ASSUME Inv, NEW t \in Tab, OpenDashboard(t) PROVE Inv'
PROOF
  <1> DEFINE p == [Home EXCEPT !.at = "dashboard"]
  <1>1. UNCHANGED <<browserOf, opSessions, code, used, users, sessions, revoked, begun, jar, req>>
    BY DEF OpenDashboard, opTables, rpTables
  <1>2. reloads' \in Nat /\ faults' \in Nat
    BY DEF Inv, TypeOK, OpenDashboard
  <1>3. Show(t, p) /\ p \in TabState /\ p.at = "dashboard"
    BY HomeIsAPage DEF OpenDashboard, Page
  <1> HIDE DEF p
  <1> QED BY <1>1, <1>2, <1>3, PageKeepsInv

LEMMA ReopenKeepsInv == ASSUME Inv, NEW t \in Tab, NEW o \in Tab, Reopen(t, o) PROVE Inv'
PROOF
  <1>1. UNCHANGED <<browserOf, opSessions, code, used, users, sessions, revoked, begun, jar, req>>
    BY DEF Reopen, opTables, rpTables
  <1>2. reloads' \in Nat /\ faults' \in Nat
    BY DEF Inv, TypeOK, Reopen
  <1>3. Show(t, tab[o]) /\ tab[o] \in TabState /\ tab[o].at = "callback" /\ TabOK(o)
    BY DEF Inv, TypeOK, Reopen
  <1>4. tab[o].attempt \in DOMAIN begun /\ tab[o].code \in DOMAIN code
    BY <1>3 DEF TabOK
  <1> QED BY <1>1, <1>2, <1>3, <1>4, PageKeepsInv

LEMMA ReloadKeepsInv == ASSUME Inv, NEW t \in Tab, Reload(t) PROVE Inv'
PROOF
  <1> DEFINE p == [tab[t] EXCEPT !.at = "callback", !.req = None]
  <1>1. UNCHANGED <<browserOf, opSessions, code, used, users, sessions, revoked, begun, jar, req>>
    BY DEF Reload, opTables, rpTables
  <1>2. reloads' \in Nat /\ faults' \in Nat
    BY DEF Inv, TypeOK, Reload
  <1>3. tab[t] \in TabState /\ TabOK(t)
    BY DEF Inv, TypeOK
  <1>4. tab[t].attempt \in DOMAIN begun /\ tab[t].code \in DOMAIN code
    BY <1>3 DEF TabOK, Reload
  <1>5. /\ p \in TabState /\ p.at = "callback"
        /\ p.attempt = tab[t].attempt /\ p.code = tab[t].code
    BY <1>3 DEF TabState, Page
  <1>6. Show(t, p)
    BY DEF Reload
  <1> HIDE DEF p
  <1> QED BY <1>1, <1>2, <1>4, <1>5, <1>6, PageKeepsInv

LEMMA ClickLoginKeepsInv == ASSUME Inv, NEW t \in Tab, ClickLogin(t) PROVE Inv'
PROOF
  <1>0. PICK b \in Browser : b = browserOf[t]
    BY DEF Inv, TypeOK
  <1>1. UNCHANGED <<browserOf, opSessions, code, used, users, sessions, revoked, req, reloads, faults>>
    BY DEF ClickLogin, opTables, rpTables
  <1>2. PICK a \in Fresh(Attempt, begun) :
          /\ begun' = Insert(begun, a, b)
          /\ jar' = [jar EXCEPT ![b] = [jar[b] EXCEPT !.temp = a]]
          /\ tab' = [tab EXCEPT ![t] = [Home EXCEPT !.at = "authorize", !.attempt = a]]
    BY <1>0 DEF ClickLogin, SetCookie, Show
  <1>3. jar[b] \in Jar
    BY DEF Inv, TypeOK
  <1>4. /\ a \in Attempt /\ Extends(begun', begun)
        /\ DOMAIN begun' = DOMAIN begun \cup {a} /\ begun'[a] = b
    BY <1>2 DEF Fresh, Insert, Extends
  <1>5. Grows
    BY <1>1, <1>4, SameExtends DEF Grows
  <1> DEFINE p == [Home EXCEPT !.at = "authorize", !.attempt = a]
             c == [jar[b] EXCEPT !.temp = a]
  <1>6. p \in TabState /\ p.at = "authorize" /\ p.attempt = a
    BY <1>4 DEF Home, TabState, Page
  <1>7. c \in Jar /\ c.temp = a /\ c.op = jar[b].op /\ c.rp = jar[b].rp
    BY <1>3, <1>4 DEF Jar
  <1>8. jar' = [jar EXCEPT ![b] = c] /\ tab' = [tab EXCEPT ![t] = p]
    BY <1>2
  <1> HIDE DEF p, c
  <1>9. TabOK(t)'
    <2>1. tab'[t] = p
      BY <1>8 DEF Inv, TypeOK
    <2> QED BY <1>4, <1>6, <2>1 DEF TabOK
  <1>10. /\ tab' \in [Tab -> TabState] /\ (\A r \in Request : RequestOK(r))'
         /\ (\A o \in Tab : TabOK(o))' /\ OneWaits'
    BY <1>1, <1>5, <1>6, <1>8, <1>9, PageStep
  <1>11. jar' \in [Browser -> Jar] /\ jar'[b] = c /\ \A d \in Browser \ {b} : jar'[d] = jar[d]
    BY <1>3, <1>7, <1>8 DEF Inv, TypeOK
  <1>12. JarOK(b)'
    <2>1. BegunIn(jar[b].temp, b)'
      BY <1>4, <1>7, <1>11, <1>1 DEF BegunIn
    <2> QED BY <1>3, <1>5, <1>7, <1>11, <2>1, CookiesStay
  <1>13. (\A d \in Browser : JarOK(d))'
    BY <1>5, <1>11, <1>12, JarStays
  <1>14. CodesAreLinked' /\ SessionsAreLinked'
    BY <1>1, <1>5, LinksStay
  <1>15. TypeOK'
    <2>1. \A d \in Browser : jar'[d].rp \in DOMAIN sessions \cup {None}
      BY <1>7, <1>11 DEF Inv, TypeOK
    <2>2. DOMAIN begun' \subseteq Attempt /\ \A x \in DOMAIN begun' : begun'[x] \in Browser
      BY <1>3, <1>4 DEF Inv, TypeOK, Extends
    <2> QED BY <1>1, <1>10, <1>11, <2>1, <2>2 DEF Inv, TypeOK
  <1> QED BY <1>10, <1>13, <1>14, <1>15 DEF Inv

LEMMA AuthorizeKeepsInv == ASSUME Inv, NEW t \in Tab, Authorize(t) PROVE Inv'
PROOF
  <1> DEFINE b == browserOf[t]
  <1>1. UNCHANGED <<browserOf, opSessions, used, users, sessions, revoked, begun, jar, req>>
    BY DEF Authorize, rpTables
  <1>2. b \in Browser /\ tab[t] \in TabState /\ tab[t].attempt \in DOMAIN begun
    BY DEF Inv, TypeOK, TabOK, Authorize
  <1>3. reloads' \in Nat /\ faults' \in Nat
    <2>1. UNCHANGED <<reloads, faults>> \/ Fault
      BY DEF Authorize
    <2> QED BY <2>1 DEF Inv, TypeOK, Fault
  <1>4. CASE Show(t, [tab[t] EXCEPT !.at = "loginPage"]) /\ UNCHANGED code
    <2> DEFINE p == [tab[t] EXCEPT !.at = "loginPage"]
    <2>1. p \in TabState /\ p.at = "loginPage" /\ p.attempt = tab[t].attempt
      BY <1>2 DEF TabState, Page
    <2>2. Show(t, p) /\ UNCHANGED code
      BY <1>4
    <2> HIDE DEF p, b
    <2> QED BY <1>1, <1>2, <1>3, <2>1, <2>2, PageKeepsInv
  <1>5. CASE /\ jar[b].op # None
             /\ \E k \in Fresh(Code, code) :
                  /\ code' = Insert(code, k, [session |-> jar[b].op, attempt |-> tab[t].attempt])
                  /\ Show(t, [tab[t] EXCEPT !.at = "callback", !.code = k])
    <2> DEFINE row == [session |-> jar[b].op, attempt |-> tab[t].attempt]
    <2>1. PICK k \in Fresh(Code, code) :
            /\ code' = Insert(code, k, row)
            /\ tab' = [tab EXCEPT ![t] = [tab[t] EXCEPT !.at = "callback", !.code = k]]
      BY <1>5 DEF Show
    <2>2. /\ jar[b].op \in DOMAIN opSessions
          /\ row \in CodeRow /\ row.session = jar[b].op /\ row.attempt = tab[t].attempt
      BY <1>2, <1>5 DEF Inv, TypeOK, JarOK, CodeRow
    <2> HIDE DEF row, b
    <2>3. /\ k \in Code /\ Extends(code', code)
          /\ DOMAIN code' = DOMAIN code \cup {k} /\ code'[k] = row /\ k \notin DOMAIN code
      BY <2>1 DEF Fresh, Insert, Extends
    <2>4. Grows
      BY <1>1, <2>3, SameExtends DEF Grows
    <2> DEFINE p == [tab[t] EXCEPT !.at = "callback", !.code = k]
    <2>5. p \in TabState /\ p.at = "callback" /\ p.attempt = tab[t].attempt /\ p.code = k
      BY <1>2, <2>3 DEF TabState, Page
    <2>6. tab' = [tab EXCEPT ![t] = p]
      BY <2>1
    <2> HIDE DEF p
    <2>7. TabOK(t)'
      <3>1. tab'[t] = p
        BY <2>6 DEF Inv, TypeOK
      <3> QED BY <1>1, <1>2, <2>3, <2>5, <3>1 DEF TabOK
    <2>8. /\ tab' \in [Tab -> TabState] /\ (\A r \in Request : RequestOK(r))'
          /\ (\A o \in Tab : TabOK(o))' /\ OneWaits'
      BY <1>1, <2>4, <2>5, <2>6, <2>7, PageStep
    <2>9. (\A d \in Browser : JarOK(d))'
      BY <1>1, <2>4, JarStays
    <2>10. CodesAreLinked'
      BY <1>1, <1>2, <2>2, <2>3 DEF Inv, CodesAreLinked, Extends
    <2>11. SessionsAreLinked'
      <3>1. ASSUME NEW s \in DOMAIN sessions
            PROVE  OfItsUser(sessions[s].user, sessions[s].code)'
        <4>1. OfItsUser(sessions[s].user, sessions[s].code)
          BY DEF Inv, SessionsAreLinked
        <4> QED BY <1>1, <2>3, <4>1 DEF OfItsUser, Subject, Extends
      <3> QED BY <1>1, <3>1 DEF SessionsAreLinked
    <2>12. TypeOK'
      BY <1>1, <1>3, <2>2, <2>3, <2>8 DEF Inv, TypeOK, Extends
    <2> QED BY <2>8, <2>9, <2>10, <2>11, <2>12 DEF Inv
  <1> QED BY <1>4, <1>5 DEF Authorize

LEMMA SubmitLoginKeepsInv ==
  ASSUME Inv, NEW t \in Tab, NEW u \in User, SubmitLogin(t, u)
  PROVE  Inv'
PROOF
  <1>0. PICK b \in Browser : b = browserOf[t]
    BY DEF Inv, TypeOK
  <1>1. UNCHANGED <<browserOf, code, used, users, sessions, revoked, begun, req, reloads, faults>>
    BY DEF SubmitLogin, rpTables
  <1>2. PICK s \in Fresh(OpSession, opSessions) :
          /\ opSessions' = Insert(opSessions, s, u)
          /\ jar' = [jar EXCEPT ![b] = [jar[b] EXCEPT !.op = s]]
    BY <1>0 DEF SubmitLogin, SetCookie
  <1>3. /\ jar[b] \in Jar /\ tab[t] \in TabState /\ tab[t].attempt \in DOMAIN begun
    BY DEF Inv, TypeOK, TabOK, SubmitLogin
  <1>4. /\ s \in OpSession /\ Extends(opSessions', opSessions)
        /\ DOMAIN opSessions' = DOMAIN opSessions \cup {s} /\ opSessions'[s] = u
    BY <1>2 DEF Fresh, Insert, Extends
  <1>5. Grows
    BY <1>1, <1>4, SameExtends DEF Grows
  <1> DEFINE p == [tab[t] EXCEPT !.at = "authorize"]
             c == [jar[b] EXCEPT !.op = s]
  <1>6. p \in TabState /\ p.at = "authorize" /\ p.attempt = tab[t].attempt
    BY <1>3 DEF TabState, Page
  <1>7. c \in Jar /\ c.temp = jar[b].temp /\ c.op = s /\ c.rp = jar[b].rp
    BY <1>3, <1>4 DEF Jar
  <1>8. jar' = [jar EXCEPT ![b] = c] /\ tab' = [tab EXCEPT ![t] = p]
    BY <1>2 DEF SubmitLogin, Show
  <1> HIDE DEF p, c
  <1>9. TabOK(t)'
    <2>1. tab'[t] = p
      BY <1>8 DEF Inv, TypeOK
    <2> QED BY <1>1, <1>3, <1>6, <2>1 DEF TabOK
  <1>10. /\ tab' \in [Tab -> TabState] /\ (\A r \in Request : RequestOK(r))'
         /\ (\A o \in Tab : TabOK(o))' /\ OneWaits'
    BY <1>1, <1>5, <1>6, <1>8, <1>9, PageStep
  <1>11. jar' \in [Browser -> Jar] /\ jar'[b] = c /\ \A d \in Browser \ {b} : jar'[d] = jar[d]
    BY <1>3, <1>7, <1>8 DEF Inv, TypeOK
  <1>12. JarOK(b)'
    BY <1>4, <1>5, <1>7, <1>11, CookiesStay
  <1>13. (\A d \in Browser : JarOK(d))'
    BY <1>5, <1>11, <1>12, JarStays
  <1>14. CodesAreLinked' /\ SessionsAreLinked'
    BY <1>1, <1>5, LinksStay
  <1>15. TypeOK'
    <2>1. \A d \in Browser : jar'[d].rp \in DOMAIN sessions \cup {None}
      BY <1>7, <1>11 DEF Inv, TypeOK
    <2>2. /\ DOMAIN opSessions' \subseteq OpSession
          /\ \A x \in DOMAIN opSessions' : opSessions'[x] \in User
      BY <1>4 DEF Inv, TypeOK, Extends
    <2> QED BY <1>1, <1>10, <1>11, <2>1, <2>2 DEF Inv, TypeOK
  <1> QED BY <1>10, <1>13, <1>14, <1>15 DEF Inv

LEMMA ExpireTempKeepsInv == ASSUME Inv, NEW b \in Browser, ExpireTemp(b) PROVE Inv'
PROOF
  <1> DEFINE c == [jar[b] EXCEPT !.temp = None]
  <1>1. UNCHANGED <<browserOf, opSessions, code, used, users, sessions, revoked, begun, tab, req>>
    BY DEF ExpireTemp, opTables, rpTables
  <1>2. reloads' \in Nat /\ faults' \in Nat
    BY DEF Inv, TypeOK, ExpireTemp, Fault
  <1>3. Grows
    BY <1>1, StillGrows
  <1>4. c \in Jar /\ c.temp = None /\ c.op = jar[b].op /\ c.rp = jar[b].rp
    BY DEF Inv, TypeOK, Jar
  <1>5. jar' = [jar EXCEPT ![b] = c]
    BY DEF ExpireTemp, SetCookie
  <1> HIDE DEF c
  <1>6. jar' \in [Browser -> Jar] /\ jar'[b] = c /\ \A d \in Browser \ {b} : jar'[d] = jar[d]
    BY <1>4, <1>5 DEF Inv, TypeOK
  <1>7. JarOK(b)'
    BY <1>3, <1>4, <1>6, CookiesStay
  <1>8. (\A d \in Browser : JarOK(d))'
    BY <1>3, <1>6, <1>7, JarStays
  <1>9. (\A r \in Request : RequestOK(r))'
    BY <1>1, <1>3, RequestStays
  <1>10. ASSUME NEW t \in Tab PROVE TabOK(t)'
    BY <1>1 DEF Inv, TabOK, BegunIn
  <1>11. OneWaits'
    BY <1>1 DEF Inv, OneWaits
  <1>12. CodesAreLinked' /\ SessionsAreLinked'
    BY <1>1, <1>3, LinksStay
  <1>13. TypeOK'
    BY <1>1, <1>2, <1>4, <1>6 DEF Inv, TypeOK
  <1> QED BY <1>8, <1>9, <1>10, <1>11, <1>12, <1>13 DEF Inv

(* A tab sends a request and waits for it: no other tab waits for that one.*)
LEMMA AskKeepsInv ==
  ASSUME Inv, NEW t \in Tab, NEW r \in Request, req[r].pc = "idle",
         NEW q \in RequestState, q.pc # "idle", NEW p \in TabState,
         p.at = "waiting", p.req = r,
         p.code # None => p.code \in DOMAIN code /\ p.attempt \in DOMAIN begun,
         q.browser = browserOf[t],
         req' = [req EXCEPT ![r] = q], Show(t, p), RequestOK(r)',
         UNCHANGED <<browserOf, opSessions, code, used, users, sessions, revoked, begun, jar>>,
         reloads' \in Nat, faults' \in Nat
  PROVE  Inv'
PROOF
  <1>1. Grows
    BY StillGrows
  <1>2. /\ req' \in [Request -> RequestState] /\ req'[r] = q
        /\ \A o \in Request \ {r} : req'[o] = req[o]
    BY DEF Inv, TypeOK
  <1>3. /\ tab' \in [Tab -> TabState] /\ tab'[t] = p
        /\ \A o \in Tab \ {t} : tab'[o] = tab[o]
    BY DEF Inv, TypeOK, Show
  <1>4. \A o \in Tab : tab[o].at = "waiting" =>
          /\ tab[o].req \in Request \ {r} /\ req[tab[o].req].pc # "idle"
    BY DEF Inv, TabOK
  <1>5. (\A o \in Request : RequestOK(o))'
    BY <1>1, <1>2, RequestStays
  <1>6. ASSUME NEW o \in Tab PROVE TabOK(o)'
    <2>1. CASE o = t
      BY <1>2, <1>3, <2>1 DEF TabOK
    <2>2. CASE o # t
      BY <1>1, <1>2, <1>3, <1>4, <2>2, TabStays
    <2> QED BY <2>1, <2>2
  <1>7. OneWaits'
    BY <1>3, <1>4 DEF Inv, OneWaits
  <1>8. (\A b \in Browser : JarOK(b))'
    BY <1>1, JarStays
  <1>9. CodesAreLinked' /\ SessionsAreLinked'
    BY <1>1, LinksStay
  <1>10. TypeOK'
    BY <1>2, <1>3 DEF Inv, TypeOK
  <1> QED BY <1>5, <1>6, <1>7, <1>8, <1>9, <1>10 DEF Inv

LEMMA CallbackKeepsInv ==
  ASSUME Inv, NEW t \in Tab, NEW r \in Request, Callback(t, r)
  PROVE  Inv'
PROOF
  <1>1. UNCHANGED <<browserOf, opSessions, code, used, users, sessions, revoked, begun, jar>>
    BY DEF Callback, opTables, rpTables
  <1>2. reloads' \in Nat /\ faults' \in Nat
    BY DEF Inv, TypeOK, Callback
  <1>3. CASE Expected(t) = None
    <2>1. Show(t, Home) /\ UNCHANGED req
      BY <1>3 DEF Callback
    <2> QED BY <1>1, <1>2, <2>1, HomeIsAPage, PageKeepsInv
  <1>4. CASE Expected(t) # None
    <2> DEFINE q == [Idle EXCEPT !.pc = "exchange", !.browser = browserOf[t],
                                 !.expected = Expected(t), !.state = tab[t].attempt,
                                 !.code = tab[t].code]
               p == [tab[t] EXCEPT !.at = "waiting", !.req = r]
    <2>1. req[r].pc = "idle" /\ req' = [req EXCEPT ![r] = q] /\ Show(t, p)
      BY <1>4 DEF Callback, Unserved
    <2>2. /\ tab[t] \in TabState /\ tab[t].at = "callback"
          /\ tab[t].code \in DOMAIN code /\ tab[t].attempt \in DOMAIN begun
          /\ tab[t].code \in Code
      BY DEF Inv, TypeOK, TabOK, Callback
    <2>3. /\ BegunIn(Expected(t), browserOf[t]) /\ Expected(t) \in Attempt
          /\ browserOf[t] \in Browser
      BY <1>4 DEF Inv, TypeOK, JarOK, Expected, BegunIn
    <2>4. /\ q \in RequestState /\ q.pc = "exchange" /\ q.expected = Expected(t)
          /\ q.code = tab[t].code /\ q.browser = browserOf[t]
      BY <2>2, <2>3 DEF Idle, RequestState, TabState
    <2>5. /\ p \in TabState /\ p.at = "waiting" /\ p.req = r
          /\ p.code = tab[t].code /\ p.attempt = tab[t].attempt
      BY <2>2 DEF TabState, Page
    <2> HIDE DEF p, q
    <2>6. RequestOK(r)'
      <3>1. req'[r] = q
        BY <2>1 DEF Inv, TypeOK
      <3> QED BY <1>1, <2>2, <2>3, <2>4, <3>1 DEF RequestOK, BegunIn, Asking, Checked
    <2> QED BY <1>1, <1>2, <2>1, <2>2, <2>3, <2>4, <2>5, <2>6, AskKeepsInv
  <1> QED BY <1>3, <1>4

LEMMA LogoutKeepsInv ==
  ASSUME Inv, NEW t \in Tab, NEW r \in Request, Logout(t, r)
  PROVE  Inv'
PROOF
  <1> DEFINE s == jar[browserOf[t]].rp
             q == [Idle EXCEPT !.pc = IF s = None THEN "cleared" ELSE "revoke",
                               !.browser = browserOf[t], !.session = s]
             p == [Home EXCEPT !.at = "waiting", !.req = r]
  <1>1. UNCHANGED <<browserOf, opSessions, code, used, users, sessions, revoked, begun, jar>>
    BY DEF Logout, opTables, rpTables
  <1>2. reloads' \in Nat /\ faults' \in Nat
    BY DEF Inv, TypeOK, Logout
  <1>3. req[r].pc = "idle" /\ req' = [req EXCEPT ![r] = q] /\ Show(t, p)
    BY DEF Logout, Unserved
  <1>4. /\ s \in DOMAIN sessions \cup {None} /\ s \in RpSession \cup {None}
        /\ browserOf[t] \in Browser
    BY DEF Inv, TypeOK
  <1>5. /\ q \in RequestState /\ q.session = s /\ q.browser = browserOf[t]
        /\ q.pc = (IF s = None THEN "cleared" ELSE "revoke")
    BY <1>4 DEF Idle, RequestState
  <1>6. /\ p \in TabState /\ p.at = "waiting" /\ p.req = r /\ p.code = None
    BY DEF Home, TabState, Page
  <1> HIDE DEF p, q
  <1>7. q.pc \in {"cleared", "revoke"} /\ (q.pc = "revoke" => q.session \in DOMAIN sessions)
    BY <1>4, <1>5
  <1>8. RequestOK(r)'
    <2>1. req'[r] = q
      BY <1>3 DEF Inv, TypeOK
    <2> QED BY <1>1, <1>4, <1>5, <1>7, <2>1 DEF RequestOK, BegunIn, Asking, Checked
  <1>9. q.pc # "idle"
    BY <1>7
  <1> QED BY <1>1, <1>2, <1>3, <1>5, <1>6, <1>8, <1>9, AskKeepsInv

(* Some requests are over, and the tabs that waited for them wait no more. *)
LEMMA ReleaseKeepsInv ==
  ASSUME Inv,
         req' \in [Request -> RequestState], \A r \in Request : req'[r] = req[r] \/ req'[r] = Idle,
         tab' \in [Tab -> TabState],
         \A t \in Tab :
           \/ tab'[t].at \in {"home", "dashboard"}
           \/ /\ tab'[t] = tab[t]
              /\ tab[t].at = "waiting" => req'[tab[t].req] = req[tab[t].req],
         jar' \in [Browser -> Jar], \A b \in Browser : jar'[b].rp \in DOMAIN sessions \cup {None},
         \A b \in Browser : JarOK(b)',
         UNCHANGED <<browserOf, opSessions, code, used, users, sessions, revoked, begun>>,
         reloads' \in Nat, faults' \in Nat
  PROVE  Inv'
PROOF
  <1>1. Grows
    BY StillGrows
  <1>2. ASSUME NEW r \in Request PROVE RequestOK(r)'
    <2>1. CASE req'[r] = Idle
      BY <2>1 DEF RequestOK, Idle, Asking, Checked
    <2> QED BY <1>1, <2>1, RequestStays
  <1>3. ASSUME NEW t \in Tab PROVE TabOK(t)'
    <2>1. CASE tab'[t].at \in {"home", "dashboard"}
      BY <2>1 DEF TabOK
    <2>2. CASE tab'[t].at \notin {"home", "dashboard"}
      <3>1. tab[t].at = "waiting" => tab[t].req \in Request /\ req[tab[t].req].pc # "idle"
        BY DEF Inv, TabOK
      <3> QED BY <1>1, <2>2, <3>1, TabStays
    <2> QED BY <2>1, <2>2
  <1>4. OneWaits'
    BY DEF Inv, OneWaits
  <1>5. CodesAreLinked' /\ SessionsAreLinked'
    BY <1>1, LinksStay
  <1>6. TypeOK'
    BY DEF Inv, TypeOK
  <1> QED BY <1>2, <1>3, <1>4, <1>5, <1>6 DEF Inv

LEMMA IdleIsARequest == Idle \in RequestState /\ Idle.pc = "idle"
PROOF
  BY DEF Idle, RequestState

(* Releasing r leaves the tabs that wait for another request where they are.*)
LEMMA ReleasedRequest ==
  ASSUME Inv, NEW r \in Request, req' = [req EXCEPT ![r] = Idle]
  PROVE  /\ req' \in [Request -> RequestState]
         /\ \A o \in Request : req'[o] = req[o] \/ req'[o] = Idle
         /\ \A t \in Tab : tab[t].at = "waiting" /\ tab[t].req # r
                             => req'[tab[t].req] = req[tab[t].req]
PROOF
  BY IdleIsARequest DEF Inv, TypeOK, TabOK

(* What an answer does to the cookies, and why its session may be kept.    *)
LEMMA AnswersAreOwn ==
  ASSUME Inv, NEW r \in Request, NEW b, b = req[r].browser,
         req[r].pc \in {"answer", "fail", "cleared"}
  PROVE  LET c == Cookies(r, jar[b]) IN
         /\ b \in Browser
         /\ c \in Jar /\ c.temp \in {None, jar[b].temp} /\ c.op = jar[b].op
         /\ \/ c.rp \in {None, jar[b].rp}
            \/ /\ req[r].pc = "answer" /\ c.rp = req[r].session
               /\ c.rp \in DOMAIN sessions
               /\ BegunIn(code[sessions[c.rp].code].attempt, b)
PROOF
  <1>1. b \in Browser /\ jar[b] \in Jar /\ RequestOK(r)
    BY DEF Inv, TypeOK, RequestOK
  <1>2. CASE req[r].pc = "answer"
    <2>1. req[r].session \in DOMAIN sessions /\ req[r].session \in RpSession
      BY <1>1, <1>2 DEF RequestOK, Inv, TypeOK
    <2>2. BegunIn(code[sessions[req[r].session].code].attempt, b)
      BY <1>1, <1>2 DEF RequestOK, Asking, Checked
    <2>3. Cookies(r, jar[b]) = [jar[b] EXCEPT !.temp = None, !.rp = req[r].session]
      BY <1>2 DEF Cookies
    <2> QED BY <1>1, <1>2, <2>1, <2>2, <2>3 DEF Jar
  <1>3. CASE req[r].pc = "fail"
    <2>1. Cookies(r, jar[b]) = [jar[b] EXCEPT !.temp = None]
      BY <1>3 DEF Cookies
    <2> QED BY <1>1, <2>1 DEF Jar
  <1>4. CASE req[r].pc = "cleared"
    <2>1. Cookies(r, jar[b]) = [jar[b] EXCEPT !.rp = None]
      BY <1>4 DEF Cookies
    <2> QED BY <1>1, <2>1 DEF Jar
  <1> QED BY <1>2, <1>3, <1>4

(* Whether or not the browser stores them, its cookies are in order.       *)
LEMMA AnswersKeepCookies ==
  ASSUME Inv, NEW r \in Request, NEW b, b = req[r].browser,
         req[r].pc \in {"answer", "fail", "cleared"},
         SetCookie(b, Cookies(r, jar[b])) \/ UNCHANGED jar,
         UNCHANGED <<opSessions, code, users, sessions, begun>>
  PROVE  /\ jar' \in [Browser -> Jar]
         /\ \A d \in Browser : jar'[d].rp \in DOMAIN sessions \cup {None}
         /\ \A d \in Browser : JarOK(d)'
PROOF
  <1> DEFINE c == Cookies(r, jar[b])
  <1>1. Grows
    BY StillGrows
  <1>2. CASE UNCHANGED jar
    BY <1>1, <1>2, JarStays DEF Inv, TypeOK
  <1>3. CASE jar' = [jar EXCEPT ![b] = c]
    <2>1. /\ b \in Browser /\ c \in Jar /\ c.temp \in {None, jar[b].temp} /\ c.op = jar[b].op
          /\ \/ c.rp \in {None, jar[b].rp}
             \/ c.rp \in DOMAIN sessions /\ BegunIn(code[sessions[c.rp].code].attempt, b)
      BY AnswersAreOwn
    <2> HIDE DEF c
    <2>2. jar' \in [Browser -> Jar] /\ jar'[b] = c /\ \A d \in Browser \ {b} : jar'[d] = jar[d]
      BY <1>3, <2>1 DEF Inv, TypeOK
    <2>3. JarOK(b)'
      <3>1. CASE c.rp \in {None, jar[b].rp}
        BY <1>1, <2>1, <2>2, <3>1, CookiesStay
      <3>2. CASE BegunIn(code[sessions[c.rp].code].attempt, b)
        <4>1. BegunIn(code[sessions[jar[b].rp].code].attempt, b)'
          BY <2>2, <3>2 DEF BegunIn
        <4> QED BY <1>1, <2>1, <2>2, <4>1, CookiesStay
      <3> QED BY <2>1, <3>1, <3>2
    <2>4. \A d \in Browser : JarOK(d)'
      BY <1>1, <2>2, <2>3, JarStays
    <2>5. \A d \in Browser : jar'[d].rp \in DOMAIN sessions \cup {None}
      BY <2>1, <2>2 DEF Inv, TypeOK
    <2> QED BY <2>2, <2>4, <2>5
  <1> QED BY <1>2, <1>3 DEF SetCookie

LEMMA DropKeepsInv == ASSUME Inv, NEW r \in Request, Drop(r) PROVE Inv'
PROOF
  <1>1. /\ req' = [req EXCEPT ![r] = Idle]
        /\ \A t \in Tab : tab[t].at = "waiting" => tab[t].req # r
    BY DEF Drop, Awaited
  <1>2. UNCHANGED <<browserOf, opSessions, code, used, users, sessions, revoked, begun, tab, reloads, faults>>
    BY DEF Drop, opTables, rpTables
  <1>3. /\ jar' \in [Browser -> Jar] /\ \A b \in Browser : jar'[b].rp \in DOMAIN sessions \cup {None}
        /\ \A b \in Browser : JarOK(b)'
    BY <1>2, AnswersKeepCookies DEF Drop
  <1>4. tab' \in [Tab -> TabState] /\ reloads' \in Nat /\ faults' \in Nat
    BY <1>2 DEF Inv, TypeOK
  <1> QED BY <1>1, <1>2, <1>3, <1>4, ReleasedRequest, ReleaseKeepsInv

LEMMA AbortLogoutKeepsInv ==
  ASSUME Inv, NEW t \in Tab, NEW r \in Request, AbortLogout(t, r)
  PROVE  Inv'
PROOF
  <1>1. /\ req' = [req EXCEPT ![r] = Idle] /\ tab' = [tab EXCEPT ![t] = Home]
        /\ tab[t].at = "waiting" /\ tab[t].req = r
    BY DEF AbortLogout, Show
  <1>2. UNCHANGED <<browserOf, opSessions, code, used, users, sessions, revoked, begun, jar>>
    BY DEF AbortLogout, opTables, rpTables
  <1>3. Grows
    BY <1>2, StillGrows
  <1>4. \A b \in Browser : JarOK(b)'
    BY <1>2, <1>3, JarStays
  <1>5. /\ jar' \in [Browser -> Jar] /\ \A b \in Browser : jar'[b].rp \in DOMAIN sessions \cup {None}
        /\ reloads' \in Nat /\ faults' \in Nat
    BY <1>2 DEF Inv, TypeOK, AbortLogout, Fault
  <1>6. /\ tab' \in [Tab -> TabState] /\ tab'[t].at = "home"
        /\ \A o \in Tab \ {t} : tab'[o] = tab[o] /\ (tab[o].at = "waiting" => tab[o].req # r)
    BY <1>1, HomeIsAPage DEF Inv, TypeOK, OneWaits
  <1> QED BY <1>1, <1>2, <1>4, <1>5, <1>6, ReleasedRequest, ReleaseKeepsInv

LEMMA CrashKeepsInv == ASSUME Inv, Crash PROVE Inv'
PROOF
  <1>1. /\ req' = [r \in Request |-> Idle]
        /\ tab' = [t \in Tab |-> IF tab[t].at = "waiting" THEN Home ELSE tab[t]]
    BY DEF Crash
  <1>2. UNCHANGED <<browserOf, opSessions, code, used, users, sessions, revoked, begun, jar>>
    BY DEF Crash, opTables, rpTables
  <1>3. Grows
    BY <1>2, StillGrows
  <1>4. \A b \in Browser : JarOK(b)'
    BY <1>2, <1>3, JarStays
  <1>5. /\ jar' \in [Browser -> Jar] /\ \A b \in Browser : jar'[b].rp \in DOMAIN sessions \cup {None}
        /\ reloads' \in Nat /\ faults' \in Nat
    BY <1>2 DEF Inv, TypeOK, Crash, Fault
  <1>6. tab' \in [Tab -> TabState] /\ req' \in [Request -> RequestState]
    BY <1>1, HomeIsAPage, IdleIsARequest DEF Inv, TypeOK
  <1>7. \A t \in Tab : \/ tab'[t].at \in {"home", "dashboard"}
                       \/ tab'[t] = tab[t] /\ tab[t].at # "waiting"
    BY <1>1, HomeIsAPage
  <1> QED BY <1>1, <1>2, <1>4, <1>5, <1>6, <1>7, ReleaseKeepsInv

LEMMA HearKeepsInv ==
  ASSUME Inv, NEW t \in Tab, NEW r \in Request, Hear(t, r)
  PROVE  Inv'
PROOF
  <1>1. /\ req' = [req EXCEPT ![r] = Idle] /\ tab[t].at = "waiting" /\ tab[t].req = r
        /\ SetCookie(browserOf[t], Cookies(r, jar[browserOf[t]]))
    BY DEF Hear
  <1>2. UNCHANGED <<browserOf, opSessions, code, used, users, sessions, revoked, begun, reloads, faults>>
    BY DEF Hear, opTables, rpTables
  <1>3. browserOf[t] = req[r].browser
    BY <1>1 DEF Inv, TabOK
  <1>4. /\ jar' \in [Browser -> Jar] /\ \A b \in Browser : jar'[b].rp \in DOMAIN sessions \cup {None}
        /\ \A b \in Browser : JarOK(b)'
    BY <1>1, <1>2, <1>3, AnswersKeepCookies DEF Hear
  <1>5. PICK page \in {"home", "dashboard"} : tab' = [tab EXCEPT ![t] = [Home EXCEPT !.at = page]]
    <2>1. Home = [Home EXCEPT !.at = "home"]
      BY DEF Home
    <2> QED BY <2>1 DEF Hear, Show
  <1>6. /\ tab' \in [Tab -> TabState] /\ tab'[t].at \in {"home", "dashboard"}
        /\ \A o \in Tab \ {t} : tab'[o] = tab[o] /\ (tab[o].at = "waiting" => tab[o].req # r)
    BY <1>1, <1>5, HomeIsAPage DEF Inv, TypeOK, OneWaits, Page
  <1>7. reloads' \in Nat /\ faults' \in Nat
    BY <1>2 DEF Inv, TypeOK
  <1>8. /\ req' \in [Request -> RequestState]
        /\ \A o \in Request : req'[o] = req[o] \/ req'[o] = Idle
        /\ \A o \in Tab : tab[o].at = "waiting" /\ tab[o].req # r
                             => req'[tab[o].req] = req[tab[o].req]
    BY <1>1, ReleasedRequest
  <1>9. \A o \in Tab :
          \/ tab'[o].at \in {"home", "dashboard"}
          \/ tab'[o] = tab[o] /\ (tab[o].at = "waiting" => req'[tab[o].req] = req[tab[o].req])
    BY <1>6, <1>8
  <1> QED BY <1>2, <1>4, <1>6, <1>7, <1>8, <1>9, ReleaseKeepsInv

-----------------------------------------------------------------------------

LEMMA InitInv == Init => Inv
PROOF
  <1> SUFFICES ASSUME Init PROVE Inv
    OBVIOUS
  <1>1. TypeOK
    BY HomeIsAPage, IdleIsARequest DEF Init, TypeOK, Jar
  <1>2. CodesAreLinked /\ SessionsAreLinked
    BY DEF Init, CodesAreLinked, SessionsAreLinked
  <1>3. \A r \in Request : RequestOK(r)
    BY IdleIsARequest DEF Init, RequestOK, Asking, Checked
  <1>4. (\A t \in Tab : TabOK(t)) /\ OneWaits
    BY HomeIsAPage DEF Init, TabOK, OneWaits
  <1>5. \A b \in Browser : JarOK(b)
    BY DEF Init, JarOK
  <1> QED BY <1>1, <1>2, <1>3, <1>4, <1>5 DEF Inv

LEMMA NextInv == Inv /\ [Next]_vars => Inv'
PROOF
  <1> SUFFICES ASSUME Inv, [Next]_vars PROVE Inv'
    OBVIOUS
  <1>1. CASE UNCHANGED vars
    <2>1. UNCHANGED <<browserOf, opSessions, code, used, users, sessions, revoked, begun, jar, tab, req, reloads, faults>>
      BY <1>1 DEF vars, opTables, rpTables
    <2> QED
      BY <2>1 DEF Inv, TypeOK, CodesAreLinked, SessionsAreLinked, OfItsUser, Subject,
                  RequestOK, TabOK, OneWaits, JarOK, BegunIn
  <1>2. ASSUME NEW r \in Request, Serve(r) PROVE Inv'
    BY <1>2, ExchangeKeepsInv, RedeemKeepsInv, FetchUserInfoKeepsInv, SelectUserKeepsInv,
       InsertUserKeepsInv, CreateSessionKeepsInv, RevokeSessionKeepsInv, DropKeepsInv,
       HearKeepsInv
    DEF Serve
  <1>3. ASSUME NEW t \in Tab,
               \/ ClickLogin(t) \/ Authorize(t) \/ Reload(t) \/ Leave(t) \/ OpenDashboard(t)
               \/ Follow(t)
               \/ \E u \in Visitors : SubmitLogin(t, u)
               \/ \E o \in Tab : Reopen(t, o)
               \/ \E r \in Request : Logout(t, r) \/ AbortLogout(t, r)
        PROVE  Inv'
    BY <1>3, ClickLoginKeepsInv, AuthorizeKeepsInv, ReloadKeepsInv, LeaveKeepsInv,
       OpenDashboardKeepsInv, CallbackKeepsInv, SubmitLoginKeepsInv, ReopenKeepsInv,
       LogoutKeepsInv, AbortLogoutKeepsInv
    DEF Follow, Visitors
  <1>4. ASSUME NEW r \in Request, AbortCallback(r) PROVE Inv'
    BY <1>4, AbortCallbackKeepsInv
  <1>5. ASSUME NEW b \in Browser, ExpireTemp(b) PROVE Inv'
    BY <1>5, ExpireTempKeepsInv
  <1> QED BY <1>1, <1>2, <1>3, <1>4, <1>5, CrashKeepsInv DEF Next

LEMMA Invariance == Spec => []Inv
PROOF
  BY InitInv, NextInv, PTL DEF Spec

(* The types are right, a session's user is a row, and a cookie names a    *)
(* session that exists.                                                    *)
THEOREM TypeCorrect == Spec => []TypeOK
PROOF
  <1>1. Inv => TypeOK
    BY DEF Inv
  <1> QED BY <1>1, Invariance, PTL

(* However tabs, reloads, late answers and copied callbacks interleave, a  *)
(* browser's session is that of a login begun in this browser and of the   *)
(* user the provider issued the code for (callback/route.ts:26-82).        *)
THEOREM SessionsAreOwn == Spec => []SessionsComeFromOwnLogins
PROOF
  <1>1. Inv => SessionsComeFromOwnLogins
    <2> SUFFICES ASSUME Inv, NEW b \in Browser, jar[b].rp # None
                 PROVE  /\ begun[code[sessions[jar[b].rp].code].attempt] = b
                        /\ users[sessions[jar[b].rp].user] = Subject(sessions[jar[b].rp].code)
      BY DEF SessionsComeFromOwnLogins
    <2>1. jar[b].rp \in DOMAIN sessions
      BY DEF Inv, TypeOK
    <2> QED BY <2>1 DEF Inv, JarOK, BegunIn, SessionsAreLinked, OfItsUser
  <1> QED BY <1>1, Invariance, PTL

LEMMA MovedElsewhere ==
  ASSUME req \in [Request -> RequestState], NEW r \in Request, NEW q, q.pc # "answer",
         req' = [req EXCEPT ![r] = q]
  PROVE  \A o \in Request : req'[o].pc = "answer" => req'[o] = req[o]
PROOF
  OBVIOUS

LEMMA GoneElsewhere ==
  ASSUME req \in [Request -> RequestState], NEW r \in Request, NEW pc, pc # "answer", Goto(r, pc)
  PROVE  \A o \in Request : req'[o].pc = "answer" => req'[o] = req[o]
PROOF
  BY DEF Goto, RequestState

(* Only an answer with the session brings it back, and none is on its way. *)
LEMMA AbandonedStaysAbandoned ==
  ASSUME Inv, [Next]_vars, NEW s \in RpSession, Abandoned(s)
  PROVE  Abandoned(s)'
PROOF
  <1>1. s \in DOMAIN sessions /\ \A b \in Browser : jar[b].rp # s
    BY DEF Abandoned
  <1>2. \A r \in Request : req[r].pc = "answer" => req[r].session # s
    BY DEF Abandoned
  <1>3. s # None /\ req \in [Request -> RequestState] /\ jar \in [Browser -> Jar]
    BY DEF Inv, TypeOK
  <1> DEFINE SameJar == \A b \in Browser : jar'[b].rp # s
             SameReq == \A r \in Request : req'[r].pc = "answer" => req'[r].session # s
  <1>4. ASSUME UNCHANGED sessions, SameJar, SameReq PROVE Abandoned(s)'
    BY <1>1, <1>4 DEF Abandoned
  <1>5. UNCHANGED jar => SameJar
    BY <1>1
  <1>6. UNCHANGED req => SameReq
    BY <1>2
  <1>7. (\A r \in Request : req'[r].pc = "answer" => req'[r] = req[r]) => SameReq
    BY <1>2
  <1>8. ASSUME NEW r \in Request, Exchange(r) PROVE Abandoned(s)'
    <2>1. \A o \in Request : req'[o].pc = "answer" => req'[o].session = req[o].session /\ req[o].pc = "answer"
      BY <1>3, <1>8 DEF Exchange, RequestState
    <2>2. SameReq
      BY <1>2, <2>1
    <2> QED BY <1>4, <1>5, <1>8, <2>2 DEF Exchange, rpTables
  <1>9. ASSUME NEW r \in Request,
               Redeem(r) \/ FetchUserInfo(r) \/ SelectUser(r) \/ InsertUser(r)
               \/ RevokeSession(r) \/ AbortCallback(r)
        PROVE  Abandoned(s)'
    <2>1. \A o \in Request : req'[o].pc = "answer" => req'[o] = req[o]
      <3>1. CASE Redeem(r)
        BY <1>3, <3>1, MovedElsewhere DEF Redeem, RequestState
      <3>2. CASE FetchUserInfo(r)
        BY <1>3, <3>2, GoneElsewhere DEF FetchUserInfo
      <3>3. CASE SelectUser(r)
        BY <1>3, <3>3, MovedElsewhere DEF SelectUser, RequestState
      <3>4. CASE InsertUser(r)
        <4>1. CASE Goto(r, "fail")
          BY <1>3, <4>1, GoneElsewhere
        <4>2. CASE \E u : req' = [req EXCEPT ![r] = [req[r] EXCEPT !.pc = "insertSession", !.user = u]]
          BY <1>3, <4>2, MovedElsewhere DEF RequestState
        <4> QED BY <3>4, <4>1, <4>2 DEF InsertUser
      <3>5. CASE RevokeSession(r)
        BY <1>3, <3>5, GoneElsewhere DEF RevokeSession
      <3>6. CASE AbortCallback(r)
        BY <1>3, <3>6, GoneElsewhere DEF AbortCallback
      <3> QED BY <1>9, <3>1, <3>2, <3>3, <3>4, <3>5, <3>6
    <2>2. UNCHANGED <<sessions, jar>>
      BY <1>9 DEF Redeem, FetchUserInfo, SelectUser, InsertUser, RevokeSession,
                  AbortCallback, rpTables
    <2> HIDE DEF SameReq, SameJar
    <2> QED BY <1>4, <1>5, <1>7, <2>1, <2>2
  <1>10. ASSUME NEW r \in Request, CreateSession(r) PROVE Abandoned(s)'
    <2>1. PICK x \in Fresh(RpSession, sessions) :
            /\ sessions' = Insert(sessions, x, [user |-> req[r].user, code |-> req[r].code])
            /\ req' = [req EXCEPT ![r] = [@ EXCEPT !.pc = "answer", !.session = x]]
      BY <1>10 DEF CreateSession
    <2>2. x # s /\ s \in DOMAIN sessions'
      BY <1>1, <2>1 DEF Fresh, Insert
    <2>3. \A o \in Request : req'[o].pc = "answer" => req'[o].session # s
      BY <1>2, <1>3, <2>1, <2>2 DEF RequestState
    <2> QED BY <1>1, <1>10, <2>2, <2>3 DEF Abandoned, CreateSession
  <1>11. ASSUME NEW r \in Request, Drop(r) \/ \E t \in Tab : Hear(t, r) PROVE Abandoned(s)'
    <2> DEFINE b == req[r].browser
               c == Cookies(r, jar[b])
    <2>1. /\ req[r].pc \in {"answer", "fail", "cleared"}
          /\ req' = [req EXCEPT ![r] = Idle] /\ UNCHANGED sessions
          /\ jar' = [jar EXCEPT ![b] = c] \/ UNCHANGED jar
      BY <1>11 DEF Hear, Drop, SetCookie, rpTables, Inv, TabOK
    <2>2. /\ b \in Browser
          /\ c \in Jar /\ (c.rp \in {None, jar[b].rp} \/ (req[r].pc = "answer" /\ c.rp = req[r].session))
      BY <2>1, AnswersAreOwn
    <2> HIDE DEF c, b
    <2>3. SameJar
      BY <1>1, <1>2, <1>3, <2>1, <2>2
    <2>4. SameReq
      BY <1>2, <1>3, <2>1, IdleIsARequest
    <2> QED BY <1>4, <2>1, <2>3, <2>4
  <1>12. ASSUME NEW t \in Tab, NEW r \in Request,
                Callback(t, r) \/ Logout(t, r) \/ AbortLogout(t, r)
         PROVE  Abandoned(s)'
    <2>1. \A o \in Request : req'[o].pc = "answer" => req'[o] = req[o]
      <3>1. CASE Callback(t, r) /\ Expected(t) = None
        BY <3>1 DEF Callback
      <3>2. CASE Callback(t, r) /\ Expected(t) # None
        <4>1. [Idle EXCEPT !.pc = "exchange", !.browser = browserOf[t],
                           !.expected = Expected(t), !.state = tab[t].attempt, !.code = tab[t].code].pc # "answer"
          BY DEF Idle
        <4> QED BY <1>3, <3>2, <4>1, MovedElsewhere DEF Callback
      <3>3. CASE Logout(t, r)
        <4> DEFINE x == jar[browserOf[t]].rp
                   q == [Idle EXCEPT !.pc = IF x = None THEN "cleared" ELSE "revoke",
                                     !.browser = browserOf[t], !.session = x]
        <4>1. q.pc # "answer"
          BY DEF Idle
        <4>2. req' = [req EXCEPT ![r] = q]
          BY <3>3 DEF Logout
        <4> HIDE DEF q
        <4> QED BY <1>3, <4>1, <4>2, MovedElsewhere
      <3>4. CASE AbortLogout(t, r)
        BY <1>3, <3>4, MovedElsewhere, IdleIsARequest DEF AbortLogout
      <3> QED BY <1>12, <3>1, <3>2, <3>3, <3>4
    <2>2. UNCHANGED <<sessions, jar>>
      BY <1>12 DEF Callback, Logout, AbortLogout, rpTables
    <2> HIDE DEF SameReq, SameJar
    <2> QED BY <1>4, <1>5, <1>7, <2>1, <2>2
  <1>13. ASSUME NEW t \in Tab,
                Authorize(t) \/ Reload(t) \/ Leave(t) \/ OpenDashboard(t)
                \/ \E o \in Tab : Reopen(t, o)
         PROVE  Abandoned(s)'
    <2>1. UNCHANGED <<sessions, jar, req>>
      BY <1>13 DEF Authorize, Reload, Leave, OpenDashboard, Reopen, rpTables
    <2> QED BY <1>4, <1>5, <1>6, <2>1
  <1>14. ASSUME NEW t \in Tab, ClickLogin(t) \/ \E u \in Visitors : SubmitLogin(t, u)
         PROVE  Abandoned(s)'
    <2>1. UNCHANGED <<sessions, req>>
      BY <1>14 DEF ClickLogin, SubmitLogin, rpTables
    <2>2. \A b \in Browser : jar'[b].rp = jar[b].rp
      <3>1. CASE ClickLogin(t)
        BY <1>3, <3>1 DEF ClickLogin, SetCookie, Jar
      <3>2. CASE \E u \in Visitors : SubmitLogin(t, u)
        BY <1>3, <3>2 DEF SubmitLogin, SetCookie, Jar
      <3> QED BY <1>14, <3>1, <3>2
    <2> QED BY <1>1, <1>4, <1>6, <2>1, <2>2
  <1>15. ASSUME NEW b \in Browser, ExpireTemp(b) PROVE Abandoned(s)'
    <2>1. UNCHANGED <<sessions, req>> /\ \A d \in Browser : jar'[d].rp = jar[d].rp
      BY <1>3, <1>15 DEF ExpireTemp, SetCookie, rpTables, Jar
    <2> QED BY <1>1, <1>4, <1>6, <2>1
  <1>16. ASSUME Crash PROVE Abandoned(s)'
    <2>1. UNCHANGED <<sessions, jar>> /\ \A r \in Request : req'[r].pc # "answer"
      BY <1>16, IdleIsARequest DEF Crash, rpTables
    <2> QED BY <1>4, <1>5, <2>1
  <1>17. CASE UNCHANGED vars
    <2>1. UNCHANGED <<sessions, jar, req>>
      BY <1>17 DEF vars, rpTables
    <2> QED BY <1>4, <1>5, <1>6, <2>1
  <1> QED
    BY <1>8, <1>9, <1>10, <1>11, <1>12, <1>13, <1>14, <1>15, <1>16, <1>17
    DEF Next, Serve, Follow

(* A session whose cookie was lost, overwritten or cleared is not revoked, *)
(* but no browser ever gets it again (callback/route.ts:79, logout/route.ts). *)
THEOREM AbandonedStayInert == Spec => AbandonedSessionsAreInert
PROOF
  <1>1. Inv /\ [Next]_vars => [\A s \in RpSession : Abandoned(s) => Abandoned(s)']_vars
    BY AbandonedStaysAbandoned
  <1> QED BY <1>1, Invariance, PTL DEF Spec, AbandonedSessionsAreInert

-----------------------------------------------------------------------------
(* Liveness: what a step can do to a tab, a request and the rows           *)

LEMMA InsertExtends ==
  ASSUME NEW table, NEW keys, NEW id \in Fresh(keys, table), NEW row
  PROVE  Extends(Insert(table, id, row), table)
PROOF
  BY DEF Fresh, Insert, Extends

LEMMA NextGrows ==
  ASSUME [Next]_vars
  PROVE  Grows /\ UNCHANGED browserOf
PROOF
  <1> USE DEF opTables, rpTables
  <1>1. ASSUME NEW t \in Tab, ClickLogin(t)
        PROVE  Grows /\ UNCHANGED browserOf
    <2>1. Extends(begun', begun)
      BY <1>1, InsertExtends DEF ClickLogin
    <2> QED BY <1>1, <2>1, SameExtends DEF ClickLogin, Grows
  <1>2. ASSUME NEW t \in Tab, Authorize(t)
        PROVE  Grows /\ UNCHANGED browserOf
    <2>0. code' = code \/ \E k \in Fresh(Code, code) : \E row : code' = Insert(code, k, row)
      BY <1>2 DEF Authorize
    <2>1. Extends(code', code)
      BY <2>0, InsertExtends, SameExtends
    <2> QED BY <1>2, <2>1, SameExtends DEF Authorize, Grows
  <1>3. ASSUME NEW t \in Tab, NEW u, SubmitLogin(t, u)
        PROVE  Grows /\ UNCHANGED browserOf
    <2>1. Extends(opSessions', opSessions)
      BY <1>3, InsertExtends DEF SubmitLogin
    <2> QED BY <1>3, <2>1, SameExtends DEF SubmitLogin, Grows
  <1>4. ASSUME NEW r \in Request, InsertUser(r)
        PROVE  Grows /\ UNCHANGED browserOf
    <2>0. users' = users \/ \E u \in Fresh(RpUser, users) : \E row : users' = Insert(users, u, row)
      BY <1>4 DEF InsertUser
    <2>1. Extends(users', users)
      BY <2>0, InsertExtends, SameExtends
    <2> QED BY <1>4, <2>1, SameExtends DEF InsertUser, Grows
  <1>5. ASSUME NEW r \in Request, CreateSession(r)
        PROVE  Grows /\ UNCHANGED browserOf
    <2>1. Extends(sessions', sessions)
      BY <1>5, InsertExtends DEF CreateSession
    <2> QED BY <1>5, <2>1, SameExtends DEF CreateSession, Grows
  <1>6. ASSUME NEW t \in Tab,
               \/ Reload(t) \/ Leave(t) \/ OpenDashboard(t) \/ Follow(t)
               \/ \E o \in Tab : Reopen(t, o)
               \/ \E r \in Request : Logout(t, r) \/ AbortLogout(t, r)
        PROVE  Grows /\ UNCHANGED browserOf
    BY <1>6, StillGrows DEF Reload, Leave, OpenDashboard, Follow, Callback, Reopen, Logout, AbortLogout
  <1>7. ASSUME NEW r \in Request,
               \/ Exchange(r) \/ Redeem(r) \/ FetchUserInfo(r) \/ SelectUser(r) \/ RevokeSession(r)
               \/ Drop(r) \/ (\E t \in Tab : Hear(t, r)) \/ AbortCallback(r)
        PROVE  Grows /\ UNCHANGED browserOf
    BY <1>7, StillGrows DEF Exchange, Redeem, FetchUserInfo, SelectUser, RevokeSession, Drop, Hear,
                            AbortCallback
  <1>8. CASE Crash \/ (\E b \in Browser : ExpireTemp(b)) \/ UNCHANGED vars
    BY <1>8, StillGrows DEF Crash, ExpireTemp, vars
  <1> QED BY <1>1, <1>2, <1>3, <1>4, <1>5, <1>6, <1>7, <1>8 DEF Next, Serve

(* What a tab does itself, with the answer it hears. *)
TabStep(t) ==
  \/ ClickLogin(t) \/ Authorize(t) \/ Reload(t) \/ Leave(t) \/ OpenDashboard(t) \/ Follow(t)
  \/ \E u \in Visitors : SubmitLogin(t, u)
  \/ \E o \in Tab : Reopen(t, o)
  \/ \E r \in Request : Logout(t, r) \/ Hear(t, r)

(* A failure is counted. *)
LEMMA FaultsCount ==
  ASSUME Inv, UNCHANGED faults
  PROVE  /\ ~Fault /\ ~Crash
         /\ \A r \in Request : ~AbortCallback(r) /\ \A t \in Tab : ~AbortLogout(t, r)
         /\ \A b \in Browser : ~ExpireTemp(b)
PROOF
  <1>1. ~Fault
    BY DEF Fault, Inv, TypeOK
  <1> QED BY <1>1 DEF Crash, AbortCallback, AbortLogout, ExpireTemp

LEMMA FaultsStay ==
  ASSUME Inv, [Next]_vars, NEW n \in Nat, faults >= n
  PROVE  (faults >= n)' /\ (~(faults > n)' => UNCHANGED faults /\ ~Fault)
PROOF
  <1>1. UNCHANGED faults \/ Fault
    <2>1. ASSUME NEW r \in Request, Serve(r) PROVE UNCHANGED faults
      BY <2>1 DEF Serve, Exchange, Redeem, FetchUserInfo, SelectUser, InsertUser, CreateSession,
                  RevokeSession, Drop, Hear
    <2>2. ASSUME NEW t \in Tab,
                 \/ ClickLogin(t) \/ Reload(t) \/ Leave(t) \/ OpenDashboard(t) \/ Follow(t)
                 \/ \E u \in Visitors : SubmitLogin(t, u)
                 \/ \E o \in Tab : Reopen(t, o)
                 \/ \E r \in Request : Logout(t, r)
          PROVE  UNCHANGED faults
      BY <2>2 DEF ClickLogin, Reload, Leave, OpenDashboard, Follow, Callback, SubmitLogin, Reopen,
                  Logout
    <2>3. ASSUME NEW t \in Tab, Authorize(t) PROVE UNCHANGED faults \/ Fault
      BY <2>3 DEF Authorize
    <2>4. /\ Crash => Fault
          /\ \A r \in Request : AbortCallback(r) => Fault
          /\ \A b \in Browser : ExpireTemp(b) => Fault
          /\ \A t \in Tab : \A r \in Request : AbortLogout(t, r) => Fault
      BY DEF Crash, AbortCallback, ExpireTemp, AbortLogout
    <2>5. UNCHANGED vars => UNCHANGED faults
      BY DEF vars
    <2> QED BY <2>1, <2>2, <2>3, <2>4, <2>5 DEF Next
  <1>2. faults \in Nat /\ (Fault => faults' = faults + 1)
    BY DEF Inv, TypeOK, Fault
  <1> QED BY <1>1, <1>2

LEMMA TabMoves ==
  ASSUME Inv, [Next]_vars, NEW t \in Tab
  PROVE  tab'[t] = tab[t] \/ TabStep(t) \/ (tab'[t] = Home /\ Fault)
PROOF
  <1>0. tab \in [Tab -> TabState]
    BY DEF Inv, TypeOK
  <1>1. ASSUME NEW o \in Tab, o # t, TabStep(o)
        PROVE  tab'[t] = tab[t]
    <2>1. \E page : Show(o, page)
      BY <1>1 DEF TabStep, ClickLogin, Authorize, Reload, Leave, OpenDashboard, Follow, Callback,
                  SubmitLogin, Reopen, Logout, Hear
    <2> QED BY <1>0, <1>1, <2>1 DEF Show
  <1>2. ASSUME NEW r \in Request, Serve(r), ~\E o \in Tab : Hear(o, r)
        PROVE  tab' = tab
    BY <1>2 DEF Serve, Exchange, Redeem, FetchUserInfo, SelectUser, InsertUser, CreateSession,
                RevokeSession, Drop
  <1>3. (\E r \in Request : AbortCallback(r)) \/ (\E b \in Browser : ExpireTemp(b)) \/ UNCHANGED vars
          => tab' = tab
    BY DEF AbortCallback, ExpireTemp, vars
  <1>4. Crash => tab'[t] = tab[t] \/ (tab'[t] = Home /\ Fault)
    BY DEF Crash
  <1>5. ASSUME NEW o \in Tab, NEW r \in Request, AbortLogout(o, r)
        PROVE  tab'[t] = tab[t] \/ (tab'[t] = Home /\ Fault)
    BY <1>0, <1>5 DEF AbortLogout, Show
  <1> QED BY <1>1, <1>2, <1>3, <1>4, <1>5 DEF Next, TabStep

LEMMA RequestMoves ==
  ASSUME Inv, [Next]_vars, UNCHANGED faults, NEW r \in Request, req[r].pc # "idle"
  PROVE  \/ req'[r] = req[r] \/ Serve(r)
         \/ \E q \in Request \ {r} :
              /\ Exchange(q)
              /\ req'[r] = [req[r] EXCEPT !.live =
                   @ /\ ~(Replayed(q) /\ code[req[r].code].session = code[req[q].code].session)]
PROOF
  <1>0. req \in [Request -> RequestState]
    BY DEF Inv, TypeOK
  <1>1. ASSUME NEW q \in Request \ {r}, NEW state, req' = [req EXCEPT ![q] = state]
        PROVE  req'[r] = req[r]
    BY <1>0, <1>1
  <1>2. ASSUME NEW q \in Request \ {r}, Serve(q), ~Exchange(q)
        PROVE  req'[r] = req[r]
    <2>1. \E state : req' = [req EXCEPT ![q] = state]
      <3>1. CASE Redeem(q)
        BY <3>1 DEF Redeem
      <3>2. CASE FetchUserInfo(q)
        BY <3>2 DEF FetchUserInfo, Goto
      <3>3. CASE SelectUser(q)
        BY <3>3 DEF SelectUser
      <3>4. CASE InsertUser(q)
        BY <3>4 DEF InsertUser, Goto
      <3>5. CASE CreateSession(q)
        BY <3>5 DEF CreateSession
      <3>6. CASE RevokeSession(q) \/ Drop(q) \/ \E t \in Tab : Hear(t, q)
        BY <3>6 DEF RevokeSession, Drop, Hear, Goto
      <3> QED BY <1>2, <3>1, <3>2, <3>3, <3>4, <3>5, <3>6 DEF Serve
    <2> QED BY <1>1, <2>1
  <1>3. ASSUME NEW q \in Request \ {r}, Exchange(q)
        PROVE  req'[r] = [req[r] EXCEPT !.live =
                 @ /\ ~(Replayed(q) /\ code[req[r].code].session = code[req[q].code].session)]
    BY <1>3 DEF Exchange
  <1>4. ASSUME NEW t \in Tab, NEW q \in Request, Callback(t, q) \/ Logout(t, q)
        PROVE  req'[r] = req[r]
    <2>1. q \in Unserved => q # r
      BY DEF Unserved
    <2> QED BY <1>1, <1>4, <2>1 DEF Callback, Logout
  <1>5. ASSUME NEW t \in Tab,
               \/ ClickLogin(t) \/ Authorize(t) \/ Reload(t) \/ Leave(t) \/ OpenDashboard(t)
               \/ (\E u \in Visitors : SubmitLogin(t, u)) \/ (\E o \in Tab : Reopen(t, o))
        PROVE  req'[r] = req[r]
    BY <1>5 DEF ClickLogin, Authorize, Reload, Leave, OpenDashboard, SubmitLogin, Reopen
  <1>6. UNCHANGED vars => req'[r] = req[r]
    BY DEF vars
  <1> QED BY <1>2, <1>3, <1>4, <1>5, <1>6, FaultsCount DEF Next, Follow

(* A tab that brings a code back brings the attempt the code was issued for*)
OfItsCode(t) ==
  tab[t].at \in {"callback", "waiting"} /\ tab[t].code # None =>
    code[tab[t].code].attempt = tab[t].attempt

TabsAreOfTheirCode == \A t \in Tab : OfItsCode(t)

LEMMA NextOfItsCode ==
  ASSUME Inv, TabsAreOfTheirCode, [Next]_vars, NEW t \in Tab
  PROVE  OfItsCode(t)'
PROOF
  <1>0. /\ tab \in [Tab -> TabState] /\ TabOK(t) /\ OfItsCode(t)
        /\ Home.at = "home" /\ Home.code = None /\ Grows
    BY NextGrows DEF Inv, TypeOK, TabsAreOfTheirCode, Home
  <1>1. ASSUME NEW page, Show(t, page)
        PROVE  tab'[t] = page
    BY <1>0, <1>1 DEF Show
  <1>2. ASSUME NEW o \in Tab, tab[o].at \in {"callback", "waiting"},
               tab'[t].code = tab[o].code, tab'[t].attempt = tab[o].attempt
        PROVE  OfItsCode(t)'
    <2>1. OfItsCode(o) /\ TabOK(o)
      BY DEF TabsAreOfTheirCode, Inv
    <2>2. tab[o].code # None => tab[o].code \in DOMAIN code
      BY <1>2, <2>1 DEF TabOK
    <2> QED BY <1>0, <1>2, <2>1, <2>2 DEF OfItsCode, Grows, Extends
  <1>3. CASE tab'[t] = tab[t]
    BY <1>0, <1>2, <1>3 DEF OfItsCode
  <1>4. CASE tab'[t].code = None \/ tab'[t].at \notin {"callback", "waiting"}
    BY <1>4 DEF OfItsCode
  <1>5. CASE ClickLogin(t) \/ \E u \in Visitors : SubmitLogin(t, u)
    <2>1. tab'[t].at = "authorize"
      BY <1>0, <1>1, <1>5 DEF ClickLogin, SubmitLogin, Home, TabState
    <2> QED BY <1>4, <2>1
  <1>6. CASE Authorize(t)
    <2>1. CASE Show(t, [tab[t] EXCEPT !.at = "loginPage"])
      <3>1. tab'[t].at = "loginPage"
        BY <1>0, <1>1, <2>1 DEF TabState
      <3> QED BY <1>4, <3>1
    <2>2. ASSUME NEW k \in Fresh(Code, code), NEW s,
                 code' = Insert(code, k, [session |-> s, attempt |-> tab[t].attempt]),
                 Show(t, [tab[t] EXCEPT !.at = "callback", !.code = k])
          PROVE  OfItsCode(t)'
      <3>1. tab'[t].code = k /\ tab'[t].attempt = tab[t].attempt
        BY <1>0, <1>1, <2>2 DEF TabState
      <3>2. code'[k].attempt = tab[t].attempt
        BY <2>2 DEF Insert
      <3> QED BY <3>1, <3>2 DEF OfItsCode
    <2> QED BY <1>6, <2>1, <2>2 DEF Authorize
  <1>7. CASE Reload(t)
    <2>1. /\ tab[t].at = "waiting"
          /\ tab'[t].code = tab[t].code /\ tab'[t].attempt = tab[t].attempt
      BY <1>0, <1>1, <1>7 DEF Reload, TabState
    <2> QED BY <1>2, <2>1
  <1>8. CASE Leave(t) \/ OpenDashboard(t) \/ \E r \in Request : Logout(t, r)
    <2>1. tab'[t].code = None
      BY <1>0, <1>1, <1>8 DEF Leave, OpenDashboard, Logout, Home
    <2> QED BY <1>4, <2>1
  <1>9. ASSUME NEW r \in Request, Hear(t, r)
        PROVE  tab'[t].code = None
    <2>1. Show(t, Home) \/ Show(t, [Home EXCEPT !.at = "dashboard"])
      BY <1>9 DEF Hear
    <2> QED BY <1>0, <1>1, <2>1 DEF Home
  <1>10. CASE Follow(t)
    <2>1. CASE Show(t, Home)
      BY <1>0, <1>1, <1>4, <2>1
    <2>2. ASSUME NEW r, Show(t, [tab[t] EXCEPT !.at = "waiting", !.req = r])
          PROVE  tab'[t].code = tab[t].code /\ tab'[t].attempt = tab[t].attempt
      BY <1>0, <1>1, <2>2 DEF TabState
    <2>3. tab[t].at = "callback"
      BY <1>10 DEF Follow, Callback
    <2> QED BY <1>2, <1>10, <2>1, <2>2, <2>3 DEF Follow, Callback
  <1>11. ASSUME NEW o \in Tab, Reopen(t, o)
         PROVE  OfItsCode(t)'
    BY <1>1, <1>2, <1>11 DEF Reopen
  <1> QED BY <1>0, <1>3, <1>4, <1>5, <1>6, <1>7, <1>8, <1>9, <1>10, <1>11, TabMoves DEF TabStep

LEMMA TabsKeepTheirCode == Spec => []TabsAreOfTheirCode
PROOF
  <1>1. Init => TabsAreOfTheirCode
    BY DEF Init, TabsAreOfTheirCode, OfItsCode, Home
  <1>2. Inv /\ TabsAreOfTheirCode /\ [Next]_vars => TabsAreOfTheirCode'
    BY NextOfItsCode DEF TabsAreOfTheirCode
  <1> QED BY <1>1, <1>2, Invariance, PTL DEF Spec

-----------------------------------------------------------------------------
(* A code on its way: it returns to its browser, and the request that      *)
(* brings it goes through the handler.                                     *)
Excused(k, n) == Shown(k) \/ Disturbed(k) \/ Overtaken(k) \/ HitByAReplay(k) \/ faults > n

Back(k, t) ==
  /\ k \notin used
  /\ tab[t].at = "callback" /\ tab[t].code = k
  /\ jar[browserOf[t]].temp = code[k].attempt

Serving(k, t, r, pc) ==
  /\ tab[t].at = "waiting" /\ tab[t].code = k /\ tab[t].req = r
  /\ req[r].pc = pc /\ req[r].code = k
  /\ req[r].expected = code[k].attempt /\ req[r].state = code[k].attempt
  /\ pc = "exchange" => k \notin used
  /\ pc = "userinfo" => k \in used /\ req[r].live

(* Nobody else redeems the code while the tab is left alone: the request   *)
(* that does carries the attempt's cookies and is awaited in its browser.  *)
LEMMA OneRedeems ==
  ASSUME Inv, NEW k, NEW t \in Tab, tab[t].code = k, tab[t].at \in {"callback", "waiting"},
         BegunIn(code[k].attempt, browserOf[t]), ~Disturbed(k),
         NEW q \in Request, Redeem(q), req[q].code = k
  PROVE  tab[t].at = "waiting" /\ tab[t].req = q
PROOF
  <1>1. /\ req[q].pc = "redeem" /\ req[q].expected = code[k].attempt
    BY DEF Redeem, Inv, RequestOK, Checked, Asking
  <1>2. PICK o \in Tab : tab[o].at = "waiting" /\ tab[o].req = q
    BY <1>1 DEF Disturbed, Awaited
  <1>3. browserOf[o] = browserOf[t]
    BY <1>1, <1>2 DEF Inv, TabOK, RequestOK, Asking, BegunIn
  <1>4. o = t
    BY <1>2, <1>3 DEF Disturbed
  <1> QED BY <1>2, <1>4

(* Who marks codes used, and who changes the temporary cookies.            *)
LEMMA OnlyRedeemUses ==
  ASSUME [Next]_vars
  PROVE  used' = used \/ \E q \in Request : Redeem(q)
PROOF
  <1> USE DEF opTables
  <1>1. ASSUME NEW r \in Request, Serve(r), ~Redeem(r)
        PROVE  used' = used
    BY <1>1 DEF Serve, Exchange, FetchUserInfo, SelectUser, InsertUser, CreateSession,
                RevokeSession, Drop, Hear
  <1>2. ASSUME NEW t \in Tab,
               \/ ClickLogin(t) \/ Authorize(t) \/ Reload(t) \/ Leave(t) \/ OpenDashboard(t) \/ Follow(t)
               \/ \E u \in Visitors : SubmitLogin(t, u)
               \/ \E o \in Tab : Reopen(t, o)
               \/ \E r \in Request : Logout(t, r) \/ AbortLogout(t, r)
        PROVE  used' = used
    BY <1>2 DEF ClickLogin, Authorize, Reload, Leave, OpenDashboard, Follow, Callback, SubmitLogin,
                Reopen, Logout, AbortLogout
  <1>3. Crash \/ (\E r \in Request : AbortCallback(r)) \/ (\E b \in Browser : ExpireTemp(b))
          \/ UNCHANGED vars => used' = used
    BY DEF Crash, AbortCallback, ExpireTemp, vars
  <1> QED BY <1>1, <1>2, <1>3 DEF Next

LEMMA TempMoves ==
  ASSUME Inv, [Next]_vars, UNCHANGED faults, NEW b \in Browser
  PROVE  \/ jar'[b].temp = jar[b].temp
         \/ \E o \in Tab : browserOf[o] = b /\ (tab'[o].at = "authorize" \/ tab[o].at = "waiting")
                           /\ \/ ClickLogin(o)
                              \/ \E r \in Request : Hear(o, r)
         \/ \E r \in Request : Drop(r)
PROOF
  <1>0. /\ jar \in [Browser -> Jar] /\ tab \in [Tab -> TabState] /\ browserOf \in [Tab -> Browser]
        /\ req \in [Request -> RequestState]
    BY DEF Inv, TypeOK
  <1>1. ASSUME NEW o \in Tab, ClickLogin(o)
        PROVE  /\ browserOf[o] # b => jar'[b] = jar[b]
               /\ tab'[o].at = "authorize"
    BY <1>0, <1>1 DEF ClickLogin, SetCookie, Show, Home
  <1>2. ASSUME NEW o \in Tab, NEW u, SubmitLogin(o, u)
        PROVE  jar'[b].temp = jar[b].temp
    BY <1>0, <1>2 DEF SubmitLogin, SetCookie, Jar
  <1>3. ASSUME NEW o \in Tab, NEW r \in Request, Hear(o, r)
        PROVE  /\ browserOf[o] # b => jar'[b] = jar[b]
               /\ tab[o].at = "waiting"
    BY <1>0, <1>3 DEF Hear, SetCookie
  <1>4. ASSUME NEW r \in Request, Serve(r), ~Drop(r), ~\E o \in Tab : Hear(o, r)
        PROVE  jar' = jar
    BY <1>4 DEF Serve, Exchange, Redeem, FetchUserInfo, SelectUser, InsertUser, CreateSession,
                RevokeSession
  <1>5. ASSUME NEW t \in Tab,
               \/ Authorize(t) \/ Reload(t) \/ Leave(t) \/ OpenDashboard(t) \/ Follow(t)
               \/ \E o \in Tab : Reopen(t, o)
               \/ \E r \in Request : Logout(t, r)
        PROVE  jar' = jar
    BY <1>5 DEF Authorize, Reload, Leave, OpenDashboard, Follow, Callback, Reopen, Logout
  <1>6. UNCHANGED vars => jar' = jar
    BY DEF vars
  <1> QED BY <1>1, <1>2, <1>3, <1>4, <1>5, <1>6, FaultsCount DEF Next

LEMMA BackMoves ==
  ASSUME Inv, TabsAreOfTheirCode, [Next]_vars, NEW k \in Code, NEW t \in Tab, Back(k, t),
         NEW n \in Nat, faults >= n, ~Excused(k, n), ~Excused(k, n)'
  PROVE  /\ Back(k, t)' \/ (\E r \in Request : Serving(k, t, r, "exchange"))'
         /\ Follow(t) => (\E r \in Request : Serving(k, t, r, "exchange"))'
PROOF
  <1> DEFINE b == browserOf[t]
  <1>0. ~Disturbed(k) /\ ~Disturbed(k)' /\ UNCHANGED faults /\ ~Fault
    BY FaultsStay DEF Excused
  <1>1. /\ tab \in [Tab -> TabState] /\ req \in [Request -> RequestState] /\ b \in Browser
        /\ TabOK(t) /\ OfItsCode(t) /\ JarOK(b)
        /\ Grows /\ UNCHANGED browserOf
    BY NextGrows DEF Inv, TypeOK, TabsAreOfTheirCode
  <1>2. /\ tab[t].at = "callback" /\ tab[t].code = k /\ k \notin used
        /\ jar[b].temp = code[k].attempt
    BY DEF Back
  <1>3. /\ k \in DOMAIN code /\ code'[k] = code[k] /\ code[k].attempt \in Attempt
        /\ code[k].attempt # None /\ tab[t].attempt = code[k].attempt
    <2>1. k \in DOMAIN code /\ k # None
      BY <1>1, <1>2 DEF TabOK
    <2>2. code[k] \in CodeRow
      BY <2>1 DEF Inv, TypeOK
    <2> QED BY <1>1, <1>2, <2>1, <2>2 DEF CodeRow, OfItsCode, Grows, Extends
  <1>4. BegunIn(code[k].attempt, b)
    BY <1>1, <1>2, <1>3 DEF JarOK
  <1>5. ASSUME Follow(t)
        PROVE  (\E r \in Request : Serving(k, t, r, "exchange"))'
    <2>1. PICK r \in Request : Callback(t, r)
      BY <1>5 DEF Follow
    <2>2. /\ req' = [req EXCEPT ![r] = [Idle EXCEPT
               !.pc = "exchange", !.browser = browserOf[t], !.expected = Expected(t), !.state = tab[t].attempt, !.code = tab[t].code]]
          /\ tab' = [tab EXCEPT ![t] = [tab[t] EXCEPT !.at = "waiting", !.req = r]]
          /\ Expected(t) = code[k].attempt
      BY <1>2, <1>3, <2>1 DEF Callback, Expected, Show
    <2>3. /\ req'[r].pc = "exchange" /\ req'[r].code = k
          /\ req'[r].expected = code[k].attempt /\ req'[r].state = code[k].attempt
      BY <1>1, <1>2, <1>3, <2>2 DEF Idle
    <2>4. tab'[t].at = "waiting" /\ tab'[t].code = k /\ tab'[t].req = r
      BY <1>1, <1>2, <2>2 DEF TabState
    <2>5. k \notin used'
      BY <1>2, <2>1 DEF Callback, opTables
    <2> QED BY <1>3, <2>3, <2>4, <2>5 DEF Serving
  <1>6. ASSUME ~Follow(t)
        PROVE  tab'[t] = tab[t]
    BY <1>0, <1>2, <1>6, TabMoves DEF TabStep, ClickLogin, Authorize, Reload, Leave, OpenDashboard,
                                     SubmitLogin, Reopen, Logout, Hear
  <1>7. k \notin used'
    BY <1>0, <1>2, <1>4, OneRedeems, OnlyRedeemUses DEF Redeem
  <1>8. ASSUME ~Follow(t)
        PROVE  jar'[b].temp = jar[b].temp
    <2>1. ASSUME NEW o \in Tab, browserOf[o] = b, tab[o].at = "waiting"
          PROVE  FALSE
      BY <1>0, <1>2, <2>1 DEF Disturbed
    <2>2. ASSUME NEW o \in Tab, browserOf[o] = b, tab'[o].at = "authorize"
          PROVE  FALSE
      <3>1. tab'[t].code = k /\ o # t /\ browserOf'[o] = browserOf'[t]
        BY <1>1, <1>2, <1>6, <1>8, <2>2
      <3> QED BY <1>0, <2>2, <3>1 DEF Disturbed
    <2>3. ASSUME NEW r \in Request, Drop(r)
          PROVE  FALSE
      BY <1>0, <1>2, <2>3 DEF Drop, Disturbed
    <2> QED BY <1>0, <1>1, <2>1, <2>2, <2>3, TempMoves
  <1>9. ASSUME ~Follow(t)
        PROVE  Back(k, t)'
    BY <1>1, <1>2, <1>3, <1>6, <1>7, <1>8, <1>9 DEF Back
  <1> QED BY <1>5, <1>9

LEMMA ServingFacts ==
  ASSUME Inv, NEW k, NEW t \in Tab, NEW r \in Request, NEW pc \in Asking, Serving(k, t, r, pc)
  PROVE  /\ tab[t] \in TabState /\ req[r] \in RequestState
         /\ k \in DOMAIN code /\ code[k] \in CodeRow
         /\ BegunIn(code[k].attempt, browserOf[t])
         /\ \A o \in Tab : tab[o].at = "waiting" /\ tab[o].req = r => o = t
         /\ pc = "answer" => /\ req[r].session \in DOMAIN sessions
                             /\ sessions[req[r].session].code = k
PROOF
  <1>1. TabOK(t) /\ RequestOK(r) /\ tab[t] \in TabState /\ req[r] \in RequestState
    BY DEF Inv, TypeOK
  <1>2. k \in DOMAIN code
    BY <1>1 DEF Serving, RequestOK
  <1>3. code[k] \in CodeRow
    BY <1>2 DEF Inv, TypeOK
  <1>4. BegunIn(code[k].attempt, browserOf[t])
    BY <1>1 DEF Serving, TabOK, RequestOK
  <1>5. \A o \in Tab : tab[o].at = "waiting" /\ tab[o].req = r => o = t
    BY DEF Serving, Inv, OneWaits
  <1> QED BY <1>1, <1>2, <1>3, <1>4, <1>5 DEF Serving, RequestOK

(* As long as the relying party does not serve the request, it stays.      *)
LEMMA ServingStays ==
  ASSUME Inv, [Next]_vars, NEW k \in Code, NEW t \in Tab, NEW r \in Request, NEW pc \in Asking,
         Serving(k, t, r, pc), NEW n \in Nat, faults >= n, ~Excused(k, n), ~Excused(k, n)', ~Serve(r)
  PROVE  Serving(k, t, r, pc)'
PROOF
  <1>0. ~Disturbed(k) /\ ~Disturbed(k)' /\ ~HitByAReplay(k) /\ UNCHANGED faults /\ ~Fault
    BY FaultsStay DEF Excused
  <1>1. /\ tab[t] \in TabState /\ req[r] \in RequestState
        /\ k \in DOMAIN code
        /\ BegunIn(code[k].attempt, browserOf[t])
        /\ \A o \in Tab : tab[o].at = "waiting" /\ tab[o].req = r => o = t
    BY ServingFacts
  <1>2. /\ tab[t].at = "waiting" /\ tab[t].code = k /\ tab[t].req = r
        /\ req[r].pc = pc /\ req[r].code = k /\ pc # "idle"
    BY DEF Serving, Asking
  <1>3. code'[k] = code[k]
    BY <1>1, NextGrows DEF Grows, Extends
  <1>4. ~Reload(t)
    <2> SUFFICES ASSUME Reload(t) PROVE FALSE
      OBVIOUS
    <2>1. tab' = [tab EXCEPT ![t] = [tab[t] EXCEPT !.at = "callback", !.req = None]] /\ req' = req
      BY DEF Reload, Show
    <2>2. /\ tab'[t].at = "callback" /\ tab'[t].code = k
          /\ \A o \in Tab \ {t} : tab'[o] = tab[o]
      BY <1>1, <1>2, <2>1 DEF TabState, Inv, TypeOK
    <2>3. ~Awaited(r)'
      BY <1>1, <2>2 DEF Awaited
    <2>4. req'[r].pc # "idle"
      BY <1>2, <2>1
    <2> QED BY <1>0, <2>2, <2>3, <2>4 DEF Disturbed
  <1>5. \A q \in Request : ~Hear(t, q)
    BY <1>2 DEF Hear, Serve
  <1>6. tab'[t] = tab[t]
    BY <1>0, <1>2, <1>4, <1>5, TabMoves DEF TabStep, ClickLogin, Authorize, Leave, OpenDashboard,
       Follow, Callback, SubmitLogin, Reopen, Logout
  <1>7. /\ req'[r].pc = pc /\ req'[r].code = k
        /\ req'[r].expected = req[r].expected /\ req'[r].state = req[r].state
        /\ pc = "userinfo" => req'[r].live
    <2>1. CASE req'[r] = req[r]
      BY <1>2, <2>1 DEF Serving
    <2>2. ASSUME NEW q \in Request \ {r}, Exchange(q),
                 req'[r] = [req[r] EXCEPT !.live =
                   @ /\ ~(Replayed(q) /\ code[req[r].code].session = code[req[q].code].session)]
          PROVE  /\ req'[r].pc = pc /\ req'[r].code = k
                 /\ req'[r].expected = req[r].expected /\ req'[r].state = req[r].state
                 /\ pc = "userinfo" => req'[r].live
      <3>1. pc = "userinfo" => ~(Replayed(q) /\ code[req[r].code].session = code[req[q].code].session)
        BY <1>0, <1>2, <2>2 DEF HitByAReplay, Replayed, Exchange, Serving
      <3> QED BY <1>1, <1>2, <2>2, <3>1 DEF RequestState, Serving
    <2> QED BY <1>0, <1>2, <2>1, <2>2, RequestMoves
  <1>8. pc = "exchange" => k \notin used'
    <2> SUFFICES ASSUME pc = "exchange" PROVE k \notin used'
      OBVIOUS
    <2>1. ASSUME NEW q \in Request, Redeem(q), req[q].code = k
          PROVE  FALSE
      <3>1. q = r
        BY <1>0, <1>1, <1>2, <2>1, OneRedeems
      <3> QED BY <1>2, <2>1, <3>1 DEF Redeem
    <2> QED BY <2>1, OnlyRedeemUses DEF Serving, Redeem
  <1>9. used \subseteq used'
    BY OnlyRedeemUses DEF Redeem
  <1> QED BY <1>2, <1>3, <1>6, <1>7, <1>8, <1>9 DEF Serving

LEMMA Served ==
  ASSUME Inv, NEW k, NEW t \in Tab, NEW r \in Request, NEW pc \in Asking, Serving(k, t, r, pc),
         NEW next, next # "exchange", UNCHANGED <<tab, code>>,
         req'[r].pc = next, req'[r].code = req[r].code,
         req'[r].expected = req[r].expected, req'[r].state = req[r].state,
         next = "userinfo" => k \in used' /\ req'[r].live
  PROVE  Serving(k, t, r, next)'
PROOF
  BY DEF Serving

(* The pc says which step it is. *)
LEMMA ServePc ==
  ASSUME NEW r \in Request, Serve(r)
  PROVE  \/ req[r].pc = "exchange" /\ Exchange(r)
         \/ req[r].pc = "redeem" /\ Redeem(r)
         \/ req[r].pc = "userinfo" /\ FetchUserInfo(r)
         \/ req[r].pc = "selectUser" /\ SelectUser(r)
         \/ req[r].pc = "insertUser" /\ InsertUser(r)
         \/ req[r].pc = "insertSession" /\ CreateSession(r)
         \/ req[r].pc = "revoke" /\ RevokeSession(r)
         \/ req[r].pc \in {"answer", "fail", "cleared"} /\ (Drop(r) \/ \E t \in Tab : Hear(t, r))
PROOF
  <1>1. Exchange(r) => req[r].pc = "exchange"
    BY DEF Exchange
  <1>2. Redeem(r) => req[r].pc = "redeem"
    BY DEF Redeem
  <1>3. FetchUserInfo(r) => req[r].pc = "userinfo"
    BY DEF FetchUserInfo
  <1>4. SelectUser(r) => req[r].pc = "selectUser"
    BY DEF SelectUser
  <1>5. InsertUser(r) => req[r].pc = "insertUser"
    BY DEF InsertUser
  <1>6. CreateSession(r) => req[r].pc = "insertSession"
    BY DEF CreateSession
  <1>7. RevokeSession(r) => req[r].pc = "revoke"
    BY DEF RevokeSession
  <1>8. Drop(r) \/ (\E t \in Tab : Hear(t, r)) => req[r].pc \in {"answer", "fail", "cleared"}
    BY DEF Drop, Hear
  <1> QED BY <1>1, <1>2, <1>3, <1>4, <1>5, <1>6, <1>7, <1>8 DEF Serve

(* Served, it goes on to the next step.                                    *)
LEMMA ServingGoesOn ==
  ASSUME Inv, NEW k \in Code, NEW t \in Tab, NEW r \in Request, Serve(r),
         NEW n, ~Excused(k, n), ~Excused(k, n)'
  PROVE  /\ Serving(k, t, r, "exchange") => Serving(k, t, r, "redeem")'
         /\ Serving(k, t, r, "redeem") => Serving(k, t, r, "userinfo")'
         /\ Serving(k, t, r, "userinfo") => Serving(k, t, r, "selectUser")'
         /\ Serving(k, t, r, "selectUser") =>
              Serving(k, t, r, "insertUser")' \/ Serving(k, t, r, "insertSession")'
         /\ Serving(k, t, r, "insertUser") => Serving(k, t, r, "insertSession")'
         /\ Serving(k, t, r, "insertSession") => Serving(k, t, r, "answer")'
         /\ ~Serving(k, t, r, "answer")
PROOF
  <1> USE DEF opTables, rpTables
  <1>0. req \in [Request -> RequestState] /\ req[r] \in RequestState
    BY DEF Inv, TypeOK
  <1>1. ASSUME NEW q, req' = [req EXCEPT ![r] = q]
        PROVE  req'[r] = q
    BY <1>0, <1>1
  <1>2. \A pc : Serving(k, t, r, pc) => req[r].pc = pc /\ req[r].code = k
    BY DEF Serving
  <1>3. ASSUME Serving(k, t, r, "exchange") PROVE Serving(k, t, r, "redeem")'
    <2>1. Exchange(r)
      BY <1>2, <1>3, ServePc
    <2>2. Acceptable(r)
      BY <1>3 DEF Serving, Acceptable
    <2>3. req'[r] = [req[r] EXCEPT !.pc = "redeem"] /\ UNCHANGED <<tab, code>>
      BY <2>1, <2>2 DEF Exchange
    <2>4. /\ req'[r].pc = "redeem" /\ req'[r].code = req[r].code
          /\ req'[r].expected = req[r].expected /\ req'[r].state = req[r].state
      BY <1>0, <2>3 DEF RequestState
    <2> QED BY <1>3, <2>3, <2>4, Served DEF Asking
  <1>4. ASSUME Serving(k, t, r, "redeem") PROVE Serving(k, t, r, "userinfo")'
    <2>1. Redeem(r)
      BY <1>2, <1>4, ServePc
    <2>2. /\ req'[r] = [req[r] EXCEPT !.pc = "userinfo", !.live = TRUE]
          /\ UNCHANGED <<tab, code>> /\ k \in used'
      BY <1>1, <1>2, <1>4, <2>1 DEF Redeem
    <2>3. /\ req'[r].pc = "userinfo" /\ req'[r].code = req[r].code /\ req'[r].live
          /\ req'[r].expected = req[r].expected /\ req'[r].state = req[r].state
      BY <1>0, <2>2 DEF RequestState
    <2> QED BY <1>4, <2>2, <2>3, Served DEF Asking
  <1>5. ASSUME NEW pc, Goto(r, pc)
        PROVE  /\ req'[r].pc = pc /\ req'[r].code = req[r].code
               /\ req'[r].expected = req[r].expected /\ req'[r].state = req[r].state
    BY <1>0, <1>5 DEF Goto, RequestState
  <1>6. ASSUME Serving(k, t, r, "userinfo") PROVE Serving(k, t, r, "selectUser")'
    <2>1. FetchUserInfo(r)
      BY <1>2, <1>6, ServePc
    <2>2. Goto(r, "selectUser") /\ UNCHANGED <<tab, code>>
      BY <1>6, <2>1 DEF FetchUserInfo, Serving
    <2> QED BY <1>5, <1>6, <2>2, Served DEF Asking
  <1>7. ASSUME Serving(k, t, r, "selectUser")
        PROVE  Serving(k, t, r, "insertUser")' \/ Serving(k, t, r, "insertSession")'
    <2>1. SelectUser(r)
      BY <1>2, <1>7, ServePc
    <2>2. UNCHANGED <<tab, code>>
      BY <2>1 DEF SelectUser
    <2>3. \/ req'[r] = [req[r] EXCEPT !.pc = "insertUser"]
          \/ \E u : req'[r] = [req[r] EXCEPT !.pc = "insertSession", !.user = u]
      BY <1>1, <2>1 DEF SelectUser
    <2>4. /\ req'[r].pc \in {"insertUser", "insertSession"} /\ req'[r].code = req[r].code
          /\ req'[r].expected = req[r].expected /\ req'[r].state = req[r].state
      BY <1>0, <2>3 DEF RequestState
    <2> QED BY <1>7, <2>2, <2>4, Served DEF Asking
  <1>8. ASSUME Serving(k, t, r, "insertUser") PROVE Serving(k, t, r, "insertSession")'
    <2>1. InsertUser(r)
      BY <1>2, <1>8, ServePc
    <2>2. RowsOf(Subject(k)) = {}
      BY <1>2, <1>8 DEF Excused, Overtaken
    <2>3. \E u : req' = [req EXCEPT ![r] = [@ EXCEPT !.pc = "insertSession", !.user = u]]
      BY <1>2, <1>8, <2>1, <2>2 DEF InsertUser
    <2>4. /\ req'[r].pc = "insertSession" /\ req'[r].code = req[r].code
          /\ req'[r].expected = req[r].expected /\ req'[r].state = req[r].state
      BY <1>0, <2>3 DEF RequestState
    <2>5. UNCHANGED <<tab, code>>
      BY <2>1 DEF InsertUser
    <2> QED BY <1>8, <2>4, <2>5, Served DEF Asking
  <1>9. ASSUME Serving(k, t, r, "insertSession") PROVE Serving(k, t, r, "answer")'
    <2>1. CreateSession(r)
      BY <1>2, <1>9, ServePc
    <2>2. \E s : req' = [req EXCEPT ![r] = [@ EXCEPT !.pc = "answer", !.session = s]]
      BY <2>1 DEF CreateSession
    <2>3. /\ req'[r].pc = "answer" /\ req'[r].code = req[r].code
          /\ req'[r].expected = req[r].expected /\ req'[r].state = req[r].state
      BY <1>0, <2>2 DEF RequestState
    <2>4. UNCHANGED <<tab, code>>
      BY <2>1 DEF CreateSession
    <2> QED BY <1>9, <2>3, <2>4, Served DEF Asking
  <1>10. ASSUME Serving(k, t, r, "answer") PROVE FALSE
    <2>1. /\ \A o \in Tab : tab[o].at = "waiting" /\ tab[o].req = r => o = t
          /\ req[r].session \in DOMAIN sessions /\ sessions[req[r].session].code = k
      <3>1. "answer" \in Asking
        BY DEF Asking
      <3> HIDE DEF Asking
      <3> QED BY <1>10, <3>1, ServingFacts
    <2>2. Awaited(r) /\ req[r].pc = "answer"
      BY <1>10 DEF Serving, Awaited
    <2>3. Hear(t, r)
      BY <2>1, <2>2, ServePc DEF Drop, Hear
    <2>4. /\ tab' = [tab EXCEPT ![t] = [Home EXCEPT !.at = "dashboard"]]
          /\ jar' = [jar EXCEPT ![browserOf[t]] = Cookies(r, jar[browserOf[t]])]
          /\ UNCHANGED <<browserOf, sessions>>
      BY <2>2, <2>3 DEF Hear, Show, SetCookie
    <2>5. Cookies(r, jar[browserOf[t]]) = [jar[browserOf[t]] EXCEPT !.temp = None, !.rp = req[r].session]
      BY <2>2 DEF Cookies
    <2>6. /\ jar \in [Browser -> Jar] /\ browserOf[t] \in Browser /\ tab \in [Tab -> TabState]
          /\ jar[browserOf[t]] \in Jar
      BY DEF Inv, TypeOK
    <2>7. tab'[t].at = "dashboard" /\ jar'[browserOf'[t]].rp = req[r].session
      BY <2>4, <2>5, <2>6 DEF Home, Jar
    <2>8. Shown(k)'
      BY <2>1, <2>4, <2>7 DEF Shown
    <2> QED BY <2>8 DEF Excused
  <1> QED BY <1>3, <1>4, <1>6, <1>7, <1>8, <1>9, <1>10

-----------------------------------------------------------------------------
(* A fair scheduler *)
Quiet == []Inv /\ []TabsAreOfTheirCode /\ [][Next]_vars /\ []KeysLeft

IsFollowed(t) == []<>(~(tab[t].at = "callback" /\ AllAwaited)) \/ []<><<Follow(t)>>_vars

IsServed(r) == []<>(req[r].pc = "idle") \/ []<><<Serve(r)>>_vars

LEMMA CallbacksGoOn ==
  FairSpec /\ []CallbacksNeverWait /\ []KeysLeft =>
    /\ Quiet
    /\ \A t \in Tab : IsFollowed(t)
    /\ \A r \in Request : IsServed(r)
PROOF
  <1>1. ASSUME NEW t \in Tab
        PROVE  FairSpec /\ []CallbacksNeverWait => IsFollowed(t)
    <2>1. CallbacksNeverWait => CanFollow(t)
      BY DEF CallbacksNeverWait
    <2>2. FairSpec => Follows(t)
      BY DEF FairSpec, Fairness
    <2> QED BY <2>1, <2>2, PTL DEF Follows, CanFollow, IsFollowed
  <1>2. ASSUME NEW r \in Request
        PROVE  FairSpec /\ []CallbacksNeverWait /\ []KeysLeft => IsServed(r)
    <2>1. CallbacksNeverWait => CanContinue(r)
      BY DEF CallbacksNeverWait
    <2>2. FairSpec => Scheduled(r)
      BY DEF FairSpec, Fairness
    <2>3. req[r].pc = "idle" \/ req[r].pc # "idle"
      OBVIOUS
    <2> QED BY <2>1, <2>2, <2>3, PTL DEF Scheduled, CanContinue, IsServed
  <1>3. FairSpec /\ []KeysLeft => Quiet
    BY Invariance, TabsKeepTheirCode, PTL DEF FairSpec, Spec, Quiet
  <1> QED BY <1>1, <1>2, <1>3

(* The same, with n faults by now. *)
BackNow(k, t, n) == Back(k, t) /\ faults >= n

ServingNow(k, t, r, n) == Serving(k, t, r, "exchange") /\ faults >= n

TakenNow(k, t, n) == \E r \in Request : ServingNow(k, t, r, n)

LEMMA BackIsServed ==
  ASSUME NEW k \in Code, NEW n \in Nat, NEW t \in Tab
  PROVE  Quiet /\ IsFollowed(t) =>
           [](BackNow(k, t, n) => <>(TakenNow(k, t, n) \/ Excused(k, n)))
PROOF
  <1> DEFINE B == BackNow(k, t, n)
             T == TakenNow(k, t, n)
  <1>1. Inv /\ TabsAreOfTheirCode /\ [Next]_vars /\ B =>
          Excused(k, n) \/ Excused(k, n)' \/ B' \/ T'
    BY BackMoves, FaultsStay DEF BackNow, TakenNow, ServingNow
  <1>2. Inv /\ TabsAreOfTheirCode /\ [Next]_vars /\ <<Follow(t)>>_vars /\ B =>
          Excused(k, n) \/ Excused(k, n)' \/ T'
    BY BackMoves, FaultsStay DEF BackNow, TakenNow, ServingNow
  <1>3. B => (tab[t].at = "callback" /\ AllAwaited) \/ Excused(k, n)
    BY DEF BackNow, Back, AllAwaited, Excused, Disturbed
  <1> HIDE DEF B, T
  <1>4. Quiet /\ IsFollowed(t) => [](B => <>(T \/ Excused(k, n)))
    BY <1>1, <1>2, <1>3, PTL DEF Quiet, IsFollowed
  <1> QED BY <1>4 DEF B, T

LEMMA ServingSucceeds ==
  ASSUME NEW k \in Code, NEW n \in Nat, NEW t \in Tab, NEW r \in Request
  PROVE  Quiet /\ IsServed(r) =>
           [](ServingNow(k, t, r, n) => <>Excused(k, n))
PROOF
  <1> DEFINE P(pc) == Serving(k, t, r, pc) /\ faults >= n
  <1> USE DEF P
  <1>1. ASSUME NEW pc \in Asking
        PROVE  Inv /\ [Next]_vars /\ P(pc) => Excused(k, n) \/ Excused(k, n)' \/ P(pc)' \/ Serve(r)
    BY ServingStays, FaultsStay
  <1>2. Inv /\ [Next]_vars /\ Serve(r) =>
          /\ P("exchange") => P("redeem")' \/ Excused(k, n) \/ Excused(k, n)'
          /\ P("redeem") => P("userinfo")' \/ Excused(k, n) \/ Excused(k, n)'
          /\ P("userinfo") => P("selectUser")' \/ Excused(k, n) \/ Excused(k, n)'
          /\ P("selectUser") => P("insertUser")' \/ P("insertSession")' \/ Excused(k, n) \/ Excused(k, n)'
          /\ P("insertUser") => P("insertSession")' \/ Excused(k, n) \/ Excused(k, n)'
          /\ P("insertSession") => P("answer")' \/ Excused(k, n) \/ Excused(k, n)'
          /\ P("answer") => Excused(k, n) \/ Excused(k, n)'
    BY ServingGoesOn, FaultsStay
  <1>3. \A pc \in Asking : P(pc) => ~(req[r].pc = "idle")
    BY DEF Serving, Asking
  <1> DEFINE E == P("exchange")
             D == P("redeem")
             U == P("userinfo")
             S == P("selectUser")
             I == P("insertUser")
             C == P("insertSession")
             A == P("answer")
             Next2 == Inv /\ [Next]_vars
  <1>4. /\ Next2 /\ E => E' \/ D' \/ Excused(k, n) \/ Excused(k, n)'
        /\ Next2 /\ D => D' \/ U' \/ Excused(k, n) \/ Excused(k, n)'
        /\ Next2 /\ U => U' \/ S' \/ Excused(k, n) \/ Excused(k, n)'
        /\ Next2 /\ S => S' \/ I' \/ C' \/ Excused(k, n) \/ Excused(k, n)'
        /\ Next2 /\ I => I' \/ C' \/ Excused(k, n) \/ Excused(k, n)'
        /\ Next2 /\ C => C' \/ A' \/ Excused(k, n) \/ Excused(k, n)'
        /\ Next2 /\ A => A' \/ Excused(k, n) \/ Excused(k, n)'
    BY <1>1, <1>2 DEF Asking
  <1>5. /\ Next2 /\ <<Serve(r)>>_vars /\ E => D' \/ Excused(k, n) \/ Excused(k, n)'
        /\ Next2 /\ <<Serve(r)>>_vars /\ D => U' \/ Excused(k, n) \/ Excused(k, n)'
        /\ Next2 /\ <<Serve(r)>>_vars /\ U => S' \/ Excused(k, n) \/ Excused(k, n)'
        /\ Next2 /\ <<Serve(r)>>_vars /\ S => I' \/ C' \/ Excused(k, n) \/ Excused(k, n)'
        /\ Next2 /\ <<Serve(r)>>_vars /\ I => C' \/ Excused(k, n) \/ Excused(k, n)'
        /\ Next2 /\ <<Serve(r)>>_vars /\ C => A' \/ Excused(k, n) \/ Excused(k, n)'
        /\ Next2 /\ <<Serve(r)>>_vars /\ A => Excused(k, n) \/ Excused(k, n)'
    BY <1>2
  <1>6. /\ E => ~(req[r].pc = "idle")
        /\ D => ~(req[r].pc = "idle")
        /\ U => ~(req[r].pc = "idle")
        /\ S => ~(req[r].pc = "idle")
        /\ I => ~(req[r].pc = "idle")
        /\ C => ~(req[r].pc = "idle")
        /\ A => ~(req[r].pc = "idle")
    BY <1>3 DEF Asking
  <1> HIDE DEF E, D, U, S, I, C, A
  <1>7. Quiet /\ IsServed(r) => [](A => <>Excused(k, n))
    BY <1>4, <1>5, <1>6, PTL DEF Quiet, IsServed
  <1>8. Quiet /\ IsServed(r) => [](C => <>(A \/ Excused(k, n)))
    BY <1>4, <1>5, <1>6, PTL DEF Quiet, IsServed
  <1>9. Quiet /\ IsServed(r) => [](I => <>(C \/ Excused(k, n)))
    BY <1>4, <1>5, <1>6, PTL DEF Quiet, IsServed
  <1>10. Quiet /\ IsServed(r) => [](S => <>(I \/ C \/ Excused(k, n)))
    BY <1>4, <1>5, <1>6, PTL DEF Quiet, IsServed
  <1>11. Quiet /\ IsServed(r) => [](U => <>(S \/ Excused(k, n)))
    BY <1>4, <1>5, <1>6, PTL DEF Quiet, IsServed
  <1>12. Quiet /\ IsServed(r) => [](D => <>(U \/ Excused(k, n)))
    BY <1>4, <1>5, <1>6, PTL DEF Quiet, IsServed
  <1>13. Quiet /\ IsServed(r) => [](E => <>(D \/ Excused(k, n)))
    BY <1>4, <1>5, <1>6, PTL DEF Quiet, IsServed
  <1>14. Quiet /\ IsServed(r) => [](E => <>Excused(k, n))
    BY <1>7, <1>8, <1>9, <1>10, <1>11, <1>12, <1>13, PTL
  <1>15. ServingNow(k, t, r, n) <=> E
    BY DEF ServingNow, E
  <1> QED BY <1>14, <1>15, PTL

(* A code that returns unredeemed to the browser whose newest attempt it   *)
(* answers ends in a shown session of that login, unless another tab, an   *)
(* abandoned request, a first login at the same time, a replay or a fault  *)
(* gets in between (LoginsSucceed; callback/route.ts:26-82).  The keys do  *)
(* not run out: they are UUIDs.                                            *)
THEOREM LoginsEndInASession ==
  FairSpec /\ []CallbacksNeverWait /\ []KeysLeft => LoginsSucceed
PROOF
  <1> DEFINE Fair == FairSpec /\ []CallbacksNeverWait /\ []KeysLeft
  <1>1. ASSUME NEW k \in Code, NEW n \in Nat, NEW t \in Tab
        PROVE  Fair => [](BackNow(k, t, n) => <>Excused(k, n))
    <2>1. Fair => [](BackNow(k, t, n) => <>(TakenNow(k, t, n) \/ Excused(k, n)))
      BY CallbacksGoOn, BackIsServed
    <2>2. Fair => [](\A r \in Request : ServingNow(k, t, r, n) => <>Excused(k, n))
      <3>1. ASSUME NEW r \in Request
            PROVE  Fair => [](ServingNow(k, t, r, n) => <>Excused(k, n))
        BY CallbacksGoOn, ServingSucceeds
      <3> QED BY <3>1
    <2>3. (\A r \in Request : ServingNow(k, t, r, n) => <>Excused(k, n)) =>
            (TakenNow(k, t, n) => <>Excused(k, n))
      BY DEF TakenNow
    <2> HIDE DEF Fair
    <2> QED BY <2>1, <2>2, <2>3, PTL
  <1>2. ASSUME NEW k \in Code, NEW n \in 0..MaxMishaps
        PROVE  Fair => ((Returned(k) /\ faults = n) ~>
                          (Shown(k) \/ Disturbed(k) \/ Overtaken(k) \/ HitByAReplay(k) \/ faults > n))
    <2>0. n \in Nat
      OBVIOUS
    <2>1. Fair => [](\A t \in Tab : BackNow(k, t, n) => <>Excused(k, n))
      <3>1. ASSUME NEW t \in Tab
            PROVE  Fair => [](BackNow(k, t, n) => <>Excused(k, n))
        BY <1>1, <2>0
      <3> QED BY <3>1
    <2>2. (\A t \in Tab : BackNow(k, t, n) => <>Excused(k, n)) =>
            ((\E t \in Tab : BackNow(k, t, n)) => <>Excused(k, n))
      OBVIOUS
    <2>3. Returned(k) /\ faults = n => \E t \in Tab : BackNow(k, t, n)
      BY <2>0 DEF Returned, Back, BackNow
    <2>4. Excused(k, n) =>
            Shown(k) \/ Disturbed(k) \/ Overtaken(k) \/ HitByAReplay(k) \/ faults > n
      BY DEF Excused
    <2> HIDE DEF Fair
    <2> QED BY <2>1, <2>2, <2>3, <2>4, PTL
  <1> QED BY <1>2 DEF LoginsSucceed

(* The hypothesis KeysLeft holds wherever the keys are as many as UUIDs are*)
(* taken to be: only finitely many rows are ever there.                    *)
RowsAreFinite == IsFiniteSet(DOMAIN users) /\ IsFiniteSet(DOMAIN sessions)

LEMMA InsertIsFinite ==
  ASSUME NEW table, IsFiniteSet(DOMAIN table), NEW id, NEW row
  PROVE  IsFiniteSet(DOMAIN Insert(table, id, row))
PROOF
  <1>1. DOMAIN Insert(table, id, row) = DOMAIN table \cup {id}
    BY DEF Insert
  <1> QED BY <1>1, FS_AddElement

LEMMA NextRowsAreFinite ==
  ASSUME RowsAreFinite, [Next]_vars
  PROVE  RowsAreFinite'
PROOF
  <1> USE DEF opTables, rpTables
  <1>1. CASE UNCHANGED <<users, sessions>>
    BY <1>1 DEF RowsAreFinite
  <1>2. ASSUME NEW r \in Request, InsertUser(r)
        PROVE  RowsAreFinite'
    <2>1. UNCHANGED sessions /\ (UNCHANGED users \/ \E u, row : users' = Insert(users, u, row))
      BY <1>2 DEF InsertUser
    <2> QED BY <1>1, <2>1, InsertIsFinite DEF RowsAreFinite
  <1>3. ASSUME NEW r \in Request, CreateSession(r)
        PROVE  RowsAreFinite'
    <2>1. UNCHANGED users /\ \E s, row : sessions' = Insert(sessions, s, row)
      BY <1>3 DEF CreateSession
    <2> QED BY <2>1, InsertIsFinite DEF RowsAreFinite
  <1>4. ASSUME NEW r \in Request,
               \/ Exchange(r) \/ Redeem(r) \/ FetchUserInfo(r) \/ SelectUser(r) \/ RevokeSession(r)
               \/ Drop(r) \/ (\E t \in Tab : Hear(t, r)) \/ AbortCallback(r)
        PROVE  UNCHANGED <<users, sessions>>
    BY <1>4 DEF Exchange, Redeem, FetchUserInfo, SelectUser, RevokeSession, Drop, Hear, AbortCallback
  <1>5. ASSUME NEW t \in Tab,
               \/ ClickLogin(t) \/ Authorize(t) \/ Reload(t) \/ Leave(t) \/ OpenDashboard(t) \/ Follow(t)
               \/ \E u \in Visitors : SubmitLogin(t, u)
               \/ \E o \in Tab : Reopen(t, o)
               \/ \E r \in Request : Logout(t, r) \/ AbortLogout(t, r)
        PROVE  UNCHANGED <<users, sessions>>
    BY <1>5 DEF ClickLogin, Authorize, Reload, Leave, OpenDashboard, Follow, Callback, SubmitLogin,
                Reopen, Logout, AbortLogout
  <1>6. Crash \/ (\E b \in Browser : ExpireTemp(b)) \/ UNCHANGED vars => UNCHANGED <<users, sessions>>
    BY DEF Crash, ExpireTemp, vars
  <1> QED BY <1>1, <1>2, <1>3, <1>4, <1>5, <1>6 DEF Next, Serve

(* With infinitely many keys for its two tables the relying party never    *)
(* runs out of them, and every callback succeeds or is excused.            *)
THEOREM KeysDoNotRunOut ==
  ASSUME ~IsFiniteSet(RpUser), ~IsFiniteSet(RpSession)
  PROVE  /\ Spec => []KeysLeft
         /\ FairSpec /\ []CallbacksNeverWait => LoginsSucceed
PROOF
  <1>1. Init => RowsAreFinite
    BY FS_EmptySet DEF Init, RowsAreFinite
  <1>2. RowsAreFinite /\ [Next]_vars => RowsAreFinite'
    BY NextRowsAreFinite
  <1>3. TypeOK /\ RowsAreFinite => KeysLeft
    <2> SUFFICES ASSUME TypeOK, RowsAreFinite PROVE KeysLeft
      OBVIOUS
    <2>1. DOMAIN users # RpUser /\ DOMAIN sessions # RpSession
      BY DEF RowsAreFinite
    <2> QED BY <2>1 DEF TypeOK, KeysLeft
  <1>4. Spec => []KeysLeft
    BY <1>1, <1>2, <1>3, TypeCorrect, PTL DEF Spec
  <1> QED BY <1>4, LoginsEndInASession DEF FairSpec

=============================================================================
