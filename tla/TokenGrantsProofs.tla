-------------------------- MODULE TokenGrantsProofs --------------------------
(***************************************************************************)
(* Theorems about TokenGrants, for every set of keys, clients, users,      *)
(* requests and administrators and every bound.                            *)
(***************************************************************************)
EXTENDS TokenGrants, TLAPS

USE DEF ReferencesHold, Scopes, CodeRow, ATokenRow, RTokenRow, MintingPC, CleanupPC, PC,
        RequestState, IncidentState, Idle, NoIncident

-----------------------------------------------------------------------------
(* What a request at each statement has in hand. *)
Loaded(q) ==
  /\ q.pc = "createCode" => q.client \in Client /\ q.cred \in sessions /\ q.new \in Code
  /\ q.pc \in MintingPC => /\ q.client \in Client /\ q.new \in AToken
                           /\ q.cred \in DOMAIN code \cup DOMAIN rt
  /\ q.pc \in {"markUsed", "createIDT"} => q.cred \in DOMAIN code
  /\ q.pc \in {"rotate", "retireAT", "markReuse", "revokePair"} => q.cred \in DOMAIN rt
  /\ q.pc \in {"revokeATs", "revokeRTs"} => q.cred \in DOMAIN code \cup DOMAIN rt
  /\ q.pc \in {"createIDT", "createRT"} => q.new \in DOMAIN at
  /\ q.pc \in MintingPC /\ (q.pc = "createRT" \/ q.cred \in RToken \/ q.client \in RefreshClient)
       => q.newRT \in RToken

TablesOK ==
  /\ sessions \subseteq Session
  /\ DOMAIN code \subseteq Code /\ \A k \in DOMAIN code : code[k] \in CodeRow
  /\ DOMAIN at \subseteq AToken /\ \A t \in DOMAIN at : at[t] \in ATokenRow
  /\ DOMAIN rt \subseteq RToken /\ \A x \in DOMAIN rt : rt[x] \in RTokenRow
  /\ idt \subseteq AToken
  /\ revoked \subseteq Session \cup AToken \cup RToken
  /\ used \subseteq Code
  /\ reused \subseteq RToken
  /\ expired \subseteq MayExpire
  /\ ReferencesHold

RequestsOK == req \in [Request -> RequestState] /\ \A r \in Request : Loaded(req[r])

TypeInv ==
  TablesOK /\ RequestsOK /\ inc \in [Admin -> IncidentState] /\ faults \in Nat

(* The invariant of this section is stronger than the type invariant. *)
LEMMA TypeInvImpliesTypeOK == TypeInv => TypeOK
  BY DEF TypeInv, TablesOK, RequestsOK, TypeOK

(* The empty database with idle goroutines satisfies it. *)
LEMMA InitTypeInv == Init => TypeInv
  BY DEF Init, TypeInv, TablesOK, RequestsOK, Loaded

(* Rows are never deleted, so what the other requests have loaded stays.   *)
LEMMA OneRequestSteps ==
  ASSUME RequestsOK, NEW r \in Request, NEW q \in RequestState,
         sessions \subseteq sessions', DOMAIN code \subseteq DOMAIN code', DOMAIN at \subseteq DOMAIN at',
         DOMAIN rt \subseteq DOMAIN rt',
         req' = [req EXCEPT ![r] = q], Loaded(q)'
  PROVE  RequestsOK'
PROOF
  <1>1. req' \in [Request -> RequestState]
    BY DEF RequestsOK
  <1>2. ASSUME NEW o \in Request PROVE Loaded(req[o])'
    <2>1. CASE o = r
      BY <2>1 DEF RequestsOK, Loaded
    <2>2. CASE o # r
      BY <2>2 DEF RequestsOK, Loaded
    <2> QED BY <2>1, <2>2
  <1> QED BY <1>1, <1>2 DEF RequestsOK, Loaded

(* Accepting a request loads rows that exist and draws keys of their table. *)
LEMMA AcceptTypeInv ==
  ASSUME TypeInv, NEW r \in Request, Accept(r)
  PROVE  TypeInv'
PROOF
  <1> USE KeysAreDisjoint, OwnersAreTyped DEF TypeInv, tables
  <1>1. ASSUME NEW s \in Session, NEW c \in Client, AuthorizeCheck(r, s, c) PROVE TypeInv'
    <2>1. PICK k \in FreshKeys(Code) :
            req' = [req EXCEPT ![r] = [Idle EXCEPT !.pc = "createCode", !.client = c,
                                                   !.cred = s, !.new = k]]
      BY <1>1 DEF AuthorizeCheck
    <2> DEFINE q == [Idle EXCEPT !.pc = "createCode", !.client = c, !.cred = s, !.new = k]
    <2>2. q \in RequestState /\ Loaded(q)'
      BY <1>1 DEF AuthorizeCheck, IsValid, FreshKeys, Loaded
    <2>3. UNCHANGED <<tables, revoked, inc, faults>>
      BY <1>1 DEF AuthorizeCheck
    <2>4. RequestsOK'
      BY <2>1, <2>2, <2>3, OneRequestSteps
    <2> QED BY <2>3, <2>4 DEF TablesOK
  <1>2. ASSUME NEW c \in Client, NEW k \in Code, CodeGrantAccept(r, c, k) PROVE TypeInv'
    <2>1. PICK t \in FreshKeys(AToken),
               x \in IF c \in RefreshClient THEN FreshKeys(RToken) ELSE {None} :
            req' = [req EXCEPT ![r] = [pc |-> "markUsed", client |-> c, cred |-> k,
                                       new |-> t, newRT |-> x]]
      BY <1>2 DEF CodeGrantAccept
    <2> DEFINE q == [pc |-> "markUsed", client |-> c, cred |-> k, new |-> t, newRT |-> x]
    <2>2. k \in DOMAIN code /\ UNCHANGED <<tables, revoked, inc, faults>>
      BY <1>2 DEF CodeGrantAccept
    <2>3. q \in RequestState /\ Loaded(q)'
      BY <2>2 DEF FreshKeys, Loaded
    <2>4. RequestsOK'
      BY <2>1, <2>2, <2>3, OneRequestSteps
    <2> QED BY <2>2, <2>4 DEF TablesOK
  <1>3. ASSUME NEW k \in Code, CodeGrantReplay(r, k) PROVE TypeInv'
    <2> DEFINE q == [Idle EXCEPT !.pc = "revokeATs", !.cred = k]
    <2>1. q \in RequestState /\ Loaded(q)'
      BY <1>3 DEF CodeGrantReplay, Loaded
    <2>2. RequestsOK'
      BY <1>3, <2>1, OneRequestSteps DEF CodeGrantReplay
    <2> QED BY <1>3, <2>2 DEF CodeGrantReplay, TablesOK
  <1>4. ASSUME NEW c \in RefreshClient, NEW x \in RToken, RefreshAccept(r, c, x) PROVE TypeInv'
    <2>1. PICK t \in FreshKeys(AToken), y \in FreshKeys(RToken) :
            req' = [req EXCEPT ![r] = [pc |-> "rotate", client |-> c, cred |-> x,
                                       new |-> t, newRT |-> y]]
      BY <1>4 DEF RefreshAccept
    <2> DEFINE q == [pc |-> "rotate", client |-> c, cred |-> x, new |-> t, newRT |-> y]
    <2>2. x \in DOMAIN rt /\ UNCHANGED <<tables, revoked, inc, faults>>
      BY <1>4 DEF RefreshAccept
    <2>3. q \in RequestState /\ Loaded(q)'
      BY <2>2 DEF FreshKeys, Loaded
    <2>4. RequestsOK'
      BY <2>1, <2>2, <2>3, OneRequestSteps
    <2> QED BY <2>2, <2>4 DEF TablesOK
  <1>5. ASSUME NEW x \in RToken, RefreshReuse(r, x) PROVE TypeInv'
    <2> DEFINE q == [Idle EXCEPT !.pc = "markReuse", !.cred = x]
    <2>1. q \in RequestState /\ Loaded(q)'
      BY <1>5 DEF RefreshReuse, Loaded
    <2>2. RequestsOK'
      BY <1>5, <2>1, OneRequestSteps DEF RefreshReuse
    <2> QED BY <1>5, <2>2 DEF RefreshReuse, TablesOK
  <1>6. ASSUME NEW x \in RToken, RevokeRefreshToken(r, x) PROVE TypeInv'
    <2> DEFINE q == [Idle EXCEPT !.pc = "revokePair", !.cred = x]
    <2>1. UNCHANGED tables /\ UNCHANGED inc
      BY <1>6 DEF RevokeRefreshToken
    <2>2. q \in RequestState /\ Loaded(q)'
      BY <1>6, <2>1 DEF RevokeRefreshToken, Loaded
    <2>3. RequestsOK'
      BY <1>6, <2>1, <2>2, OneRequestSteps DEF RevokeRefreshToken
    <2>4. TablesOK' /\ faults' \in Nat
      BY <1>6, <2>1 DEF RevokeRefreshToken, BestEffortRevoke, Fault, TablesOK
    <2> QED BY <2>1, <2>3, <2>4
  <1> QED BY <1>1, <1>2, <1>3, <1>4, <1>5, <1>6, Accept(r) DEF Accept

(* A request that moves on to statement pc keeps what it has in hand. *)
LEMMA GotoSteps ==
  ASSUME TypeInv, NEW r \in Request, NEW p \in PC, Goto(r, p),
         sessions \subseteq sessions', DOMAIN code \subseteq DOMAIN code', DOMAIN at \subseteq DOMAIN at',
         DOMAIN rt \subseteq DOMAIN rt',
         NEW q, q = [req[r] EXCEPT !.pc = p], Loaded(q)'
  PROVE  RequestsOK'
PROOF
  <1>1. q \in RequestState
    BY DEF TypeInv, RequestsOK
  <1>2. req' = [req EXCEPT ![r] = q]
    BY DEF Goto
  <1> QED BY <1>1, <1>2, OneRequestSteps DEF TypeInv

(* A request that ends has nothing in hand. *)
LEMMA FinishSteps ==
  ASSUME TypeInv, NEW r \in Request, Finish(r),
         sessions \subseteq sessions', DOMAIN code \subseteq DOMAIN code', DOMAIN at \subseteq DOMAIN at',
         DOMAIN rt \subseteq DOMAIN rt'
  PROVE  RequestsOK'
PROOF
  <1>1. Idle \in RequestState /\ Loaded(Idle)'
    BY DEF Loaded
  <1>2. req' = [req EXCEPT ![r] = Idle]
    BY DEF Finish
  <1> QED BY <1>1, <1>2, OneRequestSteps DEF TypeInv

(* One statement of an accepted request keeps the rows well formed. *)
LEMMA ContinueTypeInv ==
  ASSUME TypeInv, NEW r \in Request, Continue(r)
  PROVE  TypeInv'
PROOF
  <1> USE KeysAreDisjoint, OwnersAreTyped DEF TypeInv, tables
  <1> req[r] \in RequestState /\ Loaded(req[r])
    BY DEF RequestsOK
  <1>1. CASE CreateCode(r)
    <2>1. PICK sc \in Scopes :
            code' = Insert(code, req[r].new,
                           [session |-> req[r].cred, client |-> req[r].client, scope |-> sc])
      BY <1>1 DEF CreateCode
    <2>2. /\ req[r].pc = "createCode" /\ Finish(r)
          /\ UNCHANGED <<sessions, at, rt, idt, revoked, used, reused, expired, inc, faults>>
      BY <1>1 DEF CreateCode
    <2>3. DOMAIN code' = DOMAIN code \cup {req[r].new}
      BY <2>1 DEF Insert
    <2>4. \A k \in DOMAIN code' : code'[k] \in CodeRow /\ code'[k].session \in sessions
      BY <2>1, <2>2 DEF TablesOK, Loaded, Insert
    <2>5. TablesOK'
      BY <2>2, <2>3, <2>4 DEF TablesOK, Loaded
    <2>6. RequestsOK'
      BY <2>2, <2>3, FinishSteps
    <2> QED BY <2>2, <2>5, <2>6
  <1>2. CASE MarkAsUsed(r)
    <2>1. PICK q : q = [req[r] EXCEPT !.pc = "createAT"]
      OBVIOUS
    <2>2. Loaded(q)'
      BY <1>2, <2>1 DEF MarkAsUsed, Loaded
    <2>3. RequestsOK'
      BY <1>2, <2>1, <2>2, GotoSteps DEF MarkAsUsed
    <2>4. TablesOK'
      BY <1>2 DEF MarkAsUsed, TablesOK, Loaded
    <2> QED BY <1>2, <2>3, <2>4 DEF MarkAsUsed
  <1>3. CASE CodeGrantCreateAT(r)
    <2> DEFINE k == req[r].cred
    <2>1. /\ req[r].pc = "createAT" /\ k \in Code /\ k \in DOMAIN code
          /\ UNCHANGED <<sessions, code, rt, idt, revoked, used, reused, expired, inc, faults>>
          /\ Goto(r, "createIDT")
      BY <1>3 DEF CodeGrantCreateAT, Loaded, TablesOK
    <2>2. PICK row \in ATokenRow : at' = Insert(at, req[r].new, row) /\ row.session \in sessions
      BY <1>3, <2>1 DEF CodeGrantCreateAT, TablesOK, Loaded
    <2>3. DOMAIN at' = DOMAIN at \cup {req[r].new}
      BY <2>2 DEF Insert
    <2>4. \A t \in DOMAIN at' : at'[t] \in ATokenRow /\ at'[t].session \in sessions
      BY <2>2 DEF TablesOK, Insert
    <2>5. TablesOK'
      BY <2>1, <2>3, <2>4 DEF TablesOK, Loaded
    <2>6. PICK q : q = [req[r] EXCEPT !.pc = "createIDT"]
      OBVIOUS
    <2>7. Loaded(q)'
      BY <2>1, <2>3, <2>6 DEF Loaded
    <2>8. RequestsOK'
      BY <2>1, <2>3, <2>6, <2>7, GotoSteps
    <2> QED BY <2>1, <2>5, <2>8
  <1>4. CASE CreateIDToken(r)
    <2>1. /\ req[r].pc = "createIDT" /\ idt' = idt \cup {req[r].new}
          /\ UNCHANGED <<sessions, code, at, rt, revoked, used, reused, expired, inc, faults>>
      BY <1>4 DEF CreateIDToken
    <2>2. TablesOK'
      BY <2>1 DEF TablesOK, Loaded
    <2>3. CASE req[r].client \in RefreshClient
      <3>1. PICK q : q = [req[r] EXCEPT !.pc = "createRT"]
        OBVIOUS
      <3>2. Loaded(q)'
        BY <2>1, <2>3, <3>1 DEF Loaded
      <3>3. RequestsOK'
        BY <1>4, <2>1, <2>3, <3>1, <3>2, GotoSteps DEF CreateIDToken
      <3> QED BY <2>1, <2>2, <3>3
    <2>4. CASE req[r].client \notin RefreshClient
      BY <1>4, <2>1, <2>2, <2>4, FinishSteps DEF CreateIDToken
    <2> QED BY <2>3, <2>4
  <1>5. CASE Rotate(r)
    <2>1. PICK q : q = [req[r] EXCEPT !.pc = "retireAT"]
      OBVIOUS
    <2>2. Loaded(q)'
      BY <1>5, <2>1 DEF Rotate, Loaded
    <2>3. RequestsOK'
      BY <1>5, <2>1, <2>2, GotoSteps DEF Rotate
    <2>4. TablesOK'
      BY <1>5 DEF Rotate, TablesOK, Loaded
    <2> QED BY <1>5, <2>3, <2>4 DEF Rotate

  <1>6. CASE RetireAT(r)
    <2>1. PICK q : q = [req[r] EXCEPT !.pc = "createAT"]
      OBVIOUS
    <2>2. Loaded(q)'
      BY <1>6, <2>1 DEF RetireAT, Loaded
    <2>3. RequestsOK'
      BY <1>6, <2>1, <2>2, GotoSteps DEF RetireAT
    <2>4. rt[req[r].cred].token \in AToken
      BY <1>6 DEF RetireAT, TablesOK, Loaded
    <2>5. TablesOK' /\ faults' \in Nat
      BY <1>6, <2>4 DEF RetireAT, BestEffortRevoke, Fault, TablesOK
    <2> QED BY <1>6, <2>3, <2>5 DEF RetireAT
  <1>7. CASE RefreshCreateAT(r)
    <2> DEFINE x == req[r].cred
    <2>1. /\ req[r].pc = "createAT" /\ x \in RToken /\ x \in DOMAIN rt
          /\ UNCHANGED <<sessions, code, rt, idt, revoked, used, reused, expired, inc, faults>>
          /\ Goto(r, "createRT")
      BY <1>7 DEF RefreshCreateAT, Loaded, TablesOK
    <2>2. SessionOf(x) = rt[x].session /\ OriginOf(x) = at[rt[x].token].origin
      BY <2>1 DEF SessionOf, OriginOf, TablesOK
    <2>3. /\ at[rt[x].token] \in ATokenRow /\ rt[x] \in RTokenRow
          /\ rt[x].session \in sessions
      BY <2>1 DEF TablesOK
    <2>4. PICK row \in ATokenRow : at' = Insert(at, req[r].new, row) /\ row.session \in sessions
      <3>1. PICK sc \in Scopes :
              at' = Insert(at, req[r].new,
                           [session |-> rt[x].session, client |-> req[r].client,
                            scope |-> sc, grant |-> x, origin |-> OriginOf(x)])
        BY <1>7, <2>2, <2>3 DEF RefreshCreateAT
      <3> DEFINE row == [session |-> rt[x].session, client |-> req[r].client,
                         scope |-> sc, grant |-> x, origin |-> OriginOf(x)]
      <3>2. row \in ATokenRow /\ row.session \in sessions
        BY <2>1, <2>2, <2>3 DEF Loaded
      <3> QED BY <3>1, <3>2
    <2>5. DOMAIN at' = DOMAIN at \cup {req[r].new}
      BY <2>4 DEF Insert
    <2>6. \A t \in DOMAIN at' : at'[t] \in ATokenRow /\ at'[t].session \in sessions
      BY <2>4 DEF TablesOK, Insert
    <2>7. TablesOK'
      BY <2>1, <2>5, <2>6 DEF TablesOK, Loaded
    <2>8. PICK q : q = [req[r] EXCEPT !.pc = "createRT"]
      OBVIOUS
    <2>9. Loaded(q)'
      BY <2>1, <2>5, <2>8 DEF Loaded
    <2>10. RequestsOK'
      BY <2>1, <2>5, <2>8, <2>9, GotoSteps
    <2> QED BY <2>1, <2>7, <2>10
  <1>8. CASE CreateRT(r)
    <2> DEFINE g == req[r].cred
    <2>1. /\ req[r].pc = "createRT" /\ Finish(r)
          /\ rt' = Insert(rt, req[r].newRT, NewRTokenRow(g, req[r].new))
          /\ UNCHANGED <<sessions, code, at, idt, revoked, used, reused, expired, inc, faults>>
      BY <1>8 DEF CreateRT
    <2>2. req[r].newRT \in RToken /\ req[r].new \in DOMAIN at /\ g \in DOMAIN code \cup DOMAIN rt
      BY <2>1 DEF Loaded
    <2>3. SessionOf(g) \in sessions /\ ParentOf(g) \in DOMAIN rt \cup {None}
      BY <2>2 DEF SessionOf, ParentOf, TablesOK
    <2>4. NewRTokenRow(g, req[r].new) \in RTokenRow
      BY <2>2, <2>3 DEF NewRTokenRow, TablesOK
    <2>5. NewRTokenRow(g, req[r].new) \in
            [session : sessions, token : DOMAIN at, parent : DOMAIN rt \cup {None}]
      BY <2>2, <2>3 DEF NewRTokenRow
    <2>6. DOMAIN rt' = DOMAIN rt \cup {req[r].newRT}
      BY <2>1 DEF Insert
    <2>7. \A x \in DOMAIN rt' : /\ rt'[x] \in RTokenRow
                                /\ rt'[x].session \in sessions
                                /\ rt'[x].token \in DOMAIN at
                                /\ rt'[x].parent \in DOMAIN rt' \cup {None}
      BY <2>1, <2>4, <2>5 DEF TablesOK, Insert
    <2>8. TablesOK'
      BY <2>1, <2>2, <2>6, <2>7 DEF TablesOK
    <2>9. RequestsOK'
      BY <2>1, <2>6, FinishSteps
    <2> QED BY <2>1, <2>8, <2>9
  <1>9. CASE MarkReuse(r)
    <2>1. PICK q : q = [req[r] EXCEPT !.pc = "revokeATs"]
      OBVIOUS
    <2>2. Loaded(q)'
      BY <1>9, <2>1 DEF MarkReuse, Loaded
    <2>3. RequestsOK'
      BY <1>9, <2>1, <2>2, GotoSteps DEF MarkReuse
    <2>4. TablesOK' /\ faults' \in Nat
      BY <1>9 DEF MarkReuse, Fault, TablesOK, Loaded
    <2> QED BY <1>9, <2>3, <2>4 DEF MarkReuse
  <1>10. CASE RevokeSessionATs(r)
    <2>1. PICK q : q = [req[r] EXCEPT !.pc = "revokeRTs"]
      OBVIOUS
    <2>2. Loaded(q)'
      BY <1>10, <2>1 DEF RevokeSessionATs, Loaded
    <2>3. RequestsOK'
      BY <1>10, <2>1, <2>2, GotoSteps DEF RevokeSessionATs
    <2>4. TablesOK' /\ faults' \in Nat
      BY <1>10 DEF RevokeSessionATs, AccessTokensOf, BestEffortRevoke, Fault, TablesOK
    <2> QED BY <1>10, <2>3, <2>4 DEF RevokeSessionATs
  <1>11. CASE RevokeSessionRTs(r)
    <2>1. RequestsOK'
      BY <1>11, FinishSteps DEF RevokeSessionRTs
    <2>2. TablesOK' /\ faults' \in Nat
      BY <1>11 DEF RevokeSessionRTs, RefreshTokensOf, BestEffortRevoke, Fault, TablesOK
    <2> QED BY <1>11, <2>1, <2>2 DEF RevokeSessionRTs
  <1>12. CASE RevokePairedAT(r)
    <2>1. RequestsOK'
      BY <1>12, FinishSteps DEF RevokePairedAT
    <2>2. rt[req[r].cred].token \in AToken
      BY <1>12 DEF RevokePairedAT, TablesOK, Loaded
    <2>3. TablesOK' /\ faults' \in Nat
      BY <1>12, <2>2 DEF RevokePairedAT, BestEffortRevoke, Fault, TablesOK
    <2> QED BY <1>12, <2>1, <2>3 DEF RevokePairedAT
  <1> QED
    BY <1>1, <1>2, <1>3, <1>4, <1>5, <1>6, <1>7, <1>8, <1>9, <1>10, <1>11, <1>12, Continue(r)
    DEF Continue

(* The statements of an incident write revoked_at alone. *)
LEMMA IncidentTypeInv ==
  ASSUME TypeInv, NEW a \in Admin,
         \/ \E T \in IncidentTargets : IncidentSessions(a, T)
         \/ ContinueIncident(a)
         \/ AbortIncident(a)
  PROVE  TypeInv'
PROOF
  <1> USE DEF TypeInv, tables, TablesOK
  <1>1. ASSUME UNCHANGED <<sessions, code, at, rt, req>> PROVE RequestsOK <=> RequestsOK'
    BY <1>1 DEF RequestsOK, Loaded
  <1>2. ASSUME NEW T \in IncidentTargets, IncidentSessions(a, T) PROVE TypeInv'
    <2>1. T \in SUBSET Session
      BY DEF IncidentTargets
    <2> QED BY <1>1, <1>2, <2>1 DEF IncidentSessions
  <1>3. CASE IncidentAccessTokens(a)
    BY <1>1, <1>3 DEF IncidentAccessTokens, AccessTokensOf
  <1>4. CASE IncidentRefreshTokens(a)
    BY <1>1, <1>4 DEF IncidentRefreshTokens, RefreshTokensOf
  <1>5. CASE AbortIncident(a)
    BY <1>1, <1>5 DEF AbortIncident, Fault
  <1> QED BY <1>2, <1>3, <1>4, <1>5 DEF ContinueIncident

(* Every step keeps the types. *)
LEMMA NextTypeInv == TypeInv /\ [Next]_vars => TypeInv'
PROOF
  <1> SUFFICES ASSUME TypeInv, [Next]_vars PROVE TypeInv'
    OBVIOUS
  <1> USE DEF tables
  <1>1. ASSUME UNCHANGED <<code, at, rt, req>>, sessions \subseteq sessions'
        PROVE  RequestsOK => RequestsOK'
    BY <1>1 DEF RequestsOK, Loaded
  <1>2. ASSUME NEW r \in Request, Abort(r) PROVE TypeInv'
    <2>1. RequestsOK'
      BY <1>2, FinishSteps DEF Abort
    <2> QED BY <1>2, <2>1 DEF Abort, Fault, TypeInv, TablesOK
  <1>3. ASSUME NEW s \in Session, Login(s) PROVE TypeInv'
    BY <1>1, <1>3 DEF Login, TypeInv, TablesOK
  <1>4. ASSUME NEW t \in AToken, RevokeAccessToken(t) PROVE TypeInv'
    <2>1. (revoked' = revoked \cup {t} /\ UNCHANGED faults) \/ (UNCHANGED revoked /\ faults' = faults + 1)
      BY <1>4 DEF RevokeAccessToken, BestEffortRevoke, Fault
    <2>2. UNCHANGED <<tables, req, inc>>
      BY <1>4 DEF RevokeAccessToken
    <2> QED BY <1>1, <2>1, <2>2 DEF TypeInv, TablesOK
  <1>5. ASSUME NEW x \in MayExpire, Expire(x) PROVE TypeInv'
    BY <1>1, <1>5 DEF Expire, TypeInv, TablesOK
  <1>6. CASE Crash
    BY <1>6 DEF Crash, Fault, TypeInv, TablesOK, RequestsOK, Loaded
  <1>7. CASE UNCHANGED vars
    BY <1>1, <1>7 DEF vars, TypeInv, TablesOK
  <1> QED
    BY <1>2, <1>3, <1>4, <1>5, <1>6, <1>7, AcceptTypeInv, ContinueTypeInv, IncidentTypeInv
    DEF Next, Environment

(* Every row and every handler state stays well formed: a handler only     *)
(* uses rows it has loaded, and only inserts rows whose keys and foreign   *)
(* keys its request holds.                                                 *)
THEOREM TypeCorrect == Spec => []TypeOK
PROOF
  <1>1. Spec => []TypeInv
    BY InitTypeInv, NextTypeInv, PTL DEF Spec
  <1> QED BY <1>1, TypeInvImpliesTypeOK, PTL

-----------------------------------------------------------------------------
(* Lineage.  The strengthening says what a request has already done at     *)
(* each statement: the keys it drew are still free, or the row is there    *)
(* and is the one it inserted; its grant is spent.                         *)

Staged(q) ==
  /\ q.pc = "createCode" => q.new \notin DOMAIN code
  /\ q.pc \in {"markUsed", "rotate", "retireAT", "createAT"} => q.new \notin DOMAIN at
  /\ q.pc \in MintingPC => /\ q.newRT \notin DOMAIN rt
                           /\ \A x \in DOMAIN rt : rt[x].token # q.new
  /\ q.pc \in {"retireAT", "createAT", "createIDT", "createRT"} => Spent(q.cred)
  /\ q.pc \in {"createIDT", "createRT"} => /\ at[q.new].grant = q.cred
                                           /\ at[q.new].session = SessionOf(q.cred)
  /\ q.pc = "createRT" /\ q.cred \in Code => q.new \in idt

KeysDistinct ==
  \A r, o \in Request : r # o =>
    /\ req[r].new # None => req[r].new # req[o].new
    /\ req[r].newRT # None => req[r].newRT # req[o].newRT

Lineage == TokensComeFromSpentGrants /\ RefreshTokensArePaired /\ ChainsStayInTheirSession

GrantInv ==
  TypeInv /\ (\A r \in Request : Staged(req[r])) /\ KeysDistinct /\ Lineage

(* With no row and no request there is nothing to relate. *)
LEMMA InitGrantInv == Init => GrantInv
  BY InitTypeInv
  DEF Init, GrantInv, Staged, KeysDistinct, Lineage, TokensComeFromSpentGrants,
      RefreshTokensArePaired, ChainsStayInTheirSession

(* Rows are neither deleted nor rewritten, and marks are never taken back. *)
Grow ==
  /\ \A k \in DOMAIN code : k \in DOMAIN code' /\ code'[k] = code[k]
  /\ \A t \in DOMAIN at : t \in DOMAIN at' /\ at'[t] = at[t]
  /\ \A x \in DOMAIN rt : x \in DOMAIN rt' /\ rt'[x] = rt[x]
  /\ used \subseteq used' /\ revoked \subseteq revoked' /\ idt \subseteq idt'

(* The session of a credential is read from columns that never change. *)
LEMMA SessionOfStable ==
  ASSUME TypeInv, TypeInv', Grow, NEW g \in DOMAIN code \cup DOMAIN rt
  PROVE  SessionOf(g)' = SessionOf(g)
  BY KeysAreDisjoint DEF TypeInv, TablesOK, Grow, SessionOf

(* A request that does not act keeps its stage when the keys that become   *)
(* taken are not its own.                                                  *)
LEMMA StagedKept ==
  ASSUME TypeInv, TypeInv', Grow, NEW q \in RequestState, Loaded(q), Staged(q),
         q.new \notin DOMAIN code' \ DOMAIN code,
         q.new \notin DOMAIN at' \ DOMAIN at,
         q.newRT \notin DOMAIN rt' \ DOMAIN rt,
         \A x \in DOMAIN rt' \ DOMAIN rt : rt'[x].token # q.new
  PROVE  Staged(q)'
PROOF
  <1>1. q.pc = "createCode" => q.new \notin DOMAIN code'
    BY DEF Staged
  <1>2. q.pc \in {"markUsed", "rotate", "retireAT", "createAT"} => q.new \notin DOMAIN at'
    BY DEF Staged
  <1>3. q.pc \in MintingPC => q.newRT \notin DOMAIN rt' /\ \A x \in DOMAIN rt' : rt'[x].token # q.new
    BY DEF Staged, Grow
  <1>4. Spent(q.cred) => Spent(q.cred)'
    BY DEF Spent, Grow
  <1>5. q.pc \in {"createIDT", "createRT"} =>
          at'[q.new].grant = q.cred /\ at'[q.new].session = SessionOf(q.cred)'
    BY SessionOfStable DEF Staged, Loaded, Grow
  <1>6. q.pc = "createRT" /\ q.cred \in Code => q.new \in idt'
    BY DEF Staged, Grow
  <1> QED BY <1>1, <1>2, <1>3, <1>4, <1>5, <1>6 DEF Staged

(* A step that inserts no token keeps what relates the tokens. *)
LEMMA LineageKept ==
  ASSUME TypeInv, Lineage, Grow, UNCHANGED <<at, rt>>
  PROVE  Lineage'
  BY DEF TypeInv, TablesOK, Lineage, Grow, TokensComeFromSpentGrants, Spent,
         RefreshTokensArePaired, ChainsStayInTheirSession

(* Accepting a request: no row is inserted, the keys drawn are free.       *)
LEMMA AcceptedStep ==
  ASSUME GrantInv, TypeInv', NEW r \in Request, NEW q \in RequestState,
         UNCHANGED tables, revoked \subseteq revoked',
         req' = [req EXCEPT ![r] = q], Staged(q),
         q.pc \notin {"retireAT", "createAT", "createIDT", "createRT"},
         \A o \in Request : /\ q.new # None => q.new # req[o].new
                            /\ q.newRT # None => q.newRT # req[o].newRT
  PROVE  GrantInv'
PROOF
  <1> USE DEF tables
  <1>1. Grow
    BY DEF Grow, TypeInv
  <1>2. Lineage'
    BY <1>1, LineageKept DEF GrantInv
  <1>3. ASSUME NEW o \in Request PROVE Staged(req[o])'
    <2>1. PICK p \in RequestState : p = req'[o]
      BY DEF TypeInv, RequestsOK
    <2>2. Staged(p)'
      <3>1. CASE o = r
        BY <2>1, <3>1, q = p DEF Staged, GrantInv, TypeInv, RequestsOK
      <3>2. CASE o # r
        <4>1. p = req[o] /\ Loaded(p) /\ Staged(p)
          BY <2>1, <3>2 DEF GrantInv, TypeInv, RequestsOK
        <4> QED BY <1>1, <4>1, StagedKept DEF GrantInv
      <3> QED BY <3>1, <3>2
    <2> QED BY <2>1, <2>2
  <1>4. KeysDistinct'
    BY DEF KeysDistinct, GrantInv, TypeInv, RequestsOK
  <1> QED BY <1>2, <1>3, <1>4 DEF GrantInv

(* Accepting a request of any kind keeps the invariant. *)
LEMMA AcceptGrantInv ==
  ASSUME GrantInv, NEW r \in Request, Accept(r)
  PROVE  GrantInv'
PROOF
  <1> TypeInv' /\ TypeInv
    BY AcceptTypeInv DEF GrantInv
  <1> USE KeysAreDisjoint DEF tables
  <1>1. ASSUME NEW s \in Session, NEW c \in Client, AuthorizeCheck(r, s, c) PROVE GrantInv'
    <2>1. PICK k \in FreshKeys(Code) :
            req' = [req EXCEPT ![r] = [Idle EXCEPT !.pc = "createCode", !.client = c,
                                                   !.cred = s, !.new = k]]
      BY <1>1 DEF AuthorizeCheck
    <2> DEFINE q == [Idle EXCEPT !.pc = "createCode", !.client = c, !.cred = s, !.new = k]
    <2>2. q \in RequestState /\ Staged(q) /\ q.pc = "createCode" /\ q.newRT = None /\ q.new = k
      BY DEF FreshKeys, Exists, Staged
    <2>3. \A o \in Request : k # req[o].new
      BY DEF FreshKeys
    <2> QED BY <1>1, <2>1, <2>2, <2>3, AcceptedStep DEF AuthorizeCheck
  <1>2. ASSUME NEW c \in Client, NEW k \in Code, CodeGrantAccept(r, c, k) PROVE GrantInv'
    <2>1. PICK t \in FreshKeys(AToken),
               x \in IF c \in RefreshClient THEN FreshKeys(RToken) ELSE {None} :
            req' = [req EXCEPT ![r] = [pc |-> "markUsed", client |-> c, cred |-> k,
                                       new |-> t, newRT |-> x]]
      BY <1>2 DEF CodeGrantAccept
    <2> DEFINE q == [pc |-> "markUsed", client |-> c, cred |-> k, new |-> t, newRT |-> x]
    <2>2. q \in RequestState
      BY DEF FreshKeys
    <2>3. t \notin DOMAIN at /\ x \notin DOMAIN rt /\ \A y \in DOMAIN rt : rt[y].token # t
      BY DEF FreshKeys, Exists, TypeInv, TablesOK
    <2>4. Staged(q)
      BY <2>3 DEF Staged
    <2>5. \A o \in Request : t # req[o].new /\ (x # None => x # req[o].newRT)
      BY DEF FreshKeys
    <2> QED BY <1>2, <2>1, <2>2, <2>4, <2>5, AcceptedStep DEF CodeGrantAccept
  <1>3. ASSUME NEW k \in Code, CodeGrantReplay(r, k) PROVE GrantInv'
    <2> DEFINE q == [Idle EXCEPT !.pc = "revokeATs", !.cred = k]
    <2>1. q \in RequestState /\ Staged(q) /\ q.new = None /\ q.newRT = None /\ q.pc = "revokeATs"
      BY DEF Staged
    <2> QED BY <1>3, <2>1, AcceptedStep DEF CodeGrantReplay
  <1>4. ASSUME NEW c \in RefreshClient, NEW x \in RToken, RefreshAccept(r, c, x) PROVE GrantInv'
    <2>1. PICK t \in FreshKeys(AToken), y \in FreshKeys(RToken) :
            req' = [req EXCEPT ![r] = [pc |-> "rotate", client |-> c, cred |-> x,
                                       new |-> t, newRT |-> y]]
      BY <1>4 DEF RefreshAccept
    <2> DEFINE q == [pc |-> "rotate", client |-> c, cred |-> x, new |-> t, newRT |-> y]
    <2>2. q \in RequestState
      BY OwnersAreTyped DEF FreshKeys
    <2>3. t \notin DOMAIN at /\ y \notin DOMAIN rt /\ \A z \in DOMAIN rt : rt[z].token # t
      BY DEF FreshKeys, Exists, TypeInv, TablesOK
    <2>4. Staged(q)
      BY <2>3 DEF Staged
    <2>5. \A o \in Request : t # req[o].new /\ y # req[o].newRT
      BY DEF FreshKeys
    <2> QED BY <1>4, <2>1, <2>2, <2>4, <2>5, AcceptedStep DEF RefreshAccept
  <1>5. ASSUME NEW x \in RToken, RefreshReuse(r, x) PROVE GrantInv'
    <2> DEFINE q == [Idle EXCEPT !.pc = "markReuse", !.cred = x]
    <2>1. q \in RequestState /\ Staged(q) /\ q.new = None /\ q.newRT = None /\ q.pc = "markReuse"
      BY DEF Staged
    <2> QED BY <1>5, <2>1, AcceptedStep DEF RefreshReuse
  <1>6. ASSUME NEW x \in RToken, RevokeRefreshToken(r, x) PROVE GrantInv'
    <2> DEFINE q == [Idle EXCEPT !.pc = "revokePair", !.cred = x]
    <2>1. q \in RequestState /\ Staged(q) /\ q.new = None /\ q.newRT = None /\ q.pc = "revokePair"
      BY DEF Staged
    <2>2. revoked \subseteq revoked'
      BY <1>6 DEF RevokeRefreshToken, BestEffortRevoke
    <2> QED BY <1>6, <2>1, <2>2, AcceptedStep DEF RevokeRefreshToken
  <1> QED BY <1>1, <1>2, <1>3, <1>4, <1>5, <1>6, Accept(r) DEF Accept

(* Continuing a request: the rows it inserts have the keys it drew.        *)
LEMMA ContinuedStep ==
  ASSUME GrantInv, TypeInv', Grow, NEW r \in Request, NEW q \in RequestState,
         req' = [req EXCEPT ![r] = q], Staged(q)',
         q.new \in {req[r].new, None}, q.newRT \in {req[r].newRT, None},
         DOMAIN code' \subseteq DOMAIN code \cup {req[r].new},
         DOMAIN at' \subseteq DOMAIN at \cup {req[r].new},
         DOMAIN rt' \subseteq DOMAIN rt \cup {req[r].newRT},
         \A x \in DOMAIN rt' \ DOMAIN rt : rt'[x].token = req[r].new,
         Lineage'
  PROVE  GrantInv'
PROOF
  <1> USE KeysAreDisjoint
  <1>1. ASSUME NEW o \in Request PROVE Staged(req[o])'
    <2>1. PICK p \in RequestState : p = req'[o]
      BY DEF GrantInv, TypeInv, RequestsOK
    <2>2. Staged(p)'
      <3>1. CASE o = r
        <4>1. q = p
          BY <2>1, <3>1 DEF GrantInv, TypeInv, RequestsOK
        <4> QED BY <4>1
      <3>2. CASE o # r
        <4>1. p = req[o] /\ Loaded(p) /\ Staged(p)
          BY <2>1, <3>2 DEF GrantInv, TypeInv, RequestsOK
        <4>2. /\ req[r].new = None \/ req[r].new # p.new
              /\ req[r].newRT = None \/ req[r].newRT # p.newRT
          BY <3>2, <4>1 DEF GrantInv, KeysDistinct
        <4>3. None \notin DOMAIN code' /\ None \notin DOMAIN at' /\ None \notin DOMAIN rt'
          BY DEF TypeInv, TablesOK
        <4>4. None \notin {rt'[x].token : x \in DOMAIN rt'}
          BY DEF TypeInv, TablesOK
        <4>5. /\ p.new \notin DOMAIN code' \ DOMAIN code
              /\ p.new \notin DOMAIN at' \ DOMAIN at
              /\ p.newRT \notin DOMAIN rt' \ DOMAIN rt
          BY <4>2, <4>3
        <4>6. \A x \in DOMAIN rt' \ DOMAIN rt : rt'[x].token # p.new
          BY <4>2, <4>4
        <4> QED BY <4>1, <4>5, <4>6, StagedKept DEF GrantInv
      <3> QED BY <3>1, <3>2
    <2> QED BY <2>1, <2>2
  <1>2. KeysDistinct'
    BY DEF KeysDistinct, GrantInv, TypeInv, RequestsOK
  <1> QED BY <1>1, <1>2 DEF GrantInv

(* Moving on without an insert. *)
LEMMA QuietStep ==
  ASSUME GrantInv, TypeInv', Grow, NEW r \in Request, UNCHANGED <<code, at, rt>>,
         NEW q \in RequestState, req' = [req EXCEPT ![r] = q], Staged(q)',
         q.new \in {req[r].new, None}, q.newRT \in {req[r].newRT, None}
  PROVE  GrantInv'
PROOF
  <1>1. Lineage'
    BY LineageKept DEF GrantInv
  <1> QED BY <1>1, ContinuedStep

(* A request that ends without an insert keeps the invariant. *)
LEMMA QuietFinish ==
  ASSUME GrantInv, TypeInv', Grow, NEW r \in Request, UNCHANGED <<code, at, rt>>, Finish(r)
  PROVE  GrantInv'
PROOF
  <1>1. Idle \in RequestState /\ Staged(Idle)' /\ Idle.new = None /\ Idle.newRT = None
    BY DEF Staged
  <1>2. req' = [req EXCEPT ![r] = Idle]
    BY DEF Finish
  <1> QED BY <1>1, <1>2, QuietStep

(* A request that moves on without an insert keeps the invariant. *)
LEMMA QuietGoto ==
  ASSUME GrantInv, TypeInv', Grow, NEW r \in Request, UNCHANGED <<code, at, rt>>,
         NEW p \in PC, Goto(r, p), NEW q, q = [req[r] EXCEPT !.pc = p], Staged(q)'
  PROVE  GrantInv'
PROOF
  <1>0. req[r] \in RequestState
    BY DEF GrantInv, TypeInv, RequestsOK
  <1>1. q \in RequestState /\ q.new = req[r].new /\ q.newRT = req[r].newRT
    BY <1>0
  <1>2. req' = [req EXCEPT ![r] = q]
    BY DEF Goto
  <1> QED BY <1>1, <1>2, QuietStep

(* The statements that insert no token keep the invariant. *)
LEMMA QuietContinueGrantInv ==
  ASSUME GrantInv, TypeInv', NEW r \in Request,
         \/ MarkAsUsed(r) \/ CreateIDToken(r) \/ Rotate(r) \/ RetireAT(r) \/ MarkReuse(r)
         \/ RevokeSessionATs(r) \/ RevokeSessionRTs(r) \/ RevokePairedAT(r)
  PROVE  GrantInv'
PROOF
  <1> USE KeysAreDisjoint DEF tables
  <1> req[r] \in RequestState /\ Loaded(req[r]) /\ Staged(req[r])
    BY DEF GrantInv, TypeInv, RequestsOK
  <1>1. CASE MarkAsUsed(r)
    <2>1. Grow
      BY <1>1 DEF MarkAsUsed, Grow
    <2>2. PICK q : q = [req[r] EXCEPT !.pc = "createAT"]
      OBVIOUS
    <2>3. Staged(q)'
      BY <1>1, <2>2 DEF MarkAsUsed, Staged, Spent
    <2> QED BY <1>1, <2>1, <2>2, <2>3, QuietGoto DEF MarkAsUsed
  <1>2. CASE CreateIDToken(r)
    <2>1. Grow
      BY <1>2 DEF CreateIDToken, Grow
    <2>2. CASE req[r].client \in RefreshClient
      <3>1. PICK q : q = [req[r] EXCEPT !.pc = "createRT"]
        OBVIOUS
      <3>2. SessionOf(q.cred)' = SessionOf(q.cred)
        BY <1>2 DEF CreateIDToken, SessionOf
      <3>3. q.new = req[r].new /\ q.newRT = req[r].newRT /\ q.cred = req[r].cred /\ q.pc = "createRT"
        BY <3>1
      <3>4. Staged(q)'
        BY <1>2, <3>2, <3>3 DEF CreateIDToken, Staged, Spent, SessionOf
      <3> QED BY <1>2, <2>1, <2>2, <3>1, <3>4, QuietGoto DEF CreateIDToken
    <2>3. CASE req[r].client \notin RefreshClient
      BY <1>2, <2>1, <2>3, QuietFinish DEF CreateIDToken
    <2> QED BY <2>2, <2>3
  <1>3. CASE Rotate(r)
    <2>1. Grow
      BY <1>3 DEF Rotate, Grow
    <2>2. PICK q : q = [req[r] EXCEPT !.pc = "retireAT"]
      OBVIOUS
    <2>3. Staged(q)'
      BY <1>3, <2>2 DEF Rotate, Staged, Spent
    <2> QED BY <1>3, <2>1, <2>2, <2>3, QuietGoto DEF Rotate
  <1>4. CASE RetireAT(r)
    <2>1. Grow
      BY <1>4 DEF RetireAT, BestEffortRevoke, Grow
    <2>2. PICK q : q = [req[r] EXCEPT !.pc = "createAT"]
      OBVIOUS
    <2>3. Staged(q)'
      BY <1>4, <2>2 DEF RetireAT, BestEffortRevoke, Staged, Spent
    <2> QED BY <1>4, <2>1, <2>2, <2>3, QuietGoto DEF RetireAT
  <1>5. CASE MarkReuse(r)
    <2>1. Grow
      BY <1>5 DEF MarkReuse, Grow
    <2>2. PICK q : q = [req[r] EXCEPT !.pc = "revokeATs"]
      OBVIOUS
    <2>3. Staged(q)'
      BY <2>2 DEF Staged
    <2> QED BY <1>5, <2>1, <2>2, <2>3, QuietGoto DEF MarkReuse
  <1>6. CASE RevokeSessionATs(r)
    <2>1. Grow
      BY <1>6 DEF RevokeSessionATs, BestEffortRevoke, Grow
    <2>2. PICK q : q = [req[r] EXCEPT !.pc = "revokeRTs"]
      OBVIOUS
    <2>3. Staged(q)'
      BY <2>2 DEF Staged
    <2> QED BY <1>6, <2>1, <2>2, <2>3, QuietGoto DEF RevokeSessionATs
  <1>7. CASE RevokeSessionRTs(r)
    <2>1. Grow
      BY <1>7 DEF RevokeSessionRTs, BestEffortRevoke, Grow
    <2> QED BY <1>7, <2>1, QuietFinish DEF RevokeSessionRTs
  <1>8. CASE RevokePairedAT(r)
    <2>1. Grow
      BY <1>8 DEF RevokePairedAT, BestEffortRevoke, Grow
    <2> QED BY <1>8, <2>1, QuietFinish DEF RevokePairedAT
  <1> QED BY <1>1, <1>2, <1>3, <1>4, <1>5, <1>6, <1>7, <1>8

(* The inserts of the code, the tokens and the ID token keep the invariant. *)
LEMMA InsertContinueGrantInv ==
  ASSUME GrantInv, TypeInv', NEW r \in Request,
         \/ CreateCode(r) \/ CodeGrantCreateAT(r) \/ RefreshCreateAT(r) \/ CreateRT(r)
  PROVE  GrantInv'
PROOF
  <1> USE KeysAreDisjoint DEF tables
  <1> req[r] \in RequestState /\ Loaded(req[r]) /\ Staged(req[r]) /\ TypeInv
    BY DEF GrantInv, TypeInv, RequestsOK
  <1>1. CASE CreateCode(r)
    <2>1. req[r].pc = "createCode" /\ Finish(r) /\ UNCHANGED <<at, rt, idt, revoked, used>>
      BY <1>1 DEF CreateCode
    <2>2. PICK row : code' = Insert(code, req[r].new, row)
      BY <1>1 DEF CreateCode
    <2>3. req[r].new \notin DOMAIN code
      BY <2>1 DEF Staged
    <2>4. Grow /\ DOMAIN code' \subseteq DOMAIN code \cup {req[r].new}
      BY <2>1, <2>2, <2>3 DEF Grow, Insert
    <2>5. Lineage'
      BY <2>1, <2>4, LineageKept DEF GrantInv
    <2>6. Idle \in RequestState /\ Staged(Idle)' /\ Idle.new = None /\ Idle.newRT = None
      BY DEF Staged
    <2>7. req' = [req EXCEPT ![r] = Idle]
      BY <2>1 DEF Finish
    <2> QED BY <2>1, <2>4, <2>5, <2>6, <2>7, ContinuedStep
  <1>2. ASSUME NEW g \in DOMAIN code \cup DOMAIN rt, g = req[r].cred,
               NEW row \in ATokenRow, at' = Insert(at, req[r].new, row),
               row.grant = g, row.session = SessionOf(g), row.origin \in DOMAIN code,
               row.session = code[row.origin].session,
               req[r].pc = "createAT", NEW p \in {"createIDT", "createRT"}, Goto(r, p),
               p = "createRT" => g \notin Code,
               UNCHANGED <<code, rt, idt, revoked, used>>
        PROVE  GrantInv'
    <2>1. req[r].new \notin DOMAIN at /\ req[r].new \in AToken
      BY <1>2 DEF Staged, Loaded
    <2>2. Grow
      BY <1>2, <2>1 DEF Grow, Insert
    <2>3. DOMAIN at' = DOMAIN at \cup {req[r].new} /\ at'[req[r].new] = row
      BY <1>2 DEF Insert
    <2>4. Spent(g)'
      BY <1>2 DEF Staged, Spent
    <2>5. PICK q : q = [req[r] EXCEPT !.pc = p]
      OBVIOUS
    <2>6. /\ q \in RequestState /\ q.new = req[r].new /\ q.newRT = req[r].newRT
          /\ q.cred = g /\ q.pc = p /\ req' = [req EXCEPT ![r] = q]
      BY <1>2, <2>5 DEF Goto
    <2>7. SessionOf(g)' = SessionOf(g)
      BY <2>2, SessionOfStable
    <2>8. q.newRT \notin DOMAIN rt' /\ \A x \in DOMAIN rt' : rt'[x].token # q.new
      BY <1>2, <2>6 DEF Staged
    <2>9. Staged(q)'
      BY ZenonT(30), <1>2, <2>3, <2>4, <2>6, <2>7, <2>8 DEF Staged
    <2>10. TokensComeFromSpentGrants'
      BY <1>2, <2>2, <2>3, <2>4 DEF TokensComeFromSpentGrants, GrantInv, Lineage, Grow, Spent
    <2>11. RefreshTokensArePaired'
      BY <1>2, <2>2 DEF RefreshTokensArePaired, GrantInv, Lineage, Grow, TypeInv, TablesOK
    <2>12. ChainsStayInTheirSession'
      BY <1>2, <2>2, <2>3 DEF ChainsStayInTheirSession, GrantInv, Lineage, Grow
    <2> QED BY <1>2, <2>2, <2>3, <2>6, <2>9, <2>10, <2>11, <2>12, ContinuedStep DEF Lineage
  <1>3. CASE CodeGrantCreateAT(r)
    <2> DEFINE k == req[r].cred
               row == [session |-> code[k].session, client |-> req[r].client,
                       scope |-> code[k].scope, grant |-> k, origin |-> k]
    <2>1. /\ req[r].pc = "createAT" /\ k \in DOMAIN code /\ at' = Insert(at, req[r].new, row)
          /\ Goto(r, "createIDT") /\ UNCHANGED <<code, rt, idt, revoked, used>>
      BY <1>3 DEF CodeGrantCreateAT, Loaded, TypeInv, TablesOK
    <2>2. row \in ATokenRow /\ SessionOf(k) = code[k].session
      BY SMTT(30), <2>1 DEF TypeInv, TablesOK, Loaded, SessionOf
    <2> QED BY <1>2, <2>1, <2>2
  <1>4. CASE RefreshCreateAT(r)
    <2> DEFINE x == req[r].cred
    <2>a. /\ req[r].pc = "createAT" /\ x \in RToken
          /\ Goto(r, "createRT") /\ UNCHANGED <<code, rt, idt, revoked, used>>
      BY ZenonT(30), <1>4 DEF RefreshCreateAT
    <2>b. DOMAIN code \subseteq Code
      BY DEF TypeInv, TablesOK
    <2>c. x \in DOMAIN rt
      BY <2>a, <2>b DEF Loaded
    <2>1. /\ req[r].pc = "createAT" /\ x \in RToken /\ x \in DOMAIN rt
          /\ Goto(r, "createRT") /\ UNCHANGED <<code, rt, idt, revoked, used>>
      BY <2>a, <2>c
    <2>2. PICK sc \in {at[rt[x].token].scope} \cup Scopes :
            at' = Insert(at, req[r].new,
                         [session |-> SessionOf(x), client |-> req[r].client,
                          scope |-> sc, grant |-> x, origin |-> OriginOf(x)])
      BY ZenonT(30), <1>4 DEF RefreshCreateAT
    <2> DEFINE t == rt[x].token
               row == [session |-> SessionOf(x), client |-> req[r].client,
                       scope |-> sc, grant |-> x, origin |-> OriginOf(x)]
    <2>3. x \notin DOMAIN code /\ x \notin Code
      BY <2>1 DEF TypeInv, TablesOK
    <2>4. SessionOf(x) = rt[x].session /\ OriginOf(x) = at[t].origin
      BY <2>3 DEF SessionOf, OriginOf
    <2>5. t \in DOMAIN at /\ at[t] \in ATokenRow /\ rt[x] \in RTokenRow
      BY <2>1 DEF TypeInv, TablesOK
    <2>6. rt[x].session = at[t].session /\ at[t].origin \in DOMAIN code
          /\ at[t].session = code[at[t].origin].session
      BY <2>1, <2>5 DEF GrantInv, Lineage, RefreshTokensArePaired, ChainsStayInTheirSession
    <2>7. row \in ATokenRow
      BY <2>1, <2>4, <2>5 DEF Loaded
    <2>8. /\ row.grant = x /\ row.session = SessionOf(x) /\ row.origin \in DOMAIN code
          /\ row.session = code[row.origin].session
      BY <2>4, <2>6
    <2>9. at' = Insert(at, req[r].new, row) /\ x \in DOMAIN code \cup DOMAIN rt
      BY <2>1, <2>2
    <2> HIDE DEF row
    <2> QED BY ZenonT(30), <1>2, <2>1, <2>3, <2>7, <2>8, <2>9
  <1>5. CASE CreateRT(r)
    <2> DEFINE g == req[r].cred  t == req[r].new  x == req[r].newRT  row == NewRTokenRow(g, t)
    <2>1. /\ req[r].pc = "createRT" /\ rt' = Insert(rt, x, row) /\ Finish(r)
          /\ UNCHANGED <<code, at, idt, revoked, used>>
      BY <1>5 DEF CreateRT
    <2>2. /\ g \in DOMAIN code \cup DOMAIN rt /\ t \in DOMAIN at
          /\ x \notin DOMAIN rt /\ \A y \in DOMAIN rt : rt[y].token # t
          /\ at[t].grant = g /\ at[t].session = SessionOf(g)
          /\ g \in Code => t \in idt
      BY <2>1 DEF Loaded, Staged
    <2>3. /\ row.session = SessionOf(g) /\ row.token = t
          /\ row.parent = IF g \in Code THEN None ELSE g
      BY DEF NewRTokenRow, ParentOf
    <2>4. DOMAIN rt' = DOMAIN rt \cup {x} /\ rt'[x] = row /\ \A y \in DOMAIN rt : rt'[y] = rt[y]
      BY <2>1, <2>2 DEF Insert
    <2> HIDE DEF row
    <2>5. Grow
      BY <2>1, <2>4 DEF Grow
    <2>6. RefreshTokensArePaired'
      <3>1. RefreshTokensArePaired
        BY DEF GrantInv, Lineage
      <3>2. g # None
        BY SMTT(30), <2>2 DEF TypeInv, TablesOK
      <3>3. ASSUME NEW y \in DOMAIN rt'
            PROVE  /\ rt'[y].token \in DOMAIN at'
                   /\ rt'[y].session = at'[rt'[y].token].session
                   /\ IF rt'[y].parent = None
                      THEN at'[rt'[y].token].grant \in Code /\ rt'[y].token \in idt'
                      ELSE at'[rt'[y].token].grant = rt'[y].parent
                   /\ \A z \in DOMAIN rt' : rt'[z].token = rt'[y].token => z = y
        <4>1. CASE y = x
          BY SMTT(30), <2>1, <2>2, <2>3, <2>4, <3>2, <4>1
        <4>2. CASE y # x
          BY <2>1, <2>2, <2>3, <2>4, <3>1, <4>2 DEF RefreshTokensArePaired
        <4> QED BY <4>1, <4>2
      <3> QED BY <3>3 DEF RefreshTokensArePaired
    <2>7. TokensComeFromSpentGrants' /\ ChainsStayInTheirSession'
      BY <2>1 DEF TokensComeFromSpentGrants, Spent, ChainsStayInTheirSession, GrantInv, Lineage
    <2>8. Idle \in RequestState /\ Staged(Idle)' /\ Idle.new = None /\ Idle.newRT = None
      BY DEF Staged
    <2>9. req' = [req EXCEPT ![r] = Idle]
      BY <2>1 DEF Finish
    <2>10. \A y \in DOMAIN rt' \ DOMAIN rt : rt'[y].token = t
      BY <2>3, <2>4
    <2> QED BY <2>1, <2>4, <2>5, <2>6, <2>7, <2>8, <2>9, <2>10, ContinuedStep DEF Lineage
  <1> QED BY <1>1, <1>3, <1>4, <1>5

(* Steps that take no handler further: time, logins, failures, incidents.  *)
LEMMA OtherStepsGrantInv ==
  ASSUME GrantInv, TypeInv', UNCHANGED <<at, rt, code>>, Grow,
         \/ UNCHANGED req
         \/ \E r \in Request : Finish(r)
         \/ req' = [r \in Request |-> Idle]
  PROVE  GrantInv'
PROOF
  <1>1. CASE UNCHANGED req
    <2>1. \A r \in Request : Staged(req[r])'
      BY <1>1 DEF GrantInv, Staged, Spent, Grow, SessionOf
    <2>2. KeysDistinct'
      BY <1>1 DEF GrantInv, KeysDistinct
    <2> QED BY <2>1, <2>2, LineageKept DEF GrantInv
  <1>2. ASSUME NEW r \in Request, Finish(r) PROVE GrantInv'
    BY <1>2, QuietFinish
  <1>3. CASE req' = [r \in Request |-> Idle]
    <2>1. \A r \in Request : Staged(req[r])'
      BY <1>3 DEF Staged
    <2>2. KeysDistinct'
      BY <1>3 DEF KeysDistinct
    <2> QED BY <2>1, <2>2, LineageKept DEF GrantInv
  <1> QED BY <1>1, <1>2, <1>3

(* Every step keeps the invariant. *)
LEMMA NextGrantInv == GrantInv /\ [Next]_vars => GrantInv'
PROOF
  <1> SUFFICES ASSUME GrantInv, [Next]_vars PROVE GrantInv'
    OBVIOUS
  <1> TypeInv'
    BY NextTypeInv DEF GrantInv
  <1> USE DEF tables
  <1>1. ASSUME NEW r \in Request, Continue(r) PROVE GrantInv'
    BY <1>1, QuietContinueGrantInv, InsertContinueGrantInv DEF Continue
  <1>2. ASSUME NEW r \in Request, Abort(r) PROVE GrantInv'
    BY <1>2, OtherStepsGrantInv DEF Abort, Grow
  <1>3. ASSUME NEW a \in Admin, NEW T \in IncidentTargets, IncidentSessions(a, T) PROVE GrantInv'
    BY <1>3, OtherStepsGrantInv DEF IncidentSessions, Grow
  <1>4. ASSUME NEW a \in Admin, ContinueIncident(a) \/ AbortIncident(a) PROVE GrantInv'
    BY <1>4, OtherStepsGrantInv
    DEF ContinueIncident, IncidentAccessTokens, IncidentRefreshTokens, AbortIncident, Grow
  <1>5. CASE Environment
    <2>1. ASSUME NEW s \in Session, Login(s) PROVE GrantInv'
      BY <2>1, OtherStepsGrantInv DEF Login, Grow
    <2>2. ASSUME NEW t \in AToken, RevokeAccessToken(t) PROVE GrantInv'
      <3>1. revoked \subseteq revoked' /\ UNCHANGED <<tables, req>>
        BY <2>2 DEF RevokeAccessToken, BestEffortRevoke
      <3> QED BY <3>1, OtherStepsGrantInv DEF Grow
    <2>3. ASSUME NEW x \in MayExpire, Expire(x) PROVE GrantInv'
      BY <2>3, OtherStepsGrantInv DEF Expire, Grow
    <2>4. CASE Crash
      BY <2>4, OtherStepsGrantInv DEF Crash, Grow
    <2> QED BY <1>5, <2>1, <2>2, <2>3, <2>4 DEF Environment
  <1>6. CASE UNCHANGED vars
    BY <1>6, OtherStepsGrantInv DEF vars, Grow
  <1> QED BY <1>1, <1>2, <1>3, <1>4, <1>5, <1>6, AcceptGrantInv DEF Next

(* The invariant holds in every reachable state. *)
LEMMA GrantInvHolds == Spec => []GrantInv
  BY InitGrantInv, NextGrantInv, PTL DEF Spec

(* No access token without a spent code or refresh token behind it, for    *)
(* any number of concurrent requests, failures and restarts.               *)
THEOREM TokensArePaidFor == Spec => []TokensComeFromSpentGrants
PROOF
  <1>1. GrantInv => TokensComeFromSpentGrants
    BY DEF GrantInv, Lineage
  <1> QED BY <1>1, GrantInvHolds, PTL

(* Refresh and access tokens stay paired one to one, and a parent_id names *)
(* exactly the token the issuing request rotated.                          *)
THEOREM PairingHolds == Spec => []RefreshTokensArePaired
PROOF
  <1>1. GrantInv => RefreshTokensArePaired
    BY DEF GrantInv, Lineage
  <1> QED BY <1>1, GrantInvHolds, PTL

(* However long a chain of rotations grows, it stays in the session of the *)
(* code it began with.                                                     *)
THEOREM ChainsKeepTheirSession == Spec => []ChainsStayInTheirSession
PROOF
  <1>1. GrantInv => ChainsStayInTheirSession
    BY DEF GrantInv, Lineage
  <1> QED BY <1>1, GrantInvHolds, PTL

-----------------------------------------------------------------------------
(* What a step may do to the access tokens. *)

(* The access tokens after a step: those there were, unless a request at   *)
(* createAT has added one for the grant it loaded.                         *)
LEMMA NewAccessTokens ==
  ASSUME GrantInv, [Next]_vars
  PROVE  \/ UNCHANGED at
         \/ \E r \in Request :
              /\ req[r].pc = "createAT" /\ req[r].new \notin DOMAIN at
              /\ DOMAIN at' = DOMAIN at \cup {req[r].new}
              /\ \A t \in DOMAIN at : at'[t] = at[t]
              /\ at'[req[r].new].grant = req[r].cred
              /\ at'[req[r].new].session = SessionOf(req[r].cred)
              /\ \E p \in {"createIDT", "createRT"} : Goto(r, p)
PROOF
  <1> USE DEF tables
  <1>1. ASSUME NEW r \in Request, Accept(r) PROVE UNCHANGED at
    BY <1>1 DEF Accept, AuthorizeCheck, CodeGrantAccept, CodeGrantReplay, RefreshAccept,
                RefreshReuse, RevokeRefreshToken
  <1>2. ASSUME NEW r \in Request,
               \/ CreateCode(r) \/ MarkAsUsed(r) \/ CreateIDToken(r) \/ Rotate(r)
               \/ RetireAT(r) \/ CreateRT(r) \/ MarkReuse(r) \/ RevokeSessionATs(r)
               \/ RevokeSessionRTs(r) \/ RevokePairedAT(r) \/ Abort(r)
        PROVE  UNCHANGED at
    BY <1>2 DEF CreateCode, MarkAsUsed, CreateIDToken, Rotate, RetireAT, CreateRT, MarkReuse,
                RevokeSessionATs, RevokeSessionRTs, RevokePairedAT, Abort
  <1>3. ASSUME NEW r \in Request, req[r].pc = "createAT", NEW row,
               at' = Insert(at, req[r].new, row), row.grant = req[r].cred,
               row.session = SessionOf(req[r].cred),
               NEW p \in {"createIDT", "createRT"}, Goto(r, p)
        PROVE  \E o \in Request :
                 /\ req[o].pc = "createAT" /\ req[o].new \notin DOMAIN at
                 /\ DOMAIN at' = DOMAIN at \cup {req[o].new}
                 /\ \A t \in DOMAIN at : at'[t] = at[t]
                 /\ at'[req[o].new].grant = req[o].cred
                 /\ at'[req[o].new].session = SessionOf(req[o].cred)
                 /\ \E p1 \in {"createIDT", "createRT"} : Goto(o, p1)
    <2>1. req[r].new \notin DOMAIN at
      BY <1>3 DEF GrantInv, Staged
    <2> QED BY <1>3, <2>1 DEF Insert
  <1>4. ASSUME NEW r \in Request, CodeGrantCreateAT(r)
        PROVE  \E p \in {"createIDT", "createRT"} : \E row :
                 /\ req[r].pc = "createAT" /\ at' = Insert(at, req[r].new, row)
                 /\ row.grant = req[r].cred /\ row.session = SessionOf(req[r].cred)
                 /\ Goto(r, p)
    <2> DEFINE k == req[r].cred
               row == [session |-> code[k].session, client |-> req[r].client,
                       scope |-> code[k].scope, grant |-> k, origin |-> k]
    <2>1. k \in DOMAIN code
      BY <1>4, KeysAreDisjoint DEF CodeGrantCreateAT, GrantInv, TypeInv, TablesOK, RequestsOK, Loaded
    <2>2. row.grant = k /\ row.session = SessionOf(k)
      BY <2>1 DEF SessionOf
    <2>3. req[r].pc = "createAT" /\ at' = Insert(at, req[r].new, row) /\ Goto(r, "createIDT")
      BY <1>4 DEF CodeGrantCreateAT
    <2> HIDE DEF row
    <2> QED BY <2>2, <2>3
  <1>5. ASSUME NEW r \in Request, RefreshCreateAT(r)
        PROVE  \E p \in {"createIDT", "createRT"} : \E row :
                 /\ req[r].pc = "createAT" /\ at' = Insert(at, req[r].new, row)
                 /\ row.grant = req[r].cred /\ row.session = SessionOf(req[r].cred)
                 /\ Goto(r, p)
    BY <1>5 DEF RefreshCreateAT
  <1>6. ASSUME NEW a \in Admin,
               \/ \E T \in IncidentTargets : IncidentSessions(a, T)
               \/ ContinueIncident(a) \/ AbortIncident(a)
        PROVE  UNCHANGED at
    BY <1>6 DEF IncidentSessions, ContinueIncident, IncidentAccessTokens,
                IncidentRefreshTokens, AbortIncident
  <1>7. Environment \/ UNCHANGED vars => UNCHANGED at
    BY DEF Environment, Login, RevokeAccessToken, Expire, Crash, vars
  <1> QED BY <1>1, <1>2, <1>3, <1>4, <1>5, <1>6, <1>7 DEF Next, Continue

(* A request goes on redeeming the credential it was redeeming. *)
Continued(r) ==
  /\ Minting(r) /\ req'[r].cred = req[r].cred
  /\ req'[r].pc \in BeforeInsert => req[r].pc \in BeforeInsert

(* A request that was just given a first statement stands at it. *)
LEMMA IdleWith ==
  ASSUME NEW p, NEW c
  PROVE  [Idle EXCEPT !.pc = p, !.cred = c].pc = p
  BY DEF Idle

(* A request comes to redeem a credential by accepting it unspent. *)
LEMMA RedemptionsBeginUnspent ==
  ASSUME GrantInv, [Next]_vars, NEW r \in Request, Minting(r)'
  PROVE  Continued(r) \/ ~Spent(req'[r].cred)
PROOF
  <1> USE DEF BeforeInsert, Minting, Continued
  <1>0. req \in [Request -> RequestState]
    BY DEF GrantInv, TypeInv, RequestsOK
  <1>1. ASSUME NEW o \in Request, NEW s \in Session, NEW c \in Client, AuthorizeCheck(o, s, c)
        PROVE  Continued(r)
    BY <1>0, <1>1 DEF AuthorizeCheck
  <1>2. ASSUME NEW o \in Request, NEW c \in Client, NEW k \in Code, CodeGrantAccept(o, c, k)
        PROVE  Continued(r) \/ ~Spent(req'[r].cred)
    <2>1. k \notin used /\ k \notin revoked
      BY <1>2, KeysAreDisjoint DEF CodeGrantAccept, CodeAcceptable, GrantInv, TypeInv, TablesOK
    <2>2. PICK q : q.cred = k /\ req' = [req EXCEPT ![o] = q]
      BY <1>2 DEF CodeGrantAccept
    <2>3. CASE o = r
      BY <1>0, <2>1, <2>2, <2>3 DEF Spent
    <2>4. CASE o # r
      BY <1>0, <2>2, <2>4
    <2> QED BY <2>3, <2>4
  <1>3. ASSUME NEW o \in Request, NEW c \in RefreshClient, NEW x \in RToken, RefreshAccept(o, c, x)
        PROVE  Continued(r) \/ ~Spent(req'[r].cred)
    <2>1. x \notin used /\ x \notin revoked
      BY <1>3, KeysAreDisjoint DEF RefreshAccept, RefreshAcceptable, GrantInv, TypeInv, TablesOK
    <2>2. PICK q : q.cred = x /\ req' = [req EXCEPT ![o] = q]
      BY <1>3 DEF RefreshAccept
    <2>3. CASE o = r
      BY <1>0, <2>1, <2>2, <2>3 DEF Spent
    <2>4. CASE o # r
      BY <1>0, <2>2, <2>4
    <2> QED BY <2>3, <2>4
  <1>4. ASSUME NEW o \in Request,
               \/ \E k \in Code : CodeGrantReplay(o, k)
               \/ \E x \in RToken : RefreshReuse(o, x) \/ RevokeRefreshToken(o, x)
        PROVE  Continued(r)
    <2>1. PICK q : q.pc \notin MintingPC /\ req' = [req EXCEPT ![o] = q]
      <3>1. ASSUME NEW k \in Code, CodeGrantReplay(o, k)
            PROVE  \E q : q.pc \notin MintingPC /\ req' = [req EXCEPT ![o] = q]
        BY <3>1, IdleWith DEF CodeGrantReplay
      <3>2. ASSUME NEW x \in RToken, RefreshReuse(o, x) \/ RevokeRefreshToken(o, x)
            PROVE  \E q : q.pc \notin MintingPC /\ req' = [req EXCEPT ![o] = q]
        BY <3>2, IdleWith DEF RefreshReuse, RevokeRefreshToken
      <3> QED BY <1>4, <3>1, <3>2
    <2>2. o # r /\ req'[r] = req[r]
      BY <1>0, <1>4, <2>1
    <2> QED BY <2>2
  <1>5. ASSUME NEW o \in Request, Continue(o) \/ Abort(o)
        PROVE  Continued(r)
    <2>1. CASE MarkAsUsed(o) \/ Rotate(o) \/ RetireAT(o)
      BY <1>0, <2>1 DEF MarkAsUsed, Rotate, RetireAT, Goto
    <2>2. CASE CodeGrantCreateAT(o) \/ RefreshCreateAT(o)
      <3>1. req[o].pc = "createAT" /\ (Goto(o, "createIDT") \/ Goto(o, "createRT"))
        BY <2>2 DEF CodeGrantCreateAT, RefreshCreateAT
      <3> QED BY <1>0, <3>1 DEF Goto
    <2>3. CASE CreateIDToken(o) \/ MarkReuse(o) \/ RevokeSessionATs(o)
      <3>1. \/ Finish(o)
            \/ req[o].pc = "createIDT" /\ Goto(o, "createRT")
            \/ \E p \in {"revokeATs", "revokeRTs"} : Goto(o, p)
        BY <2>3 DEF CreateIDToken, MarkReuse, RevokeSessionATs
      <3> QED BY <1>0, <3>1 DEF Goto, Finish
    <2>4. CASE CreateCode(o) \/ CreateRT(o) \/ RevokeSessionRTs(o) \/ RevokePairedAT(o) \/ Abort(o)
      <3>1. Finish(o)
        BY <2>4 DEF CreateCode, CreateRT, RevokeSessionRTs, RevokePairedAT, Abort
      <3> QED BY <1>0, <3>1 DEF Finish
    <2> QED BY <1>5, <2>1, <2>2, <2>3, <2>4 DEF Continue
  <1>6. ASSUME NEW a \in Admin,
               \/ \E T \in IncidentTargets : IncidentSessions(a, T)
               \/ ContinueIncident(a) \/ AbortIncident(a)
        PROVE  UNCHANGED req
    BY <1>6 DEF IncidentSessions, ContinueIncident, IncidentAccessTokens,
                IncidentRefreshTokens, AbortIncident
  <1>7. CASE Environment \/ UNCHANGED vars
    <2>1. CASE Crash
      BY <1>0, <2>1 DEF Crash
    <2>2. ~Crash => UNCHANGED req
      BY <1>7 DEF Environment, Login, RevokeAccessToken, Expire, vars
    <2> QED BY <2>1, <2>2
  <1> QED BY <1>1, <1>2, <1>3, <1>4, <1>5, <1>6, <1>7 DEF Next, Accept

(* No step takes back a mark that spends a credential. *)
LEMMA MarksStay ==
  ASSUME [Next]_vars
  PROVE  used \subseteq used' /\ revoked \subseteq revoked'
PROOF
  <1> USE DEF tables
  <1>1. ASSUME NEW rows, BestEffortRevoke(rows)
        PROVE  revoked \subseteq revoked'
    BY <1>1 DEF BestEffortRevoke
  <1>2. ASSUME NEW r \in Request, Accept(r)
        PROVE  used \subseteq used' /\ revoked \subseteq revoked'
    <2>1. used' = used
      BY <1>2 DEF Accept, AuthorizeCheck, CodeGrantAccept, CodeGrantReplay, RefreshAccept,
                  RefreshReuse, RevokeRefreshToken
    <2>2. revoked' = revoked \/ \E rows : BestEffortRevoke(rows)
      BY <1>2 DEF Accept, AuthorizeCheck, CodeGrantAccept, CodeGrantReplay, RefreshAccept,
                  RefreshReuse, RevokeRefreshToken
    <2> QED BY <1>1, <2>1, <2>2
  <1>3. ASSUME NEW r \in Request,
               \/ Rotate(r) \/ RetireAT(r) \/ RevokeSessionATs(r) \/ RevokeSessionRTs(r)
               \/ RevokePairedAT(r)
        PROVE  used \subseteq used' /\ revoked \subseteq revoked'
    <2>1. used' = used
      BY <1>3 DEF Rotate, RetireAT, RevokeSessionATs, RevokeSessionRTs, RevokePairedAT
    <2>2. \/ revoked' = revoked \cup {req[r].cred}
          \/ \E rows : BestEffortRevoke(rows)
      BY <1>3 DEF Rotate, RetireAT, RevokeSessionATs, RevokeSessionRTs, RevokePairedAT
    <2> QED BY <1>1, <2>1, <2>2
  <1>4. ASSUME NEW r \in Request,
               \/ CreateCode(r) \/ CodeGrantCreateAT(r) \/ CreateIDToken(r) \/ RefreshCreateAT(r)
               \/ CreateRT(r) \/ MarkReuse(r) \/ Abort(r)
        PROVE  used' = used /\ revoked' = revoked
    <2>1. CASE CreateCode(r) \/ CreateIDToken(r) \/ CreateRT(r) \/ MarkReuse(r) \/ Abort(r)
      BY <2>1 DEF CreateCode, CreateIDToken, CreateRT, MarkReuse, Abort
    <2>2. CASE CodeGrantCreateAT(r)
      BY <2>2 DEF CodeGrantCreateAT
    <2>3. CASE RefreshCreateAT(r)
      BY <2>3 DEF RefreshCreateAT
    <2> QED BY <1>4, <2>1, <2>2, <2>3
  <1>5. ASSUME NEW r \in Request, MarkAsUsed(r)
        PROVE  used \subseteq used' /\ revoked \subseteq revoked'
    BY <1>5 DEF MarkAsUsed
  <1>6. ASSUME NEW a \in Admin,
               \/ \E T \in IncidentTargets : IncidentSessions(a, T)
               \/ ContinueIncident(a) \/ AbortIncident(a)
        PROVE  used \subseteq used' /\ revoked \subseteq revoked'
    BY <1>6 DEF IncidentSessions, ContinueIncident, IncidentAccessTokens,
                IncidentRefreshTokens, AbortIncident
  <1>7. Environment \/ UNCHANGED vars => used \subseteq used' /\ revoked \subseteq revoked'
    <2>1. ASSUME NEW t \in AToken, RevokeAccessToken(t)
          PROVE  used \subseteq used' /\ revoked \subseteq revoked'
      BY <1>1, <2>1 DEF RevokeAccessToken
    <2> QED BY <2>1 DEF Environment, Login, Expire, Crash, vars
  <1> QED BY <1>2, <1>3, <1>4, <1>5, <1>6, <1>7 DEF Next, Continue

(* Nor does the clock run backwards. *)
LEMMA ExpiryStays ==
  ASSUME [Next]_vars
  PROVE  expired \subseteq expired'
PROOF
  <1> USE DEF tables
  <1>1. ASSUME NEW r \in Request, Accept(r)
        PROVE  expired' = expired
    BY <1>1 DEF Accept, AuthorizeCheck, CodeGrantAccept, CodeGrantReplay, RefreshAccept,
                RefreshReuse, RevokeRefreshToken
  <1>2. ASSUME NEW r \in Request,
               \/ CreateCode(r) \/ MarkAsUsed(r) \/ CreateIDToken(r) \/ Rotate(r) \/ RetireAT(r)
               \/ CreateRT(r) \/ MarkReuse(r) \/ RevokeSessionATs(r) \/ RevokeSessionRTs(r)
               \/ RevokePairedAT(r) \/ Abort(r)
        PROVE  expired' = expired
    BY <1>2 DEF CreateCode, MarkAsUsed, CreateIDToken, Rotate, RetireAT, CreateRT, MarkReuse,
                RevokeSessionATs, RevokeSessionRTs, RevokePairedAT, Abort
  <1>3. ASSUME NEW r \in Request, CodeGrantCreateAT(r) \/ RefreshCreateAT(r)
        PROVE  expired' = expired
    BY <1>3 DEF CodeGrantCreateAT, RefreshCreateAT
  <1>4. ASSUME NEW a \in Admin,
               \/ \E T \in IncidentTargets : IncidentSessions(a, T)
               \/ ContinueIncident(a) \/ AbortIncident(a)
        PROVE  expired' = expired
    BY <1>4 DEF IncidentSessions, ContinueIncident, IncidentAccessTokens,
                IncidentRefreshTokens, AbortIncident
  <1>5. Environment \/ UNCHANGED vars => expired \subseteq expired'
    BY DEF Environment, Login, RevokeAccessToken, Expire, Crash, vars
  <1> QED BY <1>1, <1>2, <1>3, <1>4, <1>5 DEF Next, Continue

(* A spent grant nobody is redeeming stays so and yields no further token: *)
(* a retry, a replay or a restart cannot mint from it.                     *)
THEOREM ClosedGrantsStayClosed == Spec => ClosedGrantsMintNothing
PROOF
  <1>1. ASSUME GrantInv, [Next]_vars, NEW g \in Code \cup RToken, Closed(g)
        PROVE  Closed(g)' /\ RedeemedBy(g)' = RedeemedBy(g)
    <2>1. UNCHANGED at => RedeemedBy(g)' = RedeemedBy(g)
      BY DEF RedeemedBy
    <2>2. ASSUME NEW r \in Request, req[r].pc = "createAT",
                 DOMAIN at' = DOMAIN at \cup {req[r].new},
                 \A t \in DOMAIN at : at'[t] = at[t],
                 at'[req[r].new].grant = req[r].cred
          PROVE  RedeemedBy(g)' = RedeemedBy(g)
      <3>1. req[r].cred # g
        BY <1>1, <2>2 DEF Closed, Minting
      <3> QED BY <2>2, <3>1 DEF RedeemedBy
    <2>3. RedeemedBy(g)' = RedeemedBy(g)
      BY <1>1, <2>1, <2>2, NewAccessTokens
    <2>4. Spent(g)'
      BY <1>1, MarksStay DEF Closed, Spent
    <2>5. ASSUME NEW r \in Request, Minting(r)'
          PROVE  req'[r].cred # g
      <3>1. Continued(r) \/ ~Spent(req'[r].cred)
        BY <1>1, <2>5, RedemptionsBeginUnspent
      <3> QED BY <1>1, <3>1 DEF Closed, Continued
    <2> QED BY <2>3, <2>4, <2>5 DEF Closed
  <1>2. GrantInv /\ [Next]_vars =>
          [\A g \in Code \cup RToken : Closed(g) =>
             Closed(g)' /\ RedeemedBy(g)' = RedeemedBy(g)]_vars
    BY <1>1
  <1> QED BY <1>2, GrantInvHolds, PTL DEF Spec, ClosedGrantsMintNothing

=============================================================================
