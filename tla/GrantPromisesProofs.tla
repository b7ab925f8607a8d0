------------------------- MODULE GrantPromisesProofs -------------------------
(***************************************************************************)
(* What TokenGrants promises of sessions, rotations and reuse, proved for  *)
(* every value of the constants from the invariants of TokenGrantsProofs.  *)
(***************************************************************************)
EXTENDS TokenGrantsProofs, FiniteSetTheorems

USE DEF Scopes, CodeRow, ATokenRow, RTokenRow, MintingPC, CleanupPC, PC,
        RequestState, IncidentState, Idle, NoIncident

-----------------------------------------------------------------------------
(* Who changes what. *)

(* Going to a statement, or ending, changes one request. *)
LEMMA GotoMoves ==
  ASSUME GrantInv, NEW o \in Request, NEW p, Goto(o, p), NEW r \in Request
  PROVE  /\ r # o => req'[r] = req[r]
         /\ req'[o].pc = p /\ req'[o].cred = req[o].cred /\ req'[o].new = req[o].new
PROOF
  <1>1. req \in [Request -> RequestState]
    BY DEF GrantInv, TypeInv, RequestsOK
  <1> QED BY <1>1 DEF Goto

LEMMA FinishMoves ==
  ASSUME GrantInv, NEW o \in Request, Finish(o), NEW r \in Request
  PROVE  /\ r # o => req'[r] = req[r]
         /\ req'[o] = Idle
PROOF
  <1>1. req \in [Request -> RequestState]
    BY DEF GrantInv, TypeInv, RequestsOK
  <1> QED BY <1>1 DEF Finish

(* Accepting a request changes no other. *)
LEMMA AcceptMovesOne ==
  ASSUME GrantInv, NEW o \in Request, Accept(o), NEW r \in Request, r # o
  PROVE  req'[r] = req[r]
PROOF
  <1>0. req \in [Request -> RequestState]
    BY DEF GrantInv, TypeInv, RequestsOK
  <1>1. CASE \/ \E s \in Session, c \in Client : AuthorizeCheck(o, s, c)
             \/ \E c \in Client, k \in Code : CodeGrantAccept(o, c, k)
             \/ \E c \in RefreshClient, x \in RToken : RefreshAccept(o, c, x)
    BY <1>0, <1>1 DEF AuthorizeCheck, CodeGrantAccept, RefreshAccept
  <1>2. CASE \/ \E k \in Code : CodeGrantReplay(o, k)
             \/ \E x \in RToken : RefreshReuse(o, x) \/ RevokeRefreshToken(o, x)
    BY <1>0, <1>2 DEF CodeGrantReplay, RefreshReuse, RevokeRefreshToken
  <1> QED BY <1>1, <1>2 DEF Accept

(* A step that changes a request is a step of that request, or a failure   *)
(* that ends it.                                                           *)
LEMMA RequestMoves ==
  ASSUME GrantInv, [Next]_vars, NEW r \in Request
  PROVE  req'[r] = req[r] \/ (req'[r] = Idle /\ Fault) \/ Accept(r) \/ Continue(r)
PROOF
  <1>0. req \in [Request -> RequestState]
    BY DEF GrantInv, TypeInv, RequestsOK
  <1>1. ASSUME NEW o \in Request, Accept(o)
        PROVE  o = r \/ req'[r] = req[r]
    BY <1>1, AcceptMovesOne
  <1>2. ASSUME NEW o \in Request, Continue(o)
        PROVE  o = r \/ req'[r] = req[r]
    <2>1. CASE CreateCode(o) \/ CreateRT(o) \/ RevokeSessionRTs(o) \/ RevokePairedAT(o)
      <3>1. Finish(o)
        BY <2>1 DEF CreateCode, CreateRT, RevokeSessionRTs, RevokePairedAT
      <3> QED BY <3>1, FinishMoves
    <2>2. CASE MarkAsUsed(o) \/ Rotate(o) \/ RetireAT(o) \/ MarkReuse(o) \/ RevokeSessionATs(o)
      <3>1. \E p : Goto(o, p)
        BY <2>2 DEF MarkAsUsed, Rotate, RetireAT, MarkReuse, RevokeSessionATs
      <3> QED BY <3>1, GotoMoves
    <2>3. CASE CodeGrantCreateAT(o) \/ RefreshCreateAT(o)
      <3>1. Goto(o, "createIDT") \/ Goto(o, "createRT")
        BY <2>3 DEF CodeGrantCreateAT, RefreshCreateAT
      <3> QED BY <3>1, GotoMoves
    <2>4. CASE CreateIDToken(o)
      <3>1. Goto(o, "createRT") \/ Finish(o)
        BY <2>4 DEF CreateIDToken
      <3> QED BY <3>1, GotoMoves, FinishMoves
    <2> QED BY <1>2, <2>1, <2>2, <2>3, <2>4 DEF Continue
  <1>3. ASSUME NEW o \in Request, Abort(o)
        PROVE  (req'[r] = Idle /\ Fault) \/ req'[r] = req[r]
    BY <1>0, <1>3 DEF Abort, Finish
  <1>4. ASSUME NEW a \in Admin,
               \/ \E T \in IncidentTargets : IncidentSessions(a, T)
               \/ ContinueIncident(a) \/ AbortIncident(a)
        PROVE  req' = req
    BY <1>4 DEF IncidentSessions, ContinueIncident, IncidentAccessTokens,
                IncidentRefreshTokens, AbortIncident
  <1>5. CASE Environment \/ UNCHANGED vars
    <2>1. CASE Crash
      BY <2>1 DEF Crash
    <2>2. ~Crash => req' = req
      BY <1>5 DEF Environment, Login, RevokeAccessToken, Expire, vars
    <2> QED BY <2>1, <2>2
  <1> QED BY <1>1, <1>2, <1>3, <1>4, <1>5 DEF Next

(* What a request has looked up when it is accepted. *)
LEMMA AcceptedWith ==
  ASSUME GrantInv, NEW r \in Request, Accept(r)
  PROVE  /\ req[r].pc = "idle"
         /\ \/ /\ req'[r].pc = "createCode" /\ req'[r].cred \in Session
               /\ IsValid(req'[r].cred)
            \/ /\ req'[r].pc = "markUsed" /\ req'[r].cred \in DOMAIN code
               /\ req'[r].cred \notin used \cup expired
            \/ /\ req'[r].pc = "rotate" /\ req'[r].cred \in DOMAIN rt
               /\ RefreshAcceptable(req'[r].cred)
            \/ req'[r].pc \in {"revokeATs", "markReuse", "revokePair"}
         /\ req'[r].pc = "markReuse" => req'[r].cred \in DOMAIN rt
PROOF
  <1>0. req \in [Request -> RequestState]
    BY DEF GrantInv, TypeInv, RequestsOK
  <1>1. ASSUME NEW s \in Session, NEW c \in Client, AuthorizeCheck(r, s, c)
        PROVE  /\ req[r].pc = "idle" /\ req'[r].pc = "createCode"
               /\ req'[r].cred \in Session /\ IsValid(req'[r].cred)
    BY <1>0, <1>1 DEF AuthorizeCheck
  <1>2. ASSUME NEW c \in Client, NEW k \in Code, CodeGrantAccept(r, c, k)
        PROVE  /\ req[r].pc = "idle" /\ req'[r].pc = "markUsed"
               /\ req'[r].cred \in DOMAIN code /\ req'[r].cred \notin used \cup expired
    BY <1>0, <1>2 DEF CodeGrantAccept, CodeAcceptable
  <1>3. ASSUME NEW c \in RefreshClient, NEW x \in RToken, RefreshAccept(r, c, x)
        PROVE  /\ req[r].pc = "idle" /\ req'[r].pc = "rotate"
               /\ req'[r].cred \in DOMAIN rt /\ RefreshAcceptable(req'[r].cred)
    <2>1. req'[r].pc = "rotate" /\ req'[r].cred = x
      BY <1>0, <1>3 DEF RefreshAccept
    <2> QED BY <1>3, <2>1 DEF RefreshAccept
  <1>4. ASSUME NEW k \in Code, CodeGrantReplay(r, k)
        PROVE  req[r].pc = "idle" /\ req'[r].pc = "revokeATs"
    BY <1>0, <1>4 DEF CodeGrantReplay
  <1>5. ASSUME NEW x \in RToken, RefreshReuse(r, x)
        PROVE  req[r].pc = "idle" /\ req'[r].pc = "markReuse" /\ req'[r].cred \in DOMAIN rt
    BY <1>0, <1>5 DEF RefreshReuse
  <1>6. ASSUME NEW x \in RToken, RevokeRefreshToken(r, x)
        PROVE  req[r].pc = "idle" /\ req'[r].pc = "revokePair"
    BY <1>0, <1>6 DEF RevokeRefreshToken
  <1>7. CASE \E s \in Session, c \in Client : AuthorizeCheck(r, s, c)
    BY <1>1, <1>7
  <1>8. CASE \E c \in Client, k \in Code : CodeGrantAccept(r, c, k)
    BY <1>2, <1>8
  <1>9. CASE \E c \in RefreshClient, x \in RToken : RefreshAccept(r, c, x)
    BY <1>3, <1>9
  <1>10. CASE \/ \E k \in Code : CodeGrantReplay(r, k)
              \/ \E x \in RToken : RefreshReuse(r, x) \/ RevokeRefreshToken(r, x)
    BY <1>4, <1>5, <1>6, <1>10
  <1> QED BY <1>7, <1>8, <1>9, <1>10 DEF Accept

(* A request that goes on keeps its credential, and goes from statement to *)
(* statement in the order of its handler.                                  *)
LEMMA ContinuedWith ==
  ASSUME GrantInv, NEW r \in Request, Continue(r)
  PROVE  \/ req'[r] = Idle
         \/ /\ req'[r].cred = req[r].cred /\ req'[r].new = req[r].new
            /\ \/ req[r].pc = "markUsed" /\ req'[r].pc = "createAT"
               \/ req[r].pc = "createAT" /\ req'[r].pc \in {"createIDT", "createRT"}
               \/ req[r].pc = "createIDT" /\ req'[r].pc = "createRT"
               \/ req[r].pc = "rotate" /\ req'[r].pc = "retireAT"
               \/ req[r].pc = "retireAT" /\ req'[r].pc = "createAT" /\ RetireAT(r)
               \/ req[r].pc = "markReuse" /\ req'[r].pc = "revokeATs"
               \/ req[r].pc = "revokeATs" /\ req'[r].pc = "revokeRTs" /\ RevokeSessionATs(r)
PROOF
  <1>1. CASE CreateCode(r) \/ CreateRT(r) \/ RevokeSessionRTs(r) \/ RevokePairedAT(r)
    <2>1. Finish(r)
      BY <1>1 DEF CreateCode, CreateRT, RevokeSessionRTs, RevokePairedAT
    <2> QED BY <2>1, FinishMoves
  <1>2. CASE MarkAsUsed(r)
    <2>1. req[r].pc = "markUsed" /\ Goto(r, "createAT")
      BY <1>2 DEF MarkAsUsed
    <2> QED BY <2>1, GotoMoves
  <1>3. CASE Rotate(r)
    <2>1. req[r].pc = "rotate" /\ Goto(r, "retireAT")
      BY <1>3 DEF Rotate
    <2> QED BY <2>1, GotoMoves
  <1>4. CASE RetireAT(r)
    <2>1. req[r].pc = "retireAT" /\ Goto(r, "createAT")
      BY <1>4 DEF RetireAT
    <2> QED BY <1>4, <2>1, GotoMoves
  <1>5. CASE MarkReuse(r)
    <2>1. req[r].pc = "markReuse" /\ Goto(r, "revokeATs")
      BY <1>5 DEF MarkReuse
    <2> QED BY <2>1, GotoMoves
  <1>6. CASE RevokeSessionATs(r)
    <2>1. req[r].pc = "revokeATs" /\ Goto(r, "revokeRTs")
      BY <1>6 DEF RevokeSessionATs
    <2> QED BY <1>6, <2>1, GotoMoves
  <1>7. CASE CreateIDToken(r)
    <2>1. req[r].pc = "createIDT" /\ (Goto(r, "createRT") \/ Finish(r))
      BY <1>7 DEF CreateIDToken
    <2> QED BY <2>1, GotoMoves, FinishMoves
  <1>8. CASE CodeGrantCreateAT(r) \/ RefreshCreateAT(r)
    <2>1. req[r].pc = "createAT" /\ (Goto(r, "createIDT") \/ Goto(r, "createRT"))
      BY <1>8 DEF CodeGrantCreateAT, RefreshCreateAT
    <2> QED BY <2>1, GotoMoves
  <1> QED BY <1>1, <1>2, <1>3, <1>4, <1>5, <1>6, <1>7, <1>8 DEF Continue

(* Which statements insert codes and tokens, and which mark a reuse. *)
LEMMA Inserts ==
  ASSUME [Next]_vars
  PROVE  /\ UNCHANGED code \/ \E r \in Request : CreateCode(r)
         /\ UNCHANGED at \/ \E r \in Request : CodeGrantCreateAT(r) \/ RefreshCreateAT(r)
         /\ UNCHANGED rt \/ \E r \in Request : CreateRT(r)
         /\ UNCHANGED reused \/ \E r \in Request : MarkReuse(r)
         /\ sessions \subseteq sessions'
         /\ idt \subseteq idt'
PROOF
  <1> USE DEF tables
  <1>1. ASSUME NEW r \in Request, Accept(r)
        PROVE  UNCHANGED tables
    BY <1>1 DEF Accept, AuthorizeCheck, CodeGrantAccept, CodeGrantReplay, RefreshAccept,
                RefreshReuse, RevokeRefreshToken
  <1>2. ASSUME NEW r \in Request,
               \/ Rotate(r) \/ RetireAT(r) \/ RevokeSessionATs(r) \/ RevokeSessionRTs(r)
               \/ RevokePairedAT(r) \/ Abort(r)
        PROVE  UNCHANGED tables
    BY <1>2 DEF Rotate, RetireAT, RevokeSessionATs, RevokeSessionRTs, RevokePairedAT, Abort
  <1>3. ASSUME NEW r \in Request, MarkAsUsed(r) \/ CreateIDToken(r)
        PROVE  UNCHANGED <<sessions, code, at, rt, reused>> /\ idt \subseteq idt'
    BY <1>3 DEF MarkAsUsed, CreateIDToken
  <1>4. ASSUME NEW r \in Request, CreateCode(r)
        PROVE  UNCHANGED <<sessions, at, rt, reused, idt>>
    BY <1>4 DEF CreateCode
  <1>5. ASSUME NEW r \in Request, CodeGrantCreateAT(r) \/ RefreshCreateAT(r)
        PROVE  UNCHANGED <<sessions, code, rt, reused, idt>>
    BY <1>5 DEF CodeGrantCreateAT, RefreshCreateAT
  <1>6. ASSUME NEW r \in Request, CreateRT(r)
        PROVE  UNCHANGED <<sessions, code, at, reused, idt>>
    BY <1>6 DEF CreateRT
  <1>7. ASSUME NEW r \in Request, MarkReuse(r)
        PROVE  UNCHANGED <<sessions, code, at, rt, idt>>
    BY <1>7 DEF MarkReuse
  <1>8. ASSUME NEW a \in Admin,
               \/ \E T \in IncidentTargets : IncidentSessions(a, T)
               \/ ContinueIncident(a) \/ AbortIncident(a)
        PROVE  UNCHANGED tables
    BY <1>8 DEF IncidentSessions, ContinueIncident, IncidentAccessTokens,
                IncidentRefreshTokens, AbortIncident
  <1>9. Environment \/ UNCHANGED vars =>
          UNCHANGED <<code, at, rt, reused, idt>> /\ sessions \subseteq sessions'
    BY DEF Environment, Login, RevokeAccessToken, Expire, Crash, vars
  <1> QED BY <1>1, <1>2, <1>3, <1>4, <1>5, <1>6, <1>7, <1>8, <1>9 DEF Next, Continue

(* No step deletes or rewrites a row, or takes back a mark. *)
LEMMA NextGrows ==
  ASSUME GrantInv, [Next]_vars
  PROVE  Grow
PROOF
  <1>1. \A k \in DOMAIN code : k \in DOMAIN code' /\ code'[k] = code[k]
    <2>1. ASSUME NEW r \in Request, CreateCode(r)
          PROVE  \A k \in DOMAIN code : k \in DOMAIN code' /\ code'[k] = code[k]
      <3>1. req[r].new \notin DOMAIN code
        BY <2>1 DEF CreateCode, GrantInv, Staged
      <3>2. ASSUME NEW row, code' = Insert(code, req[r].new, row)
            PROVE  \A k \in DOMAIN code : k \in DOMAIN code' /\ code'[k] = code[k]
        BY <3>1, <3>2 DEF Insert
      <3> QED BY <2>1, <3>2 DEF CreateCode
    <2> QED BY <2>1, Inserts
  <1>2. \A t \in DOMAIN at : t \in DOMAIN at' /\ at'[t] = at[t]
    BY NewAccessTokens
  <1>3. \A x \in DOMAIN rt : x \in DOMAIN rt' /\ rt'[x] = rt[x]
    <2>1. ASSUME NEW r \in Request, CreateRT(r)
          PROVE  \A x \in DOMAIN rt : x \in DOMAIN rt' /\ rt'[x] = rt[x]
      <3>1. req[r].pc = "createRT"
        BY <2>1 DEF CreateRT
      <3>2. req[r].newRT \notin DOMAIN rt
        BY <3>1 DEF GrantInv, Staged
      <3>3. ASSUME NEW row, rt' = Insert(rt, req[r].newRT, row)
            PROVE  \A x \in DOMAIN rt : x \in DOMAIN rt' /\ rt'[x] = rt[x]
        BY <3>2, <3>3 DEF Insert
      <3> QED BY <2>1, <3>3 DEF CreateRT
    <2> QED BY <2>1, Inserts
  <1> QED BY <1>1, <1>2, <1>3, Inserts, MarksStay DEF Grow

(* The tables are a history: no request, failed statement, incident or     *)
(* crash deletes or rewrites a session, a code, a token or an ID token, or *)
(* clears a used_at, a revoked_at or a reuse_detected_at (the stores only  *)
(* insert rows and set those columns).                                     *)
THEOREM RowsAreKept ==
  Spec => [][Grow /\ sessions \subseteq sessions' /\ reused \subseteq reused']_vars
PROOF
  <1>1. GrantInv /\ [Next]_vars => Grow /\ sessions \subseteq sessions'
    BY NextGrows, Inserts
  <1>2. [Next]_vars => reused \subseteq reused'
    BY Inserts DEF MarkReuse
  <1>3. GrantInv /\ [Next]_vars =>
          [Grow /\ sessions \subseteq sessions' /\ reused \subseteq reused']_vars
    BY <1>1, <1>2
  <1> QED BY <1>3, GrantInvHolds, PTL DEF Spec

(* Failures are counted one by one and never forgotten. *)
LEMMA FaultsAreCounted ==
  ASSUME [Next]_vars
  PROVE  faults' = faults \/ Fault
PROOF
  <1>1. ASSUME NEW rows, BestEffortRevoke(rows) PROVE faults' = faults \/ Fault
    BY <1>1 DEF BestEffortRevoke
  <1>3. ASSUME NEW r \in Request, Accept(r) PROVE faults' = faults \/ Fault
    BY <1>1, <1>3 DEF Accept, AuthorizeCheck, CodeGrantAccept, CodeGrantReplay, RefreshAccept,
                      RefreshReuse, RevokeRefreshToken
  <1>4. ASSUME NEW r \in Request,
               \/ CreateCode(r) \/ MarkAsUsed(r) \/ CreateIDToken(r) \/ Rotate(r) \/ CreateRT(r)
        PROVE  faults' = faults \/ Fault
    BY <1>4 DEF CreateCode, MarkAsUsed, CreateIDToken, Rotate, CreateRT
  <1>5. ASSUME NEW r \in Request, CodeGrantCreateAT(r) \/ RefreshCreateAT(r)
        PROVE  faults' = faults \/ Fault
    BY <1>5 DEF CodeGrantCreateAT, RefreshCreateAT
  <1>6. ASSUME NEW r \in Request,
               RetireAT(r) \/ RevokeSessionATs(r) \/ RevokeSessionRTs(r) \/ RevokePairedAT(r)
        PROVE  faults' = faults \/ Fault
    BY <1>1, <1>6 DEF RetireAT, RevokeSessionATs, RevokeSessionRTs, RevokePairedAT
  <1>7. ASSUME NEW r \in Request, MarkReuse(r) \/ Abort(r) PROVE faults' = faults \/ Fault
    BY <1>7 DEF MarkReuse, Abort
  <1>8. ASSUME NEW a \in Admin,
               \/ \E T \in IncidentTargets : IncidentSessions(a, T)
               \/ ContinueIncident(a) \/ AbortIncident(a)
        PROVE  faults' = faults \/ Fault
    BY <1>8 DEF IncidentSessions, ContinueIncident, IncidentAccessTokens,
                      IncidentRefreshTokens, AbortIncident
  <1>9. Environment \/ UNCHANGED vars => faults' = faults \/ Fault
    BY <1>1 DEF Environment, Login, RevokeAccessToken, Expire, Crash, vars
  <1> QED BY <1>3, <1>4, <1>5, <1>6, <1>7, <1>8, <1>9 DEF Next, Continue

LEMMA FaultsStay ==
  ASSUME TypeInv, [Next]_vars, faults' = 0
  PROVE  faults = 0
  BY FaultsAreCounted DEF TypeInv, Fault

-----------------------------------------------------------------------------
(* Sessions. *)

(* Sessions, codes, refresh tokens and access tokens have disjoint keys,   *)
(* and the credential of a grant has a row.                                *)
LEMMA CredentialsHaveRows ==
  ASSUME GrantInv, NEW r \in Request, req[r].pc \in MintingPC
  PROVE  /\ req[r].cred \in DOMAIN code \cup DOMAIN rt
         /\ req[r].cred \in Code => req[r].cred \in DOMAIN code
         /\ req[r].cred \in RToken => req[r].cred \in DOMAIN rt
  BY KeysAreDisjoint DEF GrantInv, TypeInv, TablesOK, RequestsOK, Loaded

LEMMA SessionOfRow ==
  ASSUME GrantInv
  PROVE  /\ \A k \in DOMAIN code : SessionOf(k) = code[k].session
         /\ \A x \in DOMAIN rt : SessionOf(x) = rt[x].session /\ x \notin DOMAIN code
  BY KeysAreDisjoint DEF GrantInv, TypeInv, TablesOK, SessionOf

(* A request that is minting after a step was minting before, with the     *)
(* same credential, or was accepted in the step.                           *)
LEMMA MintingBegins ==
  ASSUME GrantInv, [Next]_vars, NEW r \in Request, req'[r].pc \in MintingPC
  PROVE  \/ req[r].pc \in MintingPC /\ req'[r].cred = req[r].cred
         \/ /\ req'[r].cred \in DOMAIN code /\ req'[r].cred \notin used \cup expired
         \/ /\ req'[r].cred \in DOMAIN rt /\ RefreshAcceptable(req'[r].cred)
PROOF
  <1>1. Idle.pc \notin MintingPC
    OBVIOUS
  <1>2. CASE req'[r] = req[r]
    BY <1>2
  <1>3. CASE Accept(r)
    BY <1>3, AcceptedWith
  <1>4. CASE Continue(r)
    BY <1>1, <1>4, ContinuedWith
  <1> QED BY <1>1, <1>2, <1>3, <1>4, RequestMoves

(* Once the rotations of a revoked session in flight have ended, there are *)
(* no more of them (token_refresh.go:65), whatever the incident handler    *)
(* that revoked it has left undone.                                        *)
THEOREM RotationsStop == Spec => RevokedSessionsDoNotRotate
PROOF
  <1>1. ASSUME GrantInv, GrantInv', [Next]_vars, NEW s \in Session, RotationStopped(s)
        PROVE  /\ RotationStopped(s)'
               /\ {t \in AccessTokensOf({s}) : at[t].grant \in RToken}' \subseteq AccessTokensOf({s})
    <2>0. Grow
      BY <1>1, NextGrows
    <2>1. s \in sessions' \cap revoked'
      BY <1>1, <2>0, Inserts DEF RotationStopped, Grow
    <2>2. ASSUME NEW r \in Request, NEW g \in RToken, req'[r].pc \in MintingPC,
                 req'[r].cred = g, SessionOf(g)' = s
          PROVE  FALSE
      <3>1. CASE req[r].pc \in MintingPC /\ g = req[r].cred
        <4>1. SessionOf(g)' = SessionOf(g)
          BY <1>1, <2>0, <3>1, CredentialsHaveRows, SessionOfStable DEF GrantInv
        <4> QED BY <1>1, <2>2, <3>1, <4>1 DEF RotationStopped, Minting
      <3>2. CASE g \in DOMAIN rt /\ RefreshAcceptable(g)
        <4>1. SessionOf(g)' = rt[g].session
          BY <1>1, <2>0, <3>2, SessionOfStable, SessionOfRow DEF GrantInv
        <4> QED BY <1>1, <2>2, <3>2, <4>1 DEF RotationStopped, RefreshAcceptable, IsValid
      <3>3. g \notin DOMAIN code
        BY <1>1, <2>2, KeysAreDisjoint DEF GrantInv, TypeInv, TablesOK
      <3> QED BY <1>1, <2>2, <3>1, <3>2, <3>3, MintingBegins
    <2>3. RotationStopped(s)'
      BY <2>1, <2>2 DEF RotationStopped, Minting
    <2>4. ASSUME NEW t \in DOMAIN at', at'[t].session = s, at'[t].grant \in RToken
          PROVE  t \in DOMAIN at /\ at[t].session = s
      <3>1. CASE t \in DOMAIN at
        BY <2>0, <2>4, <3>1 DEF Grow
      <3>2. CASE t \notin DOMAIN at
        <4>1. PICK o \in Request : /\ req[o].pc = "createAT" /\ t = req[o].new
                                   /\ at'[t].grant = req[o].cred
                                   /\ at'[t].session = SessionOf(req[o].cred)
          BY <1>1, <2>4, <3>2, NewAccessTokens
        <4> QED BY <1>1, <2>4, <4>1 DEF RotationStopped, Minting
      <3> QED BY <3>1, <3>2
    <2> QED BY <2>3, <2>4 DEF AccessTokensOf
  <1>2. GrantInv /\ GrantInv' /\ [Next]_vars =>
          [\A s \in Session : RotationStopped(s) =>
             /\ RotationStopped(s)'
             /\ {t \in AccessTokensOf({s}) : at[t].grant \in RToken}'
                  \subseteq AccessTokensOf({s})]_vars
    BY <1>1
  <1> QED BY <1>2, GrantInvHolds, PTL DEF Spec, RevokedSessionsDoNotRotate

(* A revoked session is quiet when its codes are used or expired and no    *)
(* request serves it: what an incident must still revoke is all there is.  *)
Quiet(s) ==
  /\ s \in sessions \cap revoked
  /\ \A k \in DOMAIN code : code[k].session = s => k \in used \cup expired
  /\ \A r \in Request : req[r].pc \in MintingPC \cup {"createCode"} => ~Serving(r, s)

(* A quiet session stays quiet, and nothing is issued for it. *)
LEMMA QuietKept ==
  ASSUME GrantInv, GrantInv', [Next]_vars, NEW s \in Session, Quiet(s)
  PROVE  /\ Quiet(s)'
         /\ AccessTokensOf({s})' = AccessTokensOf({s})
         /\ RefreshTokensOf({s})' = RefreshTokensOf({s})
PROOF
  <1>0. Grow
    BY NextGrows
  <1>1. s \in sessions' \cap revoked'
    BY <1>0, Inserts DEF Quiet, Grow
  <1>2. ASSUME NEW r \in Request, req[r].pc \in MintingPC
        PROVE  req[r].cred \in Code \cup RToken /\ SessionOf(req[r].cred) # s
    <2>1. req[r].cred \in Code \cup RToken
      BY <1>2, CredentialsHaveRows DEF GrantInv, TypeInv, TablesOK
    <2> QED BY <1>2, <2>1 DEF Quiet, Serving
  <1>3. ASSUME NEW t \in DOMAIN at', at'[t].session = s
        PROVE  t \in DOMAIN at
    <2>1. CASE t \notin DOMAIN at
      <3>1. PICK o \in Request : /\ req[o].pc = "createAT" /\ t = req[o].new
                                 /\ at'[t].session = SessionOf(req[o].cred)
        BY <1>3, <2>1, NewAccessTokens
      <3> QED BY <1>2, <1>3, <3>1
    <2> QED BY <2>1
  <1>4. ASSUME NEW x \in DOMAIN rt', rt'[x].session = s
        PROVE  x \in DOMAIN rt
    <2>1. CASE x \notin DOMAIN rt
      <3>1. PICK o \in Request : CreateRT(o)
        BY <1>4, <2>1, Inserts
      <3>2. req[o].pc = "createRT" /\ rt'[x].session = SessionOf(req[o].cred)
        BY <1>4, <2>1, <3>1 DEF CreateRT, Insert, NewRTokenRow
      <3> QED BY <1>2, <1>4, <3>2
    <2> QED BY <2>1
  <1>5. ASSUME NEW k \in DOMAIN code', code'[k].session = s
        PROVE  k \in used' \cup expired'
    <2>1. CASE k \in DOMAIN code
      BY <1>0, <1>5, <2>1, ExpiryStays DEF Grow, Quiet
    <2>2. CASE k \notin DOMAIN code
      <3>1. PICK o \in Request : CreateCode(o)
        BY <1>5, <2>2, Inserts
      <3>2. ASSUME NEW sc, code' = Insert(code, req[o].new,
              [session |-> req[o].cred, client |-> req[o].client, scope |-> sc])
            PROVE  code'[k].session = req[o].cred
        BY <1>5, <2>2, <3>2 DEF Insert
      <3>3. req[o].pc = "createCode" /\ code'[k].session = req[o].cred
        BY <3>1, <3>2 DEF CreateCode
      <3> QED BY <1>5, <3>3 DEF Quiet, Serving
    <2> QED BY <2>1, <2>2
  <1>6. ASSUME NEW r \in Request, NEW g, req'[r].pc \in MintingPC \cup {"createCode"},
               req'[r].cred = g,
               g = s \/ (g \in Code \cup RToken /\ SessionOf(g)' = s)
        PROVE  FALSE
    <2>1. CASE req'[r].pc = "createCode"
      <3>1. g \in Session
        BY <1>6, <2>1 DEF GrantInv, TypeInv, TablesOK, RequestsOK, Loaded
      <3>2. g = s
        BY <1>6, <3>1, KeysAreDisjoint
      <3>3. CASE req'[r] = req[r]
        BY <1>6, <2>1, <3>2, <3>3 DEF Quiet, Serving
      <3>4. CASE Accept(r)
        BY <1>6, <2>1, <3>2, <3>4, AcceptedWith DEF Quiet, IsValid
      <3>5. CASE Continue(r)
        BY <2>1, <3>5, ContinuedWith
      <3> QED BY <2>1, <3>3, <3>4, <3>5, RequestMoves
    <2>2. CASE req'[r].pc \in MintingPC
      <3>1. SessionOf(g)' = s
        <4>1. g \in Code \cup RToken
          BY <1>6, <2>2 DEF GrantInv, TypeInv, TablesOK, RequestsOK, Loaded
        <4> QED BY <1>6, <4>1, KeysAreDisjoint
      <3>2. CASE req[r].pc \in MintingPC /\ g = req[r].cred
        BY <1>0, <1>2, <3>1, <3>2, CredentialsHaveRows, SessionOfStable DEF GrantInv
      <3>3. CASE g \in DOMAIN code /\ g \notin used \cup expired
        BY <1>0, <3>1, <3>3, SessionOfStable, SessionOfRow DEF GrantInv, Quiet
      <3>4. CASE g \in DOMAIN rt /\ RefreshAcceptable(g)
        BY <1>0, <3>1, <3>4, SessionOfStable, SessionOfRow
        DEF GrantInv, Quiet, RefreshAcceptable, IsValid
      <3> QED BY <1>6, <2>2, <3>2, <3>3, <3>4, MintingBegins
    <2> QED BY <1>6, <2>1, <2>2
  <1>7. Quiet(s)'
    BY <1>1, <1>5, <1>6 DEF Quiet, Serving
  <1>8. /\ \A t \in DOMAIN at' : at'[t].session = s <=> (t \in DOMAIN at /\ at[t].session = s)
        /\ \A x \in DOMAIN rt' : rt'[x].session = s <=> (x \in DOMAIN rt /\ rt[x].session = s)
    BY <1>0, <1>3, <1>4 DEF Grow
  <1> QED BY <1>0, <1>7, <1>8 DEF Grow, AccessTokensOf, RefreshTokensOf

(* No step brings a dead session back. *)
LEMMA DeadKept ==
  ASSUME GrantInv, GrantInv', [Next]_vars, NEW s \in Session, Dead(s)
  PROVE  Dead(s)'
PROOF
  <1>1. Quiet(s)
    BY DEF Dead, Quiet
  <1>2. revoked \subseteq revoked'
    BY MarksStay
  <1> QED BY <1>1, <1>2, QuietKept DEF Dead, Quiet

(* Nothing brings a dead session back: not a replay, a rotation, an        *)
(* authorization request, a failed statement or a restart.                 *)
THEOREM DeadStayDead == Spec => DeadSessionsStayDead
PROOF
  <1>1. GrantInv /\ GrantInv' /\ [Next]_vars => [\A s \in Session : Dead(s) => Dead(s)']_vars
    BY DeadKept
  <1> QED BY <1>1, GrantInvHolds, PTL DEF Spec, DeadSessionsStayDead

-----------------------------------------------------------------------------
(* Rotations. *)

(* The refresh tokens whose rotation has tried, and failed, to revoke the  *)
(* access token issued with them.                                          *)
LeftOver ==
  {p \in DOMAIN rt :
     /\ rt[p].token \notin revoked
     /\ \/ \E x \in DOMAIN rt : rt[x].parent = p
        \/ \E r \in Request : req[r].pc \in {"createAT", "createRT"} /\ req[r].cred = p}

RetireInv == IsFiniteSet(LeftOver) /\ Cardinality(LeftOver) <= faults

(* The row a refresh token names as its parent exists and is revoked. *)
ParentsAreRevoked ==
  \A x \in DOMAIN rt : rt[x].parent # None => rt[x].parent \in DOMAIN rt \cap revoked

(* The parent of a new refresh token is the one its request rotated. *)
LEMMA NewParents ==
  ASSUME GrantInv, [Next]_vars, NEW x \in DOMAIN rt', x \notin DOMAIN rt, rt'[x].parent # None
  PROVE  \E r \in Request : /\ req[r].pc = "createRT" /\ rt'[x].parent = req[r].cred
                            /\ req[r].cred \in RToken \cap DOMAIN rt
PROOF
  <1>1. PICK r \in Request : CreateRT(r)
    BY Inserts
  <1>2. req[r].pc = "createRT" /\ rt'[x].parent = ParentOf(req[r].cred)
    BY <1>1 DEF CreateRT, Insert, NewRTokenRow
  <1>3. rt'[x].parent = req[r].cred /\ req[r].cred \in RToken \cap DOMAIN rt
    BY <1>2, CredentialsHaveRows DEF ParentOf, GrantInv, TypeInv, TablesOK
  <1> QED BY <1>2, <1>3

LEMMA NextParentsAreRevoked ==
  ASSUME GrantInv, ParentsAreRevoked, [Next]_vars
  PROVE  ParentsAreRevoked'
PROOF
  <1>0. Grow
    BY NextGrows
  <1>1. ASSUME NEW x \in DOMAIN rt', rt'[x].parent # None
        PROVE  rt'[x].parent \in DOMAIN rt' \cap revoked'
    <2>1. CASE x \in DOMAIN rt
      BY <1>0, <1>1, <2>1 DEF ParentsAreRevoked, Grow
    <2>2. CASE x \notin DOMAIN rt
      <3>1. PICK r \in Request : /\ req[r].pc = "createRT" /\ rt'[x].parent = req[r].cred
                                /\ req[r].cred \in RToken \cap DOMAIN rt
        BY <1>1, <2>2, NewParents
      <3>2. req[r].cred \in revoked
        BY <3>1, KeysAreDisjoint DEF GrantInv, Staged, Spent, TypeInv, TablesOK
      <3> QED BY <1>0, <3>1, <3>2 DEF Grow
    <2> QED BY <2>1, <2>2
  <1> QED BY <1>1 DEF ParentsAreRevoked

(* A token comes to be left over only by the failure of its own RetireAT. *)
LEMMA LeftOverGrows ==
  ASSUME GrantInv, [Next]_vars, NEW p \in LeftOver', p \notin LeftOver
  PROVE  \E r \in Request : RetireAT(r) /\ p = req[r].cred /\ Fault
PROOF
  <1>0. Grow
    BY NextGrows
  <1>1. CASE p \notin DOMAIN rt
    <2>1. ASSUME NEW x \in DOMAIN rt', rt'[x].parent = p
          PROVE  FALSE
      <3>1. p # None
        BY KeysAreDisjoint, NextTypeInv DEF LeftOver, GrantInv, TypeInv, TablesOK
      <3>2. CASE x \in DOMAIN rt
        BY <1>0, <1>1, <2>1, <3>1, <3>2 DEF GrantInv, TypeInv, TablesOK, ReferencesHold, Grow
      <3>3. CASE x \notin DOMAIN rt
        BY <1>1, <2>1, <3>1, <3>3, NewParents
      <3> QED BY <3>2, <3>3
    <2>2. ASSUME NEW r \in Request, req'[r].pc \in {"createAT", "createRT"}, req'[r].cred = p
          PROVE  FALSE
      <3>1. p \notin DOMAIN code
        BY KeysAreDisjoint, NextTypeInv DEF LeftOver, GrantInv, TypeInv, TablesOK
      <3>2. req[r].pc \in MintingPC /\ req[r].cred = p
        BY <1>1, <2>2, <3>1, MintingBegins
      <3> QED BY <1>1, <3>1, <3>2, CredentialsHaveRows
    <2> QED BY <2>1, <2>2 DEF LeftOver
  <1>2. CASE p \in DOMAIN rt
    <2>1. rt'[p] = rt[p] /\ rt[p].token \notin revoked' /\ rt[p].token \notin revoked
      BY <1>0, <1>2 DEF LeftOver, Grow
    <2>2. ASSUME NEW x \in DOMAIN rt', rt'[x].parent = p
          PROVE  FALSE
      <3>1. x \notin DOMAIN rt
        BY <1>0, <1>2, <2>1, <2>2 DEF LeftOver, Grow
      <3>2. p # None
        BY <1>2, KeysAreDisjoint DEF GrantInv, TypeInv, TablesOK
      <3>3. PICK r \in Request : req[r].pc = "createRT" /\ p = req[r].cred
        BY <2>2, <3>1, <3>2, NewParents
      <3> QED BY <1>2, <2>1, <3>3 DEF LeftOver
    <2>3. ASSUME NEW r \in Request, req'[r].pc \in {"createAT", "createRT"}, req'[r].cred = p
          PROVE  RetireAT(r) /\ p = req[r].cred /\ Fault
      <3>1. ~(req[r].pc \in {"createAT", "createRT"} /\ req[r].cred = p)
        BY <1>2, <2>1 DEF LeftOver
      <3>2. req'[r] # req[r] /\ req'[r] # Idle
        BY <2>3, <3>1
      <3>3. ~Accept(r)
        BY <2>3, AcceptedWith
      <3>4. Continue(r)
        BY <3>2, <3>3, RequestMoves
      <3>5. req[r].cred = p
        BY <2>3, <3>2, <3>4, ContinuedWith
      <3>6. req[r].pc \notin {"markUsed", "createIDT"}
        BY <1>2, <3>5, KeysAreDisjoint DEF GrantInv, TypeInv, TablesOK, RequestsOK, Loaded
      <3>7. RetireAT(r)
        BY <2>3, <3>1, <3>2, <3>4, <3>5, <3>6, ContinuedWith
      <3>8. rt[p].token \in revoked' \/ Fault
        BY <3>5, <3>7 DEF RetireAT, BestEffortRevoke
      <3> QED BY <2>1, <3>5, <3>7, <3>8
    <2>4. \E r \in Request : req'[r].pc \in {"createAT", "createRT"} /\ req'[r].cred = p
      BY <2>2 DEF LeftOver
    <2> QED BY <2>3, <2>4
  <1> QED BY <1>1, <1>2

LEMMA NextRetireInv ==
  ASSUME GrantInv, RetireInv, [Next]_vars
  PROVE  RetireInv'
PROOF
  <1>0. /\ IsFiniteSet(LeftOver) /\ Cardinality(LeftOver) <= faults
        /\ Cardinality(LeftOver) \in Nat /\ faults \in Nat
    BY FS_CardinalityType DEF RetireInv, GrantInv, TypeInv
  <1>1. CASE LeftOver' \subseteq LeftOver
    <2>1. /\ IsFiniteSet(LeftOver') /\ Cardinality(LeftOver') \in Nat
          /\ Cardinality(LeftOver') <= Cardinality(LeftOver)
      BY <1>0, <1>1, FS_Subset, FS_CardinalityType
    <2>2. faults' = faults \/ faults' = faults + 1
      BY FaultsAreCounted DEF Fault
    <2> QED BY <1>0, <2>1, <2>2 DEF RetireInv
  <1>2. CASE ~(LeftOver' \subseteq LeftOver)
    <2>1. PICK p : p \in LeftOver' /\ p \notin LeftOver
      BY <1>2
    <2>2. PICK r \in Request : RetireAT(r) /\ p = req[r].cred /\ Fault
      BY <2>1, LeftOverGrows
    <2>3. ASSUME NEW q \in LeftOver', q \notin LeftOver
          PROVE  q = p
      <3>1. PICK o \in Request : RetireAT(o) /\ q = req[o].cred
        BY <2>3, LeftOverGrows
      <3>2. req[o].pc = "retireAT" /\ Goto(o, "createAT")
        BY <3>1 DEF RetireAT
      <3>3. req[r].pc = "retireAT" /\ Goto(r, "createAT")
        BY <2>2 DEF RetireAT
      <3>4. o = r
        BY <3>2, <3>3, GotoMoves
      <3> QED BY <2>2, <3>1, <3>4
    <2>4. LeftOver' \subseteq LeftOver \cup {p}
      BY <2>3
    <2>5. /\ IsFiniteSet(LeftOver \cup {p})
          /\ Cardinality(LeftOver \cup {p}) = Cardinality(LeftOver) + 1
      BY <1>0, <2>1, FS_AddElement
    <2>6. /\ IsFiniteSet(LeftOver') /\ Cardinality(LeftOver') \in Nat
          /\ Cardinality(LeftOver') <= Cardinality(LeftOver) + 1
      BY <2>4, <2>5, FS_Subset, FS_CardinalityType
    <2>7. faults' = faults + 1
      BY <2>2 DEF Fault
    <2> QED BY <1>0, <2>6, <2>7 DEF RetireInv
  <1> QED BY <1>1, <1>2

(* A rotation revokes the token it replaces, and every access token left   *)
(* behind by one was paid for by a failed statement, whatever requests,    *)
(* incidents and crashes interleave (token_refresh.go:70-75).              *)
THEOREM RotationsRetire == Spec => []RotationRetiresThePair
PROOF
  <1>1. Init => RetireInv /\ ParentsAreRevoked
    <2>1. Init => LeftOver = {} /\ faults = 0
      BY DEF Init, LeftOver
    <2> QED BY <2>1, FS_EmptySet DEF Init, RetireInv, ParentsAreRevoked
  <1>2. GrantInv /\ RetireInv /\ ParentsAreRevoked /\ [Next]_vars =>
          RetireInv' /\ ParentsAreRevoked'
    BY NextRetireInv, NextParentsAreRevoked
  <1>3. ASSUME GrantInv, RetireInv, ParentsAreRevoked
        PROVE  RotationRetiresThePair
    <2>1. HalfRetired \subseteq LeftOver
      BY DEF HalfRetired, LeftOver
    <2>2. /\ Cardinality(HalfRetired) <= Cardinality(LeftOver)
          /\ Cardinality(HalfRetired) \in Nat /\ Cardinality(LeftOver) \in Nat
      BY <1>3, <2>1, FS_Subset, FS_CardinalityType DEF RetireInv
    <2>3. Cardinality(HalfRetired) <= faults
      BY <1>3, <2>2 DEF RetireInv, GrantInv, TypeInv
    <2> QED BY <1>3, <2>3 DEF RotationRetiresThePair, ParentsAreRevoked
  <1>4. GrantInv /\ RetireInv /\ ParentsAreRevoked => RotationRetiresThePair
    BY <1>3
  <1> QED BY <1>1, <1>2, <1>4, GrantInvHolds, PTL DEF Spec

-----------------------------------------------------------------------------
(* Concurrent redemptions. *)

(* Every token of a grant was inserted by a request of its own, and those  *)
(* that still hold the grant have their insert to come.                    *)
BudgetInv ==
  \A g \in Code \cup RToken :
    /\ IsFiniteSet(RedeemedBy(g))
    /\ Cardinality(RedeemedBy(g)) + Cardinality(Claims(g)) <= Cardinality(Request)

(* A grant without tokens is within its budget whoever redeems it. *)
LEMMA BudgetUntouched ==
  ASSUME IsFiniteSet(Request), NEW T \in SUBSET Request
  PROVE  IsFiniteSet({}) /\ Cardinality({}) + Cardinality(T) <= Cardinality(Request)
PROOF
  <1>1. /\ Cardinality(T) <= Cardinality(Request)
        /\ Cardinality(Request) \in Nat /\ Cardinality(T) \in Nat
    BY FS_Subset, FS_CardinalityType
  <1> QED BY <1>1, FS_EmptySet

(* One token more and one request less. *)
LEMMA BudgetSpent ==
  ASSUME NEW a \in Nat, NEW b \in Nat, NEW c \in Nat, NEW d \in Nat, NEW n \in Nat,
         a + b <= n, c <= a + 1, d <= b - 1
  PROVE  c + d <= n
  OBVIOUS

(* The requests that redeem a spent grant accepted it before it was spent, *)
(* so their number only falls, by one with each token inserted.            *)
LEMMA NextBudgetInv ==
  ASSUME IsFiniteSet(Request), GrantInv, GrantInv', BudgetInv, [Next]_vars
  PROVE  BudgetInv'
PROOF
  <1>1. ASSUME NEW g \in Code \cup RToken, ~Spent(g)
        PROVE  RedeemedBy(g)' = {}
    <2>1. RedeemedBy(g) = {}
      BY <1>1 DEF GrantInv, Lineage, TokensComeFromSpentGrants, RedeemedBy
    <2>2. ASSUME NEW r \in Request, req[r].pc = "createAT"
          PROVE  req[r].cred # g
      BY <1>1, <2>2 DEF GrantInv, Staged
    <2> QED BY <2>1, <2>2, NewAccessTokens DEF RedeemedBy
  <1>2. ASSUME NEW g \in Code \cup RToken, Spent(g)
        PROVE  /\ IsFiniteSet(RedeemedBy(g))'
               /\ (Cardinality(RedeemedBy(g)) + Cardinality(Claims(g)) <= Cardinality(Request))'
    <2>1. Claims(g)' \subseteq Claims(g)
      <3>1. ASSUME NEW r \in Request, req'[r].pc \in BeforeInsert, req'[r].cred = g
            PROVE  req[r].pc \in BeforeInsert /\ req[r].cred = g
        <4>1. Minting(r)'
          BY <3>1 DEF Minting, BeforeInsert
        <4>2. Continued(r)
          BY <1>2, <3>1, <4>1, RedemptionsBeginUnspent
        <4> QED BY <3>1, <4>2 DEF Continued
      <3> QED BY <3>1 DEF Claims
    <2>2. IsFiniteSet(Claims(g)) /\ Claims(g) \subseteq Request
      BY FS_Subset DEF Claims
    <2>3. /\ IsFiniteSet(RedeemedBy(g))
          /\ Cardinality(RedeemedBy(g)) + Cardinality(Claims(g)) <= Cardinality(Request)
      BY <1>2 DEF BudgetInv
    <2>4. /\ Cardinality(RedeemedBy(g)) \in Nat /\ Cardinality(Claims(g)) \in Nat
          /\ Cardinality(Request) \in Nat
      BY <2>2, <2>3, FS_CardinalityType
    <2>5. IsFiniteSet(Claims(g)') /\ Cardinality(Claims(g)') \in Nat
          /\ Cardinality(Claims(g)') <= Cardinality(Claims(g))
      BY <2>1, <2>2, FS_Subset, FS_CardinalityType
    <2>6. CASE RedeemedBy(g)' = RedeemedBy(g)
      BY <2>3, <2>4, <2>5, <2>6
    <2>7. ASSUME NEW r \in Request, req[r].pc = "createAT", req[r].cred = g,
                 RedeemedBy(g)' = RedeemedBy(g) \cup {req[r].new},
                 req'[r].pc \in {"createIDT", "createRT"}
          PROVE  /\ IsFiniteSet(RedeemedBy(g)')
                 /\ Cardinality(RedeemedBy(g)') + Cardinality(Claims(g)')
                      <= Cardinality(Request)
      <3>1. r \in Claims(g) /\ r \notin Claims(g)'
        BY <2>7 DEF Claims, BeforeInsert
      <3>2. Claims(g)' \subseteq Claims(g) \ {r}
        BY <2>1, <3>1
      <3>3. /\ IsFiniteSet(Claims(g) \ {r})
            /\ Cardinality(Claims(g) \ {r}) = Cardinality(Claims(g)) - 1
        BY <2>2, <3>1, FS_RemoveElement
      <3>4. Cardinality(Claims(g)') <= Cardinality(Claims(g)) - 1
        BY <3>2, <3>3, FS_Subset
      <3>5. /\ IsFiniteSet(RedeemedBy(g)') /\ Cardinality(RedeemedBy(g)') \in Nat
            /\ Cardinality(RedeemedBy(g)') <= Cardinality(RedeemedBy(g)) + 1
        <4> DEFINE S == RedeemedBy(g)
                   U == RedeemedBy(g) \cup {req[r].new}
        <4>1. IsFiniteSet(U) /\ Cardinality(U) \in Nat
          BY <2>3, FS_AddElement, FS_CardinalityType
        <4>2. Cardinality(U) = IF req[r].new \in S THEN Cardinality(S) ELSE Cardinality(S) + 1
          BY <2>3, FS_AddElement
        <4>3. Cardinality(U) <= Cardinality(S) + 1
          <5> HIDE DEF S, U
          <5> QED BY <2>4, <4>1, <4>2 DEF S
        <4> QED BY <2>7, <4>1, <4>3
      <3>6. Cardinality(RedeemedBy(g)') + Cardinality(Claims(g)') <= Cardinality(Request)
        BY <2>3, <2>4, <2>5, <3>4, <3>5, BudgetSpent
      <3> QED BY <3>5, <3>6
    <2>8. CASE UNCHANGED at
      <3>1. RedeemedBy(g)' = RedeemedBy(g)
        BY <2>8 DEF RedeemedBy
      <3> QED BY <2>6, <3>1
    <2>9. ASSUME NEW r \in Request, req[r].pc = "createAT",
                 DOMAIN at' = DOMAIN at \cup {req[r].new},
                 req[r].new \notin DOMAIN at,
                 \A t \in DOMAIN at : at'[t] = at[t],
                 at'[req[r].new].grant = req[r].cred,
                 \E p \in {"createIDT", "createRT"} : Goto(r, p)
          PROVE  /\ IsFiniteSet(RedeemedBy(g)')
                 /\ Cardinality(RedeemedBy(g)') + Cardinality(Claims(g)')
                      <= Cardinality(Request)
      <3>1. CASE req[r].cred = g
        <4>1. RedeemedBy(g)' = RedeemedBy(g) \cup {req[r].new}
          BY <2>9, <3>1 DEF RedeemedBy
        <4>2. req'[r].pc \in {"createIDT", "createRT"}
          BY <2>9, GotoMoves
        <4> QED BY <2>7, <2>9, <3>1, <4>1, <4>2
      <3>2. CASE req[r].cred # g
        <4>1. RedeemedBy(g)' = RedeemedBy(g)
          BY <2>9, <3>2 DEF RedeemedBy
        <4> QED BY <2>6, <4>1
      <3> QED BY <3>1, <3>2
    <2> QED BY <2>8, <2>9, NewAccessTokens
  <1>3. ASSUME NEW g \in Code \cup RToken, ~Spent(g)
        PROVE  /\ IsFiniteSet(RedeemedBy(g))'
               /\ (Cardinality(RedeemedBy(g)) + Cardinality(Claims(g)) <= Cardinality(Request))'
    <2>1. RedeemedBy(g)' = {} /\ Claims(g)' \in SUBSET Request
      BY <1>1, <1>3 DEF Claims
    <2> QED BY <2>1, BudgetUntouched
  <1> QED BY <1>2, <1>3 DEF BudgetInv

(* However many requests present one code or one refresh token at the same *)
(* moment, it is redeemed at most once by each goroutine                   *)
(* (token_authcode.go:57, token_refresh.go:52).                            *)
THEOREM RedemptionsAreBounded ==
  ASSUME IsFiniteSet(Request)
  PROVE  Spec => []RedeemedOncePerRequest
PROOF
  <1>1. Init => BudgetInv
    <2>1. ASSUME Init, NEW g PROVE RedeemedBy(g) = {} /\ Claims(g) \in SUBSET Request
      BY <2>1 DEF Init, RedeemedBy, Claims
    <2> QED BY <2>1, BudgetUntouched DEF BudgetInv
  <1>2. GrantInv /\ GrantInv' /\ BudgetInv /\ [Next]_vars => BudgetInv'
    BY NextBudgetInv
  <1>3. BudgetInv => RedeemedOncePerRequest
    <2>1. ASSUME BudgetInv, NEW g \in Code \cup RToken
          PROVE  Cardinality(RedeemedBy(g)) <= Cardinality(Request)
      <3>1. /\ IsFiniteSet(Claims(g))
            /\ Cardinality(Claims(g)) \in Nat /\ Cardinality(Request) \in Nat
        BY FS_Subset, FS_CardinalityType DEF Claims
      <3>2. Cardinality(RedeemedBy(g)) \in Nat
        BY <2>1, FS_CardinalityType DEF BudgetInv
      <3> QED BY <2>1, <3>1, <3>2 DEF BudgetInv
    <2> QED BY <2>1 DEF RedeemedOncePerRequest
  <1> QED BY <1>1, <1>2, <1>3, GrantInvHolds, PTL DEF Spec

-----------------------------------------------------------------------------
(* Single use. *)

(* Nothing is issued for a grant before it is spent. *)
LEMMA UnspentUnredeemed ==
  ASSUME GrantInv, [Next]_vars, NEW g \in Code \cup RToken, ~Spent(g)
  PROVE  RedeemedBy(g) = {} /\ RedeemedBy(g)' = {}
PROOF
  <1>1. RedeemedBy(g) = {}
    BY DEF GrantInv, Lineage, TokensComeFromSpentGrants, RedeemedBy
  <1>2. ASSUME NEW r \in Request, req[r].pc = "createAT"
        PROVE  req[r].cred # g
    BY <1>2 DEF GrantInv, Staged
  <1> QED BY <1>1, <1>2, NewAccessTokens DEF RedeemedBy

(* A request claims a grant it claimed before, or has just found unspent. *)
LEMMA ClaimsBegin ==
  ASSUME GrantInv, [Next]_vars, NEW g \in Code \cup RToken, NEW r \in Claims(g)', r \notin Claims(g)
  PROVE  Accept(r) /\ ~Spent(g) /\ req'[r].pc \in {"markUsed", "rotate"}
PROOF
  <1>1. r \in Request /\ req'[r].pc \in BeforeInsert /\ req'[r].cred = g
    BY DEF Claims
  <1>2. Minting(r)'
    BY <1>1 DEF Minting, BeforeInsert
  <1>3. ~Continued(r)
    BY <1>1 DEF Continued, Claims
  <1>4. ~Spent(g)
    BY <1>1, <1>2, <1>3, RedemptionsBeginUnspent
  <1>5. req'[r] # Idle
    BY <1>1 DEF BeforeInsert
  <1>6. ~Continue(r)
    BY <1>1, <1>5, ContinuedWith DEF Claims, BeforeInsert
  <1>7. req'[r] # req[r]
    BY <1>1 DEF Claims
  <1>8. Accept(r)
    BY <1>1, <1>5, <1>6, <1>7, RequestMoves
  <1> QED BY <1>1, <1>4, <1>8, AcceptedWith DEF BeforeInsert

(* Two requests that claim one unspent grant have read it, and no more. *)
LEMMA StaysSingle ==
  ASSUME GrantInv, [Next]_vars, NEW g \in Code \cup RToken, SingleUse(g), ~Racing(g)'
  PROVE  SingleUse(g)'
PROOF
  <1>1. CASE ~Spent(g)
    <2>1. RedeemedBy(g)' = {}
      BY <1>1, UnspentUnredeemed
    <2>2. ASSUME NEW r \in Claims(g)', NEW o \in Claims(g)', r # o, r \notin Claims(g)
          PROVE  FALSE
      <3>1. r \in Request /\ o \in Request
        BY <2>2 DEF Claims
      <3>2. Accept(r) /\ req'[r].pc \in {"markUsed", "rotate"}
        BY <2>2, ClaimsBegin
      <3>3. req'[o] = req[o]
        BY <2>2, <3>1, <3>2, AcceptMovesOne
      <3>4. req[o].pc \in BeforeInsert /\ req[o].cred = g
        BY <2>2, <3>3 DEF Claims
      <3>5. req'[o].pc \in {"markUsed", "rotate"}
        BY <1>1, <3>1, <3>3, <3>4 DEF BeforeInsert, GrantInv, Staged
      <3> QED BY <2>2, <3>2, <3>5 DEF Racing
    <2>3. ASSUME NEW r \in Claims(g)', NEW o \in Claims(g)'
          PROVE  r = o
      <3>1. CASE r \in Claims(g) /\ o \in Claims(g)
        BY <3>1 DEF SingleUse
      <3> QED BY <2>2, <2>3, <3>1
    <2> QED BY <2>1, <2>3 DEF SingleUse
  <1>2. CASE Spent(g)
    <2>1. Claims(g)' \subseteq Claims(g)
      BY <1>2, ClaimsBegin
    <2>2. CASE UNCHANGED at
      <3>1. RedeemedBy(g)' = RedeemedBy(g)
        BY <2>2 DEF RedeemedBy
      <3> QED BY <2>1, <3>1 DEF SingleUse
    <2>3. ASSUME NEW r \in Request, req[r].pc = "createAT",
                 DOMAIN at' = DOMAIN at \cup {req[r].new},
                 \A t \in DOMAIN at : at'[t] = at[t],
                 at'[req[r].new].grant = req[r].cred,
                 \E p \in {"createIDT", "createRT"} : Goto(r, p)
          PROVE  SingleUse(g)'
      <3>1. CASE req[r].cred = g
        <4>1. r \in Claims(g)
          BY <2>3, <3>1 DEF Claims, BeforeInsert
        <4>2. Claims(g) = {r} /\ RedeemedBy(g) = {}
          BY <4>1 DEF SingleUse
        <4>3. req'[r].pc \in {"createIDT", "createRT"}
          BY <2>3, GotoMoves
        <4>4. r \notin Claims(g)'
          BY <4>3 DEF Claims, BeforeInsert
        <4>5. Claims(g)' = {}
          BY <2>1, <4>2, <4>4
        <4>6. RedeemedBy(g)' \subseteq {req[r].new}
          BY <2>3, <4>2 DEF RedeemedBy
        <4> QED BY <4>5, <4>6 DEF SingleUse
      <3>2. CASE req[r].cred # g
        <4>1. RedeemedBy(g)' = RedeemedBy(g)
          BY <2>3, <3>2 DEF RedeemedBy
        <4> QED BY <2>1, <4>1 DEF SingleUse
      <3> QED BY <3>1, <3>2
    <2> QED BY <2>2, <2>3, NewAccessTokens
  <1> QED BY <1>1, <1>2

(* A code or refresh token loses single use in one way only: two requests  *)
(* both read its row before either writes it (token_authcode.go:57-89,     *)
(* token_refresh.go:52-70).                                                *)
THEOREM OnlyRacesBreakSingleUse == Spec => OnlyRacesRedeemTwice
PROOF
  <1>1. GrantInv /\ [Next]_vars =>
          [\A g \in Code \cup RToken : SingleUse(g) => SingleUse(g)' \/ Racing(g)']_vars
    <2>1. ASSUME GrantInv, UNCHANGED vars, NEW g, SingleUse(g)
          PROVE  SingleUse(g)'
      BY <2>1 DEF vars, SingleUse, RedeemedBy, Claims
    <2> QED BY <2>1, StaysSingle
  <1> QED BY <1>1, GrantInvHolds, PTL DEF Spec, OnlyRacesRedeemTwice

SomeRace == \E g \in Code \cup RToken : Racing(g)

(* What the design documents say of codes and chains, a code redeemed once *)
(* and a refresh token with one successor at most, holds in every          *)
(* behaviour in which no two requests race for one row.                    *)
THEOREM RacesAloneBreakThePromises ==
  Spec => [](CodesRedeemedOnce /\ ChainsAreLinear) \/ <>SomeRace
PROOF
  <1> DEFINE AllSingle == \A g \in Code \cup RToken : SingleUse(g)
  <1>1. Init => AllSingle
    BY DEF Init, SingleUse, RedeemedBy, Claims, BeforeInsert
  <1>2. GrantInv /\ AllSingle /\ [Next]_vars => AllSingle' \/ SomeRace'
    <2> SUFFICES ASSUME GrantInv, AllSingle, [Next]_vars, ~SomeRace'
                 PROVE  AllSingle'
      OBVIOUS
    <2> QED BY StaysSingle DEF SomeRace
  <1>3. GrantInv /\ AllSingle => CodesRedeemedOnce /\ ChainsAreLinear
    <2> SUFFICES ASSUME GrantInv, AllSingle
                 PROVE  CodesRedeemedOnce /\ ChainsAreLinear
      OBVIOUS
    <2>1. ASSUME NEW t \in DOMAIN at, NEW u \in DOMAIN at, at[t].grant = at[u].grant
          PROVE  t = u
      <3>1. at[t].grant \in Code \cup RToken
        BY DEF GrantInv, TypeInv, TablesOK
      <3>2. t \in RedeemedBy(at[t].grant) /\ u \in RedeemedBy(at[t].grant)
        BY <2>1 DEF RedeemedBy
      <3> QED BY <3>1, <3>2 DEF SingleUse
    <2>2. CodesRedeemedOnce
      BY <2>1 DEF CodesRedeemedOnce
    <2>3. ASSUME NEW x \in DOMAIN rt, NEW y \in DOMAIN rt,
                 rt[x].parent = rt[y].parent, rt[x].parent # None
          PROVE  x = y
      <3>1. RefreshTokensArePaired
        BY DEF GrantInv, Lineage
      <3>2. at[rt[x].token].grant = at[rt[y].token].grant
        BY <2>3, <3>1 DEF RefreshTokensArePaired
      <3>3. rt[x].token = rt[y].token
        BY <2>1, <3>1, <3>2 DEF RefreshTokensArePaired
      <3> QED BY <3>1, <3>3 DEF RefreshTokensArePaired
    <2> QED BY <2>2, <2>3 DEF ChainsAreLinear
  <1> HIDE DEF AllSingle
  <1> QED BY <1>1, <1>2, <1>3, GrantInvHolds, PTL DEF Spec

-----------------------------------------------------------------------------
(* Reuse detection. *)

(* Following the history of a chain leads from any access token, through   *)
(* the credential it was issued against, to one used code.                 *)
OriginsFollow ==
  \A t \in DOMAIN at : /\ at[t].grant \in DOMAIN code \cup DOMAIN rt
                       /\ at[t].origin = OriginOf(at[t].grant)
                       /\ at[t].origin \in used

(* The code a chain began with is read from columns that never change. *)
LEMMA OriginOfStable ==
  ASSUME GrantInv, GrantInv', Grow, NEW g \in DOMAIN code \cup DOMAIN rt
  PROVE  OriginOf(g)' = OriginOf(g)
  BY KeysAreDisjoint DEF GrantInv, TypeInv, TablesOK, ReferencesHold, Grow, OriginOf

(* An access token carries on the chain of the credential it is issued for. *)
LEMMA NewTokenOrigins ==
  ASSUME GrantInv, [Next]_vars, NEW t \in DOMAIN at', t \notin DOMAIN at
  PROVE  \E r \in Request : /\ req[r].pc = "createAT"
                            /\ at'[t].grant = req[r].cred
                            /\ at'[t].origin = OriginOf(req[r].cred)
PROOF
  <1>1. PICK r \in Request : CodeGrantCreateAT(r) \/ RefreshCreateAT(r)
    BY Inserts
  <1>2. CASE CodeGrantCreateAT(r)
    <2>1. /\ req[r].pc = "createAT" /\ req[r].cred \in Code
          /\ at'[t].grant = req[r].cred /\ at'[t].origin = req[r].cred
      BY <1>2 DEF CodeGrantCreateAT, Insert
    <2>2. OriginOf(req[r].cred) = req[r].cred
      BY <2>1, CredentialsHaveRows DEF OriginOf
    <2> QED BY <2>1, <2>2
  <1>3. CASE RefreshCreateAT(r)
    BY <1>3 DEF RefreshCreateAT, Insert
  <1> QED BY <1>1, <1>2, <1>3

LEMMA NextOriginsFollow ==
  ASSUME GrantInv, GrantInv', OriginsFollow, [Next]_vars
  PROVE  OriginsFollow'
PROOF
  <1>0. Grow
    BY NextGrows
  <1>1. ASSUME NEW t \in DOMAIN at', NEW g, at'[t].grant = g
        PROVE  /\ g \in DOMAIN code' \cup DOMAIN rt'
               /\ at'[t].origin = OriginOf(g)'
               /\ at'[t].origin \in used'
    <2>1. CASE t \in DOMAIN at
      BY <1>0, <1>1, <2>1, OriginOfStable DEF OriginsFollow, Grow
    <2>2. CASE t \notin DOMAIN at
      <3>1. PICK r \in Request : req[r].pc = "createAT" /\ g = req[r].cred
                                /\ at'[t].origin = OriginOf(g)
        BY <1>1, <2>2, NewTokenOrigins
      <3>2. g \in DOMAIN code \cup DOMAIN rt
        BY <3>1, CredentialsHaveRows
      <3>3. OriginOf(g) \in used
        <4>1. g \in DOMAIN code => g \in used /\ OriginOf(g) = g
          BY <3>1, KeysAreDisjoint DEF GrantInv, Staged, Spent, TypeInv, TablesOK, OriginOf
        <4>2. g \notin DOMAIN code => OriginOf(g) \in used
          BY <3>2 DEF GrantInv, TypeInv, TablesOK, ReferencesHold, OriginsFollow, OriginOf
        <4> QED BY <4>1, <4>2
      <3> QED BY <1>0, <3>1, <3>2, <3>3, OriginOfStable DEF Grow
    <2> QED BY <2>1, <2>2
  <1> QED BY <1>1 DEF OriginsFollow

(* A closed chain stays closed, whatever the requests do. *)
LEMMA ClosedChainsStayClosed ==
  ASSUME GrantInv, GrantInv', OriginsFollow, [Next]_vars, NEW o \in used, ChainClosed(o)
  PROVE  ChainClosed(o)'
PROOF
  <1>0. Grow
    BY NextGrows
  <1>1. ASSUME NEW t \in DOMAIN at', at'[t].origin = o
        PROVE  t \in Issued(o)
    <2>1. CASE t \notin DOMAIN at
      <3>1. PICK r \in Request : req[r].pc = "createAT" /\ OriginOf(req[r].cred) = o
        BY <1>1, <2>1, NewTokenOrigins
      <3> QED BY <3>1 DEF ChainClosed, CarriedOn, Minting
    <2> QED BY <1>0, <1>1, <2>1 DEF Issued, Grow
  <1>2. ASSUME NEW y \in DOMAIN rt', rt'[y].token \in Issued(o)
        PROVE  y \in revoked'
    <2>1. CASE y \in DOMAIN rt
      BY <1>0, <1>2, <2>1 DEF ChainClosed, Grow
    <2>2. CASE y \notin DOMAIN rt
      <3>1. PICK r \in Request : CreateRT(r)
        BY <2>2, Inserts
      <3>2. req[r].pc = "createRT" /\ rt'[y].token = req[r].new
        BY <2>2, <3>1 DEF CreateRT, Insert, NewRTokenRow
      <3>3. OriginOf(req[r].cred) = o
        BY <1>2, <3>2 DEF GrantInv, Staged, OriginsFollow, Issued
      <3> QED BY <3>2, <3>3 DEF ChainClosed, CarriedOn, Minting
    <2> QED BY <2>1, <2>2
  <1>3. ASSUME NEW r \in Request, req'[r].pc \in MintingPC, NEW g, req'[r].cred = g
        PROVE  OriginOf(g)' # o
    <2>1. CASE req[r].pc \in MintingPC /\ g = req[r].cred
      BY <1>0, <2>1, CredentialsHaveRows, OriginOfStable DEF ChainClosed, CarriedOn, Minting
    <2>2. CASE g \in DOMAIN code /\ g \notin used
      BY <1>0, <2>2, OriginOfStable DEF OriginOf
    <2>3. CASE g \in DOMAIN rt /\ RefreshAcceptable(g)
      <3>1. g \notin DOMAIN code /\ rt[g].token \in DOMAIN at
        BY <2>3, KeysAreDisjoint DEF GrantInv, TypeInv, TablesOK, ReferencesHold
      <3>2. rt[g].token \notin Issued(o)
        BY <2>3 DEF ChainClosed, RefreshAcceptable
      <3> QED BY <1>0, <2>3, <3>1, <3>2, OriginOfStable DEF OriginOf, Issued
    <2> QED BY <1>3, <2>1, <2>2, <2>3, MintingBegins
  <1>4. \A t \in Issued(o) : t \in revoked'
    BY <1>0 DEF ChainClosed, Grow
  <1> QED BY <1>1, <1>2, <1>3, <1>4 DEF ChainClosed, CarriedOn, Issued, Minting

(* Unless a statement fails, a request that handles a reuse or a replay    *)
(* runs its two statements.                                                *)
LEMMA HandlingMoves ==
  ASSUME GrantInv, [Next]_vars, ~Fault, NEW r \in Request,
         req[r].pc \in {"revokeATs", "revokeRTs"}
  PROVE  req'[r] = req[r] \/ RevokeSessionATs(r) \/ RevokeSessionRTs(r)
PROOF
  <1>1. ~Accept(r)
    BY AcceptedWith
  <1>2. Continue(r) => RevokeSessionATs(r) \/ RevokeSessionRTs(r)
    BY DEF Continue, CreateCode, MarkAsUsed, CodeGrantCreateAT, CreateIDToken, Rotate, RetireAT,
           RefreshCreateAT, CreateRT, MarkReuse, RevokePairedAT
  <1> QED BY <1>1, <1>2, RequestMoves

(* The tokens of a chain are those of one session. *)
LEMMA ChainsInSession ==
  ASSUME GrantInv, NEW x \in DOMAIN rt
  PROVE  /\ \A t \in Issued(OriginOf(x)) : at[t].session = SessionOf(x)
         /\ \A y \in DOMAIN rt : rt[y].token \in Issued(OriginOf(x)) => rt[y].session = SessionOf(x)
PROOF
  <1>1. OriginOf(x) = at[rt[x].token].origin /\ SessionOf(x) = rt[x].session
    BY SessionOfRow DEF OriginOf
  <1>2. rt[x].token \in DOMAIN at /\ rt[x].session = at[rt[x].token].session
    BY DEF GrantInv, Lineage, RefreshTokensArePaired
  <1>3. \A t \in Issued(OriginOf(x)) : at[t].session = SessionOf(x)
    BY <1>1, <1>2 DEF GrantInv, Lineage, ChainsStayInTheirSession, Issued
  <1> QED BY <1>3 DEF GrantInv, Lineage, RefreshTokensArePaired

(* Only refresh tokens that exist are marked as reused. *)
ReusedHaveRows == reused \subseteq DOMAIN rt

LEMMA NextReusedHaveRows ==
  ASSUME GrantInv, ReusedHaveRows, [Next]_vars
  PROVE  ReusedHaveRows'
PROOF
  <1>0. Grow
    BY NextGrows
  <1>1. ASSUME NEW r \in Request, MarkReuse(r)
        PROVE  reused' \subseteq DOMAIN rt
    <2>1. req[r].pc = "markReuse" /\ reused' \subseteq reused \cup {req[r].cred}
      BY <1>1 DEF MarkReuse
    <2>2. req[r].cred \in DOMAIN rt
      BY <2>1 DEF GrantInv, TypeInv, RequestsOK, Loaded
    <2> QED BY <2>1, <2>2 DEF ReusedHaveRows
  <1> QED BY <1>0, <1>1, Inserts DEF ReusedHaveRows, Grow

(* A request that is taking a chain down which nobody carries on closes it *)
(* with its last statement, whatever the others do in between.             *)
LEMMA HandlingGoesOn ==
  ASSUME GrantInv, GrantInv', OriginsFollow, [Next]_vars, ~Fault,
         NEW x \in DOMAIN rt, NEW o, o = OriginOf(x), o = OriginOf(x)',
         SessionOf(x)' = SessionOf(x),
         ~CarriedOn(o), NEW r \in Request, HandlingReuse(r, x)
  PROVE  ChainClosed(o)' \/ HandlingReuse(r, x)'
PROOF
  <1>0. Grow
    BY NextGrows
  <1>1. req[r].pc \in {"revokeATs", "revokeRTs"} /\ SessionOf(req[r].cred) = SessionOf(x)
    BY DEF HandlingReuse
  <1>2. req[r].cred \in DOMAIN code \cup DOMAIN rt
    BY <1>1 DEF GrantInv, TypeInv, RequestsOK, Loaded
  <1>3. Issued(o)' = Issued(o)
    <2>1. ASSUME NEW t \in DOMAIN at', at'[t].origin = o
          PROVE  t \in DOMAIN at
      <3>1. CASE t \notin DOMAIN at
        <4>1. PICK q \in Request : req[q].pc = "createAT" /\ OriginOf(req[q].cred) = o
          BY <2>1, <3>1, NewTokenOrigins
        <4> QED BY <4>1 DEF CarriedOn, Minting
      <3> QED BY <3>1
    <2> QED BY <1>0, <2>1 DEF Issued, Grow
  <1>4. ASSUME req'[r].cred = req[r].cred, NEW g, g = req[r].cred
        PROVE  SessionOf(g)' = SessionOf(x)'
    BY <1>0, <1>1, <1>2, <1>4, SessionOfStable DEF GrantInv
  <1>5. CASE req'[r] = req[r]
    <2>1. SessionOf(req[r].cred)' = SessionOf(x)'
      BY <1>4, <1>5
    <2>2. req[r].pc = "revokeRTs" => Issued(o)' \subseteq revoked'
      BY <1>0, <1>3 DEF HandlingReuse, Grow
    <2> QED BY <1>1, <1>5, <2>1, <2>2 DEF HandlingReuse
  <1>6. CASE RevokeSessionATs(r)
    <2>1. req'[r].pc = "revokeRTs" /\ req'[r].cred = req[r].cred
      BY <1>6, GotoMoves DEF RevokeSessionATs
    <2>2. revoked' = revoked \cup AccessTokensOf({SessionOf(req[r].cred)})
      BY <1>6 DEF RevokeSessionATs, BestEffortRevoke
    <2>3. Issued(o)' \subseteq revoked'
      BY <1>1, <1>3, <2>2, ChainsInSession DEF AccessTokensOf, Issued
    <2>4. SessionOf(req[r].cred)' = SessionOf(x)'
      BY <1>4, <2>1
    <2> QED BY <2>1, <2>3, <2>4 DEF HandlingReuse
  <1>7. CASE RevokeSessionRTs(r)
    <2>1. req[r].pc = "revokeRTs" /\ Finish(r) /\ UNCHANGED rt
      BY <1>7 DEF RevokeSessionRTs, tables
    <2>2. revoked' = revoked \cup RefreshTokensOf({SessionOf(req[r].cred)})
      BY <1>7 DEF RevokeSessionRTs, BestEffortRevoke
    <2>3. Issued(o) \subseteq revoked'
      BY <1>0, <2>1 DEF HandlingReuse, Grow
    <2>4. \A y \in DOMAIN rt : rt[y].token \in Issued(o) => y \in revoked'
      BY <1>1, <2>2, ChainsInSession DEF RefreshTokensOf
    <2>5. ASSUME NEW q \in Request, req'[q].pc \in MintingPC, NEW g, g = req'[q].cred
          PROVE  OriginOf(g)' # o
      <3>1. q # r /\ req'[q] = req[q]
        BY <2>1, <2>5, FinishMoves
      <3>2. OriginOf(g) # o
        BY <2>5, <3>1 DEF CarriedOn, Minting
      <3>3. g \in DOMAIN code \cup DOMAIN rt
        BY <2>5, <3>1, CredentialsHaveRows
      <3> QED BY <1>0, <3>2, <3>3, OriginOfStable
    <2>6. ~CarriedOn(o)'
      BY <2>5 DEF CarriedOn, Minting
    <2>7. \A t \in Issued(o)' : ({t} \cup {y \in DOMAIN rt : rt[y].token = t})' \subseteq revoked'
      BY <1>3, <2>1, <2>3, <2>4
    <2> QED BY <2>6, <2>7 DEF ChainClosed
  <1> QED BY <1>1, <1>5, <1>6, <1>7, HandlingMoves

(* A reuse that is being handled, or has been, stays so. *)
LEMMA HandledStays ==
  ASSUME GrantInv, GrantInv', OriginsFollow, ReusedHaveRows, [Next]_vars, NEW x \in RToken,
         Handled(x), ~(x \in reused /\ CarriedOn(OriginOf(x))), ~Fault
  PROVE  Handled(x)'
PROOF
  <1>0. Grow
    BY NextGrows
  <1>1. CASE x \in reused' /\ x \notin reused
    <2>1. PICK r \in Request : MarkReuse(r)
      BY <1>1, Inserts
    <2>2. req[r].pc = "markReuse" /\ x = req[r].cred /\ Goto(r, "revokeATs")
      BY <1>1, <2>1 DEF MarkReuse
    <2>3. req'[r].pc = "revokeATs" /\ req'[r].cred = x
      BY <2>2, GotoMoves
    <2> QED BY <2>3 DEF Handled, HandlingReuse
  <1>2. ASSUME x \in reused, NEW o, o = OriginOf(x)
        PROVE  Handled(x)'
    <2>1. x \in DOMAIN rt
      BY <1>2 DEF ReusedHaveRows
    <2>2. OriginOf(x)' = o /\ SessionOf(x)' = SessionOf(x)
      BY <1>0, <1>2, <2>1, OriginOfStable, SessionOfStable DEF GrantInv
    <2>3. CASE ChainClosed(o)
      <3>1. o \in used
        BY <1>2, <2>1, SessionOfRow DEF GrantInv, TypeInv, TablesOK, ReferencesHold, OriginsFollow, OriginOf
      <3>2. ChainClosed(o)'
        BY <2>3, <3>1, ClosedChainsStayClosed
      <3> QED BY <2>2, <3>2 DEF Handled, ChainClosed
    <2>4. ASSUME NEW r \in Request, HandlingReuse(r, x)
          PROVE  Handled(x)'
      <3>1. ChainClosed(o)' \/ HandlingReuse(r, x)'
        BY <1>2, <2>1, <2>2, <2>4, HandlingGoesOn
      <3>2. ChainClosed(o)' => ChainClosed(OriginOf(x))'
        BY <2>2 DEF ChainClosed
      <3> QED BY <3>1, <3>2 DEF Handled
    <2> QED BY <1>2, <2>3, <2>4 DEF Handled
  <1> QED BY <1>1, <1>2 DEF Handled

(* A reused refresh token's chain is being taken down or closed for good,  *)
(* unless a rotation of that very chain is in flight or a statement fails  *)
(* (token_refresh.go:52-63).                                               *)
THEOREM ReuseIsFollowedThrough == Spec => ReuseClosesTheChain
PROOF
  <1>1. Init => OriginsFollow /\ ReusedHaveRows
    BY DEF Init, OriginsFollow, ReusedHaveRows
  <1>2. GrantInv /\ GrantInv' /\ OriginsFollow /\ ReusedHaveRows /\ [Next]_vars =>
          OriginsFollow' /\ ReusedHaveRows'
    BY NextOriginsFollow, NextReusedHaveRows
  <1>3. GrantInv /\ GrantInv' /\ OriginsFollow /\ ReusedHaveRows /\ [Next]_vars =>
          [\A x \in RToken : Handled(x) =>
             Handled(x)' \/ (x \in reused /\ CarriedOn(OriginOf(x))) \/ faults' > faults]_vars
    <2>1. GrantInv /\ Fault => faults' > faults
      BY DEF Fault, GrantInv, TypeInv
    <2> QED BY <2>1, HandledStays
  <1> QED BY <1>1, <1>2, <1>3, GrantInvHolds, PTL DEF Spec, ReuseClosesTheChain

SomeReuseOutrun == \E x \in reused : CarriedOn(OriginOf(x))

(* The promise of the documents, that nothing of the chain is usable once  *)
(* a reuse has been handled, holds in every behaviour in which no chain is *)
(* rotated while the reuse of one of its tokens is already known.          *)
THEOREM OutrunAloneBreaksReuseDetection ==
  Spec => []ReuseKillsTheChain \/ <>SomeReuseOutrun
PROOF
  <1> DEFINE ReuseInv == faults = 0 => \A x \in RToken : Handled(x)
  <1>1. Init => OriginsFollow /\ ReusedHaveRows /\ ReuseInv
    BY DEF Init, OriginsFollow, ReusedHaveRows, Handled
  <1>2. GrantInv /\ GrantInv' /\ OriginsFollow /\ ReusedHaveRows /\ [Next]_vars =>
          OriginsFollow' /\ ReusedHaveRows'
    BY NextOriginsFollow, NextReusedHaveRows
  <1>3. /\ GrantInv /\ GrantInv' /\ OriginsFollow /\ ReusedHaveRows /\ ReuseInv /\ [Next]_vars
        => ReuseInv' \/ SomeReuseOutrun
    <2> SUFFICES ASSUME GrantInv, GrantInv', OriginsFollow, ReusedHaveRows, ReuseInv, [Next]_vars,
                        ~SomeReuseOutrun, faults' = 0, NEW x \in RToken
                 PROVE  Handled(x)'
      OBVIOUS
    <2>1. faults = 0 /\ ~Fault
      BY FaultsStay DEF GrantInv, TypeInv, Fault
    <2> QED BY <2>1, HandledStays DEF SomeReuseOutrun
  <1>4. GrantInv /\ ReuseInv => ReuseKillsTheChain
    <2> SUFFICES ASSUME GrantInv, ReuseInv PROVE ReuseKillsTheChain
      OBVIOUS
    <2>1. reused \subseteq RToken
      BY DEF GrantInv, TypeInv, TablesOK
    <2> QED BY <2>1 DEF Handled, ReuseKillsTheChain, ChainClosed, Issued, HandlingReuse
  <1> HIDE DEF ReuseInv
  <1> QED BY <1>1, <1>2, <1>3, <1>4, GrantInvHolds, PTL DEF Spec

-----------------------------------------------------------------------------
(* Liveness.  A fair scheduler runs what can be run; that a handler which  *)
(* has started always can is HandlersNeverWait, the one premise about      *)
(* ENABLED, which TLC evaluates in every state of an instance.             *)

(* How many statements a handler still has before it, at most. *)
StepsLeft(r) ==
  CASE req[r].pc = "idle" -> 0
    [] req[r].pc \in {"createCode", "createRT", "revokeRTs", "revokePair"} -> 1
    [] req[r].pc \in {"createIDT", "revokeATs"} -> 2
    [] req[r].pc \in {"createAT", "markReuse"} -> 3
    [] req[r].pc \in {"markUsed", "retireAT"} -> 4
    [] req[r].pc = "rotate" -> 5

LEMMA StepsAreCounted ==
  ASSUME GrantInv, NEW r \in Request
  PROVE  StepsLeft(r) \in 0..5 /\ (StepsLeft(r) = 0 <=> req[r].pc = "idle")
PROOF
  <1>1. req[r].pc \in PC
    BY DEF GrantInv, TypeInv, RequestsOK
  <1> QED BY <1>1 DEF StepsLeft

(* A statement brings a handler nearer to its end, and nothing that others *)
(* do leads it back.                                                       *)
LEMMA StepsDecrease ==
  ASSUME GrantInv, GrantInv', NEW r \in Request, Continue(r)
  PROVE  StepsLeft(r)' < StepsLeft(r)
PROOF
  <1>1. req[r].pc # "idle"
    BY DEF Continue, CreateCode, MarkAsUsed, CodeGrantCreateAT, CreateIDToken, Rotate, RetireAT,
           RefreshCreateAT, CreateRT, MarkReuse, RevokeSessionATs, RevokeSessionRTs, RevokePairedAT
  <1>2. StepsLeft(r) \in 1..5
    BY <1>1, StepsAreCounted
  <1>3. CASE req'[r] = Idle
    <2>1. StepsLeft(r)' = 0
      BY <1>3 DEF StepsLeft
    <2> QED BY <1>2, <2>1
  <1>4. CASE \/ req[r].pc = "markUsed" /\ req'[r].pc = "createAT"
             \/ req[r].pc = "createAT" /\ req'[r].pc \in {"createIDT", "createRT"}
             \/ req[r].pc = "createIDT" /\ req'[r].pc = "createRT"
             \/ req[r].pc = "rotate" /\ req'[r].pc = "retireAT"
             \/ req[r].pc = "retireAT" /\ req'[r].pc = "createAT"
             \/ req[r].pc = "markReuse" /\ req'[r].pc = "revokeATs"
             \/ req[r].pc = "revokeATs" /\ req'[r].pc = "revokeRTs"
    BY <1>4 DEF StepsLeft
  <1> QED BY <1>3, <1>4, ContinuedWith

LEMMA StepsNeverIncrease ==
  ASSUME GrantInv, GrantInv', [Next]_vars, NEW r \in Request, req[r].pc # "idle"
  PROVE  StepsLeft(r)' = StepsLeft(r) \/ StepsLeft(r)' < StepsLeft(r)
PROOF
  <1>1. StepsLeft(r) \in 1..5
    BY StepsAreCounted
  <1>2. CASE req'[r] = req[r]
    BY <1>2 DEF StepsLeft
  <1>3. CASE req'[r] = Idle
    <2>1. StepsLeft(r)' = 0
      BY <1>3 DEF StepsLeft
    <2> QED BY <1>1, <2>1
  <1>4. CASE Continue(r)
    BY <1>4, StepsDecrease
  <1>5. ~Accept(r)
    BY AcceptedWith
  <1> QED BY <1>2, <1>3, <1>4, <1>5, RequestMoves

(* What a fair scheduler and a handler that never waits amount to. *)
Progress(r) ==
  /\ []GrantInv /\ [][Next]_vars
  /\ []<>(req[r].pc = "idle") \/ []<><<Continue(r)>>_vars

LEMMA HandlersRunOn ==
  ASSUME NEW r \in Request
  PROVE  Spec /\ Scheduled(r) /\ []CanContinue(r) => Progress(r)
PROOF
  <1>1. req[r].pc = "idle" \/ req[r].pc # "idle"
    OBVIOUS
  <1> QED BY <1>1, GrantInvHolds, PTL DEF Spec, Scheduled, CanContinue, Progress

LEMMA FairHandlersRunOn ==
  ASSUME NEW r \in Request
  PROVE  FairSpec /\ []HandlersNeverWait => Progress(r)
PROOF
  <1>1. HandlersNeverWait => CanContinue(r)
    BY DEF HandlersNeverWait
  <1>2. FairSpec => Spec /\ Scheduled(r)
    BY DEF FairSpec, Fairness
  <1> QED BY <1>1, <1>2, HandlersRunOn, PTL

GetsNearer(r, n) == StepsLeft(r) = n ~> StepsLeft(r) < n

LEMMA OneStepNearer ==
  ASSUME NEW r \in Request, NEW n \in 1..5
  PROVE  Progress(r) => GetsNearer(r, n)
PROOF
  <1>1. GrantInv /\ StepsLeft(r) = n => ~(req[r].pc = "idle")
    BY StepsAreCounted
  <1>2. GrantInv /\ GrantInv' /\ [Next]_vars /\ StepsLeft(r) = n
          => (StepsLeft(r) = n)' \/ (StepsLeft(r) < n)'
    BY <1>1, StepsNeverIncrease
  <1>3. GrantInv /\ GrantInv' /\ <<Continue(r)>>_vars /\ StepsLeft(r) = n => (StepsLeft(r) < n)'
    BY StepsDecrease
  <1> QED BY <1>1, <1>2, <1>3, PTL DEF Progress, GetsNearer

(* Every request is answered (RequestsAreAnswered): whatever the requests  *)
(* around it do, fail or lose, a handler that has started returns.         *)
THEOREM EveryRequestIsAnswered == FairSpec /\ []HandlersNeverWait => RequestsAreAnswered
PROOF
  <1>1. ASSUME NEW r \in Request
        PROVE  FairSpec /\ []HandlersNeverWait => (req[r].pc # "idle" ~> req[r].pc = "idle")
    <2>1. GrantInv => /\ StepsLeft(r) < 1 => req[r].pc = "idle"
                      /\ req[r].pc # "idle" => \/ StepsLeft(r) = 5 \/ StepsLeft(r) = 4
                                               \/ StepsLeft(r) = 3 \/ StepsLeft(r) = 2
                                               \/ StepsLeft(r) = 1
                      /\ StepsLeft(r) < 5 => StepsLeft(r) < 4 \/ StepsLeft(r) = 4
                      /\ StepsLeft(r) < 4 => StepsLeft(r) < 3 \/ StepsLeft(r) = 3
                      /\ StepsLeft(r) < 3 => StepsLeft(r) < 2 \/ StepsLeft(r) = 2
                      /\ StepsLeft(r) < 2 => StepsLeft(r) < 1 \/ StepsLeft(r) = 1
      BY StepsAreCounted
    <2>2. Progress(r) => /\ GetsNearer(r, 5) /\ GetsNearer(r, 4) /\ GetsNearer(r, 3)
                         /\ GetsNearer(r, 2) /\ GetsNearer(r, 1)
      BY OneStepNearer
    <2>3. FairSpec /\ []HandlersNeverWait => Progress(r)
      BY FairHandlersRunOn
    <2> QED BY <2>1, <2>2, <2>3, PTL DEF Progress, GetsNearer
  <1> QED BY <1>1 DEF RequestsAreAnswered

(* A handler that cleans up is not stopped while nothing fails. *)
LEMMA CleanupRunsOn ==
  ASSUME ~Fault, GrantInv, [Next]_vars, NEW r \in Request, req[r].pc # "idle"
  PROVE  req'[r] = req[r] \/ Continue(r)
  BY RequestMoves, AcceptedWith

(* More than n statements have failed or processes stopped. *)
Failed(n) == faults > n

LEMMA FailuresShow ==
  ASSUME GrantInv, Fault, NEW n, faults = n
  PROVE  Failed(n)'
  BY DEF Fault, Failed, GrantInv, TypeInv

(* What a session owns it keeps, and its credentials keep naming it. *)
LEMMA SessionsKeepTheirTokens ==
  ASSUME GrantInv, GrantInv', [Next]_vars, NEW g \in DOMAIN code \cup DOMAIN rt
  PROVE  /\ SessionOf(g)' = SessionOf(g)
         /\ g \in (DOMAIN code \cup DOMAIN rt)'
         /\ AccessTokensOf({SessionOf(g)}) \subseteq AccessTokensOf({SessionOf(g)})'
         /\ RefreshTokensOf({SessionOf(g)}) \subseteq RefreshTokensOf({SessionOf(g)})'
PROOF
  <1>1. Grow /\ TypeInv /\ TypeInv'
    BY NextGrows DEF GrantInv
  <1>2. SessionOf(g)' = SessionOf(g)
    BY <1>1, SessionOfStable
  <1> QED BY <1>1, <1>2 DEF Grow, AccessTokensOf, RefreshTokensOf

(* The statements of a clean-up are left with their rows revoked.          *)
LEMMA CleanupStatements ==
  ASSUME ~Fault, GrantInv, NEW r \in Request, Continue(r)
  PROVE  /\ req[r].pc = "markReuse" => req'[r] = [req[r] EXCEPT !.pc = "revokeATs"]
         /\ req[r].pc = "revokeATs" =>
              /\ req'[r] = [req[r] EXCEPT !.pc = "revokeRTs"]
              /\ AccessTokensOf({SessionOf(req[r].cred)}) \subseteq revoked'
         /\ req[r].pc = "revokeRTs" =>
              RefreshTokensOf({SessionOf(req[r].cred)}) \subseteq revoked'
PROOF
  <1>0. req \in [Request -> RequestState]
    BY DEF GrantInv, TypeInv, RequestsOK
  <1>1. CASE req[r].pc = "markReuse"
    <2>1. MarkReuse(r)
      BY <1>1 DEF Continue, CreateCode, MarkAsUsed, CodeGrantCreateAT, CreateIDToken, Rotate, RetireAT,
           RefreshCreateAT, CreateRT, RevokeSessionATs, RevokeSessionRTs, RevokePairedAT
    <2> QED BY <1>0, <1>1, <2>1 DEF MarkReuse, Goto
  <1>2. CASE req[r].pc = "revokeATs"
    <2>1. RevokeSessionATs(r)
      BY <1>2 DEF Continue, CreateCode, MarkAsUsed, CodeGrantCreateAT, CreateIDToken, Rotate, RetireAT,
           RefreshCreateAT, CreateRT, MarkReuse, RevokeSessionRTs, RevokePairedAT
    <2> QED BY <1>0, <1>2, <2>1 DEF RevokeSessionATs, BestEffortRevoke, Goto
  <1>3. CASE req[r].pc = "revokeRTs"
    <2>1. RevokeSessionRTs(r)
      BY <1>3 DEF Continue, CreateCode, MarkAsUsed, CodeGrantCreateAT, CreateIDToken, Rotate, RetireAT,
           RefreshCreateAT, CreateRT, MarkReuse, RevokeSessionATs, RevokePairedAT
    <2> QED BY <1>0, <1>3, <2>1 DEF RevokeSessionRTs, BestEffortRevoke
  <1> QED BY <1>1, <1>2, <1>3

(* After n failures, a request about to run statement p of a clean-up,     *)
(* whose session owns the access token or the refresh token z.             *)
AboutToRevoke(r, p, z, n) ==
  /\ faults = n /\ req[r].pc = p
  /\ z \in AccessTokensOf({SessionOf(req[r].cred)}) \cup RefreshTokensOf({SessionOf(req[r].cred)})

LEMMA CleanupKeeps ==
  ASSUME ~Fault, GrantInv, GrantInv', [Next]_vars, NEW r \in Request, NEW z, NEW p, NEW n,
         AboutToRevoke(r, p, z, n), p \in {"markReuse", "revokeATs", "revokeRTs"}
  PROVE  AboutToRevoke(r, p, z, n)' \/ Continue(r)
PROOF
  <1>1. req[r].cred \in DOMAIN code \cup DOMAIN rt
    BY DEF AboutToRevoke, GrantInv, TypeInv, RequestsOK, Loaded
  <1>2. faults' = n
    BY FaultsAreCounted DEF AboutToRevoke
  <1>3. CASE req'[r] = req[r]
    BY <1>1, <1>2, <1>3, SessionsKeepTheirTokens DEF AboutToRevoke
  <1> QED BY <1>3, CleanupRunsOn DEF AboutToRevoke

LEMMA CleanupPasses ==
  ASSUME ~Fault, GrantInv, GrantInv', [Next]_vars, NEW r \in Request, NEW z, NEW p, NEW n,
         AboutToRevoke(r, p, z, n), Continue(r)
  PROVE  /\ p = "markReuse" => AboutToRevoke(r, "revokeATs", z, n)'
         /\ p = "revokeATs" => /\ AboutToRevoke(r, "revokeRTs", z, n)'
                               /\ z \in AToken => (z \in revoked)'
         /\ p = "revokeRTs" => (z \in RToken => (z \in revoked)')
PROOF
  <1>0. p \in {"markReuse", "revokeATs", "revokeRTs"} => req[r].cred \in DOMAIN code \cup DOMAIN rt
    BY DEF AboutToRevoke, GrantInv, TypeInv, RequestsOK, Loaded
  <1>1. /\ AccessTokensOf({SessionOf(req[r].cred)}) \subseteq AToken
        /\ RefreshTokensOf({SessionOf(req[r].cred)}) \subseteq RToken
    BY DEF GrantInv, TypeInv, TablesOK, AccessTokensOf, RefreshTokensOf
  <1>2. ASSUME p \in {"markReuse", "revokeATs"}
        PROVE  AboutToRevoke(r, IF p = "markReuse" THEN "revokeATs" ELSE "revokeRTs", z, n)'
    <2>1. req[r] \in RequestState
      BY DEF GrantInv, TypeInv, RequestsOK
    <2>2. /\ req'[r].pc = IF p = "markReuse" THEN "revokeATs" ELSE "revokeRTs"
          /\ req'[r].cred = req[r].cred
      BY <1>2, <2>1, CleanupStatements DEF AboutToRevoke
    <2>3. faults' = n
      BY FaultsAreCounted DEF AboutToRevoke
    <2> QED BY <1>0, <1>2, <2>2, <2>3, SessionsKeepTheirTokens DEF AboutToRevoke
  <1> QED BY <1>1, <1>2, CleanupStatements, KeysAreDisjoint DEF AboutToRevoke

(* One step of a clean-up: it stays where it is, it goes on, or something  *)
(* has failed.                                                             *)
LEMMA CleanupSteps ==
  ASSUME GrantInv, GrantInv', [Next]_vars, NEW r \in Request, NEW z, NEW n
  PROVE  /\ AboutToRevoke(r, "markReuse", z, n) =>
              \/ Failed(n)' \/ AboutToRevoke(r, "revokeATs", z, n)'
              \/ AboutToRevoke(r, "markReuse", z, n)' /\ ~Continue(r)
         /\ AboutToRevoke(r, "revokeATs", z, n) =>
              \/ Failed(n)'
              \/ AboutToRevoke(r, "revokeRTs", z, n)' /\ (z \in AToken => (z \in revoked)')
              \/ AboutToRevoke(r, "revokeATs", z, n)' /\ ~Continue(r)
         /\ AboutToRevoke(r, "revokeRTs", z, n) =>
              \/ Failed(n)' \/ (z \in RToken => (z \in revoked)')
              \/ AboutToRevoke(r, "revokeRTs", z, n)' /\ ~Continue(r)
PROOF
  <1>1. ASSUME NEW p \in {"markReuse", "revokeATs", "revokeRTs"}, AboutToRevoke(r, p, z, n),
               ~Failed(n)'
        PROVE  /\ Continue(r) \/ AboutToRevoke(r, p, z, n)'
               /\ Continue(r) =>
                    /\ p = "markReuse" => AboutToRevoke(r, "revokeATs", z, n)'
                    /\ p = "revokeATs" => /\ AboutToRevoke(r, "revokeRTs", z, n)'
                                          /\ z \in AToken => (z \in revoked)'
                    /\ p = "revokeRTs" => (z \in RToken => (z \in revoked)')
    <2>1. ~Fault
      BY <1>1, FailuresShow DEF AboutToRevoke
    <2> QED BY <1>1, <2>1, CleanupKeeps, CleanupPasses
  <1>2. ASSUME AboutToRevoke(r, "markReuse", z, n), ~Failed(n)'
        PROVE  \/ AboutToRevoke(r, "revokeATs", z, n)'
               \/ AboutToRevoke(r, "markReuse", z, n)' /\ ~Continue(r)
    BY <1>1, <1>2
  <1>3. ASSUME AboutToRevoke(r, "revokeATs", z, n), ~Failed(n)'
        PROVE  \/ AboutToRevoke(r, "revokeRTs", z, n)' /\ (z \in AToken => (z \in revoked)')
               \/ AboutToRevoke(r, "revokeATs", z, n)' /\ ~Continue(r)
    BY <1>1, <1>3
  <1>4. ASSUME AboutToRevoke(r, "revokeRTs", z, n), ~Failed(n)'
        PROVE  \/ z \in RToken => (z \in revoked)'
               \/ AboutToRevoke(r, "revokeRTs", z, n)' /\ ~Continue(r)
    BY <1>1, <1>4
  <1> QED BY <1>2, <1>3, <1>4

(* A clean-up revokes the access tokens of its session. *)
LEMMA CleanupsReachTheAccessTokens ==
  ASSUME NEW n \in 0..MaxFaults, NEW r \in Request, NEW t \in AToken
  PROVE  Progress(r) =>
           ((/\ faults = n /\ req[r].pc \in {"markReuse", "revokeATs"}
             /\ t \in AccessTokensOf({SessionOf(req[r].cred)})) ~> (t \in revoked \/ faults > n))
PROOF
  <1>1. GrantInv /\ GrantInv' /\ [Next]_vars =>
          /\ AboutToRevoke(r, "markReuse", t, n) =>
               \/ Failed(n)' \/ AboutToRevoke(r, "revokeATs", t, n)'
               \/ AboutToRevoke(r, "markReuse", t, n)' /\ ~<<Continue(r)>>_vars
          /\ AboutToRevoke(r, "revokeATs", t, n) =>
               \/ Failed(n)' \/ (t \in revoked)'
               \/ AboutToRevoke(r, "revokeATs", t, n)' /\ ~<<Continue(r)>>_vars
    BY CleanupSteps
  <1>2. /\ AboutToRevoke(r, "markReuse", t, n) => ~(req[r].pc = "idle")
        /\ AboutToRevoke(r, "revokeATs", t, n) => ~(req[r].pc = "idle")
    BY DEF AboutToRevoke
  <1>3. (/\ faults = n /\ req[r].pc \in {"markReuse", "revokeATs"}
         /\ t \in AccessTokensOf({SessionOf(req[r].cred)}))
          => AboutToRevoke(r, "markReuse", t, n) \/ AboutToRevoke(r, "revokeATs", t, n)
    BY DEF AboutToRevoke
  <1>4. Failed(n) => faults > n
    BY DEF Failed
  <1> QED BY <1>1, <1>2, <1>3, <1>4, PTL DEF Progress

(* And the refresh tokens. *)
LEMMA CleanupsReachTheRefreshTokens ==
  ASSUME NEW n \in 0..MaxFaults, NEW r \in Request, NEW x \in RToken
  PROVE  Progress(r) =>
           ((/\ faults = n /\ req[r].pc \in {"markReuse", "revokeATs", "revokeRTs"}
             /\ x \in RefreshTokensOf({SessionOf(req[r].cred)})) ~> (x \in revoked \/ faults > n))
PROOF
  <1>1. GrantInv /\ GrantInv' /\ [Next]_vars =>
          /\ AboutToRevoke(r, "markReuse", x, n) =>
               \/ Failed(n)' \/ AboutToRevoke(r, "revokeATs", x, n)'
               \/ AboutToRevoke(r, "markReuse", x, n)' /\ ~<<Continue(r)>>_vars
          /\ AboutToRevoke(r, "revokeATs", x, n) =>
               \/ Failed(n)' \/ AboutToRevoke(r, "revokeRTs", x, n)'
               \/ AboutToRevoke(r, "revokeATs", x, n)' /\ ~<<Continue(r)>>_vars
          /\ AboutToRevoke(r, "revokeRTs", x, n) =>
               \/ Failed(n)' \/ (x \in revoked)'
               \/ AboutToRevoke(r, "revokeRTs", x, n)' /\ ~<<Continue(r)>>_vars
    BY CleanupSteps
  <1>2. /\ AboutToRevoke(r, "markReuse", x, n) => ~(req[r].pc = "idle")
        /\ AboutToRevoke(r, "revokeATs", x, n) => ~(req[r].pc = "idle")
        /\ AboutToRevoke(r, "revokeRTs", x, n) => ~(req[r].pc = "idle")
    BY DEF AboutToRevoke
  <1>3. (/\ faults = n /\ req[r].pc \in {"markReuse", "revokeATs", "revokeRTs"}
         /\ x \in RefreshTokensOf({SessionOf(req[r].cred)}))
          => \/ AboutToRevoke(r, "markReuse", x, n) \/ AboutToRevoke(r, "revokeATs", x, n)
             \/ AboutToRevoke(r, "revokeRTs", x, n)
    BY DEF AboutToRevoke
  <1>4. Failed(n) => faults > n
    BY DEF Failed
  <1> QED BY <1>1, <1>2, <1>3, <1>4, PTL DEF Progress

(* What a replay or a reuse sets off costs the session every token that    *)
(* exists when the statement for its table runs, unless a statement fails  *)
(* or the process stops before that: the handlers drop the errors          *)
(* (ReplayRevokesTheTokens; token_authcode.go:59-62,                       *)
(* token_refresh.go:53-61).                                                *)
THEOREM ReplaysRevoke == FairSpec /\ []HandlersNeverWait => ReplayRevokesTheTokens
  BY FairHandlersRunOn, CleanupsReachTheAccessTokens, CleanupsReachTheRefreshTokens
  DEF ReplayRevokesTheTokens

(* The same for an incident request. *)
IncidentProgress(a) ==
  /\ []GrantInv /\ [][Next]_vars
  /\ []<>(inc[a].pc = "idle") \/ []<><<ContinueIncident(a)>>_vars

LEMMA IncidentsRunOn ==
  ASSUME NEW a \in Admin
  PROVE  Spec /\ IncidentScheduled(a) /\ []IncidentCanContinue(a) => IncidentProgress(a)
PROOF
  <1>1. inc[a].pc = "idle" \/ inc[a].pc # "idle"
    OBVIOUS
  <1> QED BY <1>1, GrantInvHolds, PTL
          DEF Spec, IncidentScheduled, IncidentCanContinue, IncidentProgress

LEMMA FairIncidentsRunOn ==
  ASSUME NEW a \in Admin
  PROVE  FairSpec /\ []HandlersNeverWait => IncidentProgress(a)
PROOF
  <1>1. HandlersNeverWait => IncidentCanContinue(a)
    BY DEF HandlersNeverWait
  <1>2. FairSpec => Spec /\ IncidentScheduled(a)
    BY DEF FairSpec, Fairness
  <1> QED BY <1>1, <1>2, IncidentsRunOn, PTL

LEMMA IncidentMoves ==
  ASSUME ~Fault, GrantInv, [Next]_vars, NEW a \in Admin, inc[a].pc # "idle"
  PROVE  inc'[a] = inc[a] \/ ContinueIncident(a)
PROOF
  <1>0. inc \in [Admin -> IncidentState]
    BY DEF GrantInv, TypeInv
  <1>1. ASSUME NEW r \in Request, Accept(r) \/ Continue(r) \/ Abort(r)
        PROVE  inc' = inc
    <2>1. CASE Accept(r) \/ Abort(r)
      BY <2>1 DEF Accept, AuthorizeCheck, CodeGrantAccept, CodeGrantReplay, RefreshAccept,
                  RefreshReuse, RevokeRefreshToken, Abort
    <2>2. CASE Continue(r)
      BY <2>2 DEF Continue, CreateCode, MarkAsUsed, CodeGrantCreateAT, CreateIDToken, Rotate,
                  RetireAT, RefreshCreateAT, CreateRT, MarkReuse, RevokeSessionATs,
                  RevokeSessionRTs, RevokePairedAT
    <2> QED BY <1>1, <2>1, <2>2
  <1>2. ASSUME NEW o \in Admin, NEW T, IncidentSessions(o, T)
        PROVE  inc'[a] = inc[a]
    BY <1>0, <1>2 DEF IncidentSessions
  <1>3. ASSUME NEW o \in Admin, ContinueIncident(o)
        PROVE  inc'[a] = inc[a] \/ ContinueIncident(a)
    BY <1>0, <1>3 DEF ContinueIncident, IncidentAccessTokens, IncidentRefreshTokens
  <1>4. CASE Environment \/ UNCHANGED vars
    BY <1>0, <1>4 DEF Environment, Login, RevokeAccessToken, Expire, Crash, vars
  <1> QED BY <1>0, <1>1, <1>2, <1>3, <1>4 DEF Next, AbortIncident

(* After n failures, an incident request about to run statement p, which   *)
(* covers the access or refresh token z.                                   *)
IncidentCovers(a, p, z, n) ==
  /\ faults = n /\ inc[a].pc = p
  /\ z \in AccessTokensOf(inc[a].target) \cup RefreshTokensOf(inc[a].target)

LEMMA IncidentStatements ==
  ASSUME ~Fault, GrantInv, GrantInv', [Next]_vars, NEW a \in Admin, NEW z, NEW n, NEW p,
         IncidentCovers(a, p, z, n), p \in {"accessTokens", "refreshTokens"}
  PROVE  /\ IncidentCovers(a, p, z, n)' \/ ContinueIncident(a)
         /\ ContinueIncident(a) =>
              /\ p = "accessTokens" => /\ IncidentCovers(a, "refreshTokens", z, n)'
                                       /\ z \in AToken => (z \in revoked)'
              /\ p = "refreshTokens" => (z \in RToken => (z \in revoked)')
PROOF
  <1>1. inc \in [Admin -> IncidentState] /\ Grow
    BY NextGrows DEF GrantInv, TypeInv
  <1>2. /\ AccessTokensOf(inc[a].target) \subseteq AToken
        /\ RefreshTokensOf(inc[a].target) \subseteq RToken
    BY DEF GrantInv, TypeInv, TablesOK, AccessTokensOf, RefreshTokensOf
  <1>3. ASSUME inc'[a].target = inc[a].target
        PROVE  z \in (AccessTokensOf(inc[a].target) \cup RefreshTokensOf(inc[a].target))'
    BY <1>1, <1>3 DEF IncidentCovers, Grow, AccessTokensOf, RefreshTokensOf
  <1>7. faults' = n
    BY FaultsAreCounted DEF IncidentCovers
  <1>4. CASE inc'[a] = inc[a]
    <2>1. ~ContinueIncident(a)
      BY <1>1, <1>4 DEF ContinueIncident, IncidentAccessTokens, IncidentRefreshTokens
    <2> QED BY <1>3, <1>4, <1>7, <2>1 DEF IncidentCovers
  <1>5. CASE p = "accessTokens" /\ ContinueIncident(a)
    <2>1. IncidentAccessTokens(a)
      BY <1>5 DEF IncidentCovers, ContinueIncident, IncidentRefreshTokens
    <2>2. inc'[a].pc = "refreshTokens" /\ inc'[a].target = inc[a].target
      BY <1>1, <2>1 DEF IncidentAccessTokens
    <2>3. AccessTokensOf(inc[a].target) \subseteq revoked'
      BY <2>1 DEF IncidentAccessTokens
    <2> QED BY <1>2, <1>3, <1>5, <1>7, <2>2, <2>3, KeysAreDisjoint DEF IncidentCovers
  <1>6. CASE p = "refreshTokens" /\ ContinueIncident(a)
    <2>1. RefreshTokensOf(inc[a].target) \subseteq revoked'
      BY <1>6 DEF IncidentCovers, ContinueIncident, IncidentAccessTokens, IncidentRefreshTokens
    <2> QED BY <1>2, <1>6, <2>1, KeysAreDisjoint DEF IncidentCovers
  <1> QED BY <1>4, <1>5, <1>6, IncidentMoves DEF IncidentCovers

LEMMA IncidentSteps ==
  ASSUME GrantInv, GrantInv', [Next]_vars, NEW a \in Admin, NEW z, NEW n
  PROVE  /\ IncidentCovers(a, "accessTokens", z, n) =>
              \/ Failed(n)'
              \/ IncidentCovers(a, "refreshTokens", z, n)' /\ (z \in AToken => (z \in revoked)')
              \/ IncidentCovers(a, "accessTokens", z, n)' /\ ~ContinueIncident(a)
         /\ IncidentCovers(a, "refreshTokens", z, n) =>
              \/ Failed(n)' \/ (z \in RToken => (z \in revoked)')
              \/ IncidentCovers(a, "refreshTokens", z, n)' /\ ~ContinueIncident(a)
PROOF
  <1>1. ASSUME NEW p \in {"accessTokens", "refreshTokens"}, IncidentCovers(a, p, z, n), ~Failed(n)'
        PROVE  ~Fault
    BY <1>1, FailuresShow DEF IncidentCovers
  <1>2. ASSUME IncidentCovers(a, "accessTokens", z, n), ~Failed(n)'
        PROVE  \/ IncidentCovers(a, "refreshTokens", z, n)' /\ (z \in AToken => (z \in revoked)')
               \/ IncidentCovers(a, "accessTokens", z, n)' /\ ~ContinueIncident(a)
    BY <1>1, <1>2, IncidentStatements
  <1>3. ASSUME IncidentCovers(a, "refreshTokens", z, n), ~Failed(n)'
        PROVE  \/ z \in RToken => (z \in revoked)'
               \/ IncidentCovers(a, "refreshTokens", z, n)' /\ ~ContinueIncident(a)
    BY <1>1, <1>3, IncidentStatements
  <1> QED BY <1>2, <1>3

(* An incident request revokes the access tokens it covers. *)
LEMMA IncidentsReachTheAccessTokens ==
  ASSUME NEW n \in 0..MaxFaults, NEW a \in Admin, NEW t \in AToken
  PROVE  IncidentProgress(a) =>
           ((faults = n /\ inc[a].pc = "accessTokens" /\ t \in AccessTokensOf(inc[a].target))
              ~> (t \in revoked \/ faults > n))
PROOF
  <1>1. GrantInv /\ GrantInv' /\ [Next]_vars =>
          (IncidentCovers(a, "accessTokens", t, n) =>
             \/ Failed(n)' \/ (t \in revoked)'
             \/ IncidentCovers(a, "accessTokens", t, n)' /\ ~<<ContinueIncident(a)>>_vars)
    BY IncidentSteps
  <1>2. IncidentCovers(a, "accessTokens", t, n) => ~(inc[a].pc = "idle")
    BY DEF IncidentCovers
  <1>3. faults = n /\ inc[a].pc = "accessTokens" /\ t \in AccessTokensOf(inc[a].target)
          => IncidentCovers(a, "accessTokens", t, n)
    BY DEF IncidentCovers
  <1>4. Failed(n) => faults > n
    BY DEF Failed
  <1> QED BY <1>1, <1>2, <1>3, <1>4, PTL DEF IncidentProgress

(* And the refresh tokens. *)
LEMMA IncidentsReachTheRefreshTokens ==
  ASSUME NEW n \in 0..MaxFaults, NEW a \in Admin, NEW x \in RToken
  PROVE  IncidentProgress(a) =>
           ((faults = n /\ inc[a].pc # "idle" /\ x \in RefreshTokensOf(inc[a].target))
              ~> (x \in revoked \/ faults > n))
PROOF
  <1>1. GrantInv /\ GrantInv' /\ [Next]_vars =>
          /\ IncidentCovers(a, "accessTokens", x, n) =>
               \/ Failed(n)' \/ IncidentCovers(a, "refreshTokens", x, n)'
               \/ IncidentCovers(a, "accessTokens", x, n)' /\ ~<<ContinueIncident(a)>>_vars
          /\ IncidentCovers(a, "refreshTokens", x, n) =>
               \/ Failed(n)' \/ (x \in revoked)'
               \/ IncidentCovers(a, "refreshTokens", x, n)' /\ ~<<ContinueIncident(a)>>_vars
    BY IncidentSteps
  <1>2. /\ IncidentCovers(a, "accessTokens", x, n) => ~(inc[a].pc = "idle")
        /\ IncidentCovers(a, "refreshTokens", x, n) => ~(inc[a].pc = "idle")
    BY DEF IncidentCovers
  <1>3. GrantInv /\ faults = n /\ inc[a].pc # "idle" /\ x \in RefreshTokensOf(inc[a].target)
          => \/ IncidentCovers(a, "accessTokens", x, n)
             \/ IncidentCovers(a, "refreshTokens", x, n)
    BY DEF IncidentCovers, GrantInv, TypeInv
  <1>4. Failed(n) => faults > n
    BY DEF Failed
  <1> QED BY <1>1, <1>2, <1>3, <1>4, PTL DEF IncidentProgress

(* An incident request that starts revokes every token of the sessions it  *)
(* covers that exists when its table's turn comes, also those issued after *)
(* its first statement, unless a statement fails or the process stops      *)
(* before that (IncidentsRevokeTheTokens; incident.go:59-79).              *)
THEOREM IncidentsRevoke == FairSpec /\ []HandlersNeverWait => IncidentsRevokeTheTokens
  BY FairIncidentsRunOn, IncidentsReachTheAccessTokens, IncidentsReachTheRefreshTokens
  DEF IncidentsRevokeTheTokens

(* After n failures, an incident about to run statement p over the quiet   *)
(* session s, whose access tokens are revoked already when p is the last.  *)
IncidentEnds(a, p, s, n) ==
  /\ faults = n /\ inc[a].pc = p /\ s \in inc[a].target
  /\ Quiet(s)
  /\ p = "refreshTokens" => AccessTokensOf({s}) \subseteq revoked

LEMMA IncidentEndsInOrder ==
  ASSUME ~Fault, GrantInv, GrantInv', [Next]_vars, NEW a \in Admin, NEW s \in Session, NEW n,
         NEW p \in {"accessTokens", "refreshTokens"}, IncidentEnds(a, p, s, n)
  PROVE  /\ IncidentEnds(a, p, s, n)' \/ ContinueIncident(a)
         /\ ContinueIncident(a) => IF p = "accessTokens" THEN IncidentEnds(a, "refreshTokens", s, n)'
                                                         ELSE Dead(s)'
PROOF
  <1>1. inc \in [Admin -> IncidentState]
    BY DEF GrantInv, TypeInv
  <1>2. /\ Quiet(s)' /\ revoked \subseteq revoked'
        /\ AccessTokensOf({s})' = AccessTokensOf({s})
        /\ RefreshTokensOf({s})' = RefreshTokensOf({s})
    BY QuietKept, MarksStay DEF IncidentEnds
  <1>6. faults' = n
    BY FaultsAreCounted DEF IncidentEnds
  <1>3. CASE inc'[a] = inc[a]
    <2>1. ~ContinueIncident(a)
      BY <1>1, <1>3 DEF ContinueIncident, IncidentAccessTokens, IncidentRefreshTokens
    <2> QED BY <1>2, <1>3, <1>6, <2>1 DEF IncidentEnds
  <1>4. CASE p = "accessTokens" /\ ContinueIncident(a)
    <2>1. IncidentAccessTokens(a)
      BY <1>4 DEF IncidentEnds, ContinueIncident, IncidentRefreshTokens
    <2>2. inc'[a].pc = "refreshTokens" /\ inc'[a].target = inc[a].target
      BY <1>1, <2>1 DEF IncidentAccessTokens
    <2>3. AccessTokensOf({s}) \subseteq revoked'
      BY <2>1 DEF IncidentAccessTokens, IncidentEnds, AccessTokensOf
    <2> QED BY <1>2, <1>4, <1>6, <2>2, <2>3 DEF IncidentEnds
  <1>5. CASE p = "refreshTokens" /\ ContinueIncident(a)
    <2>1. RefreshTokensOf({s}) \subseteq revoked'
      BY <1>5 DEF IncidentEnds, ContinueIncident, IncidentAccessTokens, IncidentRefreshTokens,
                  RefreshTokensOf
    <2> QED BY <1>2, <1>5, <2>1 DEF IncidentEnds, Dead, Quiet
  <1> QED BY <1>3, <1>4, <1>5, IncidentMoves DEF IncidentEnds

(* What the plan expects of an incident (phase2-implementation-plan.md:    *)
(* 282-287) it achieves where no grant is under way: a session that is     *)
(* quiet when the statement for access tokens is about to run is dead in   *)
(* the end, and for good.  An unspent code or a request in flight is what  *)
(* RevokedSessionsHaveNoLiveToken fails by.                                *)
THEOREM IncidentsEndQuietSessions ==
  ASSUME NEW n \in Nat, NEW a \in Admin, NEW s \in Session
  PROVE  Spec /\ IncidentScheduled(a) /\ []IncidentCanContinue(a) =>
           ((/\ faults = n /\ inc[a].pc = "accessTokens"
             /\ s \in inc[a].target /\ Quiet(s)) ~> ([]Dead(s) \/ faults > n))
PROOF
  <1>1. GrantInv /\ GrantInv' /\ [Next]_vars =>
          /\ IncidentEnds(a, "accessTokens", s, n) =>
               \/ Failed(n)' \/ IncidentEnds(a, "refreshTokens", s, n)'
               \/ IncidentEnds(a, "accessTokens", s, n)' /\ ~<<ContinueIncident(a)>>_vars
          /\ IncidentEnds(a, "refreshTokens", s, n) =>
               \/ Failed(n)' \/ Dead(s)'
               \/ IncidentEnds(a, "refreshTokens", s, n)' /\ ~<<ContinueIncident(a)>>_vars
    <2>1. ASSUME NEW p \in {"accessTokens", "refreshTokens"}, GrantInv, GrantInv', [Next]_vars,
                 IncidentEnds(a, p, s, n)
          PROVE  \/ Failed(n)'
                 \/ IncidentEnds(a, p, s, n)' /\ ~ContinueIncident(a)
                 \/ IF p = "accessTokens" THEN IncidentEnds(a, "refreshTokens", s, n)' ELSE Dead(s)'
      <3>1. Fault => Failed(n)'
        BY <2>1, FailuresShow DEF IncidentEnds
      <3> QED BY <2>1, <3>1, IncidentEndsInOrder
    <2> QED BY <2>1
  <1>2. /\ IncidentEnds(a, "accessTokens", s, n) => ~(inc[a].pc = "idle")
        /\ IncidentEnds(a, "refreshTokens", s, n) => ~(inc[a].pc = "idle")
    BY DEF IncidentEnds
  <1>3. faults = n /\ inc[a].pc = "accessTokens" /\ s \in inc[a].target /\ Quiet(s)
          => IncidentEnds(a, "accessTokens", s, n)
    BY DEF IncidentEnds
  <1>4. GrantInv /\ GrantInv' /\ [Next]_vars /\ Dead(s) => Dead(s)'
    BY DeadKept
  <1>5. Failed(n) => faults > n
    BY DEF Failed
  <1>6. IncidentProgress(a) =>
          ((/\ faults = n /\ inc[a].pc = "accessTokens"
            /\ s \in inc[a].target /\ Quiet(s)) ~> ([]Dead(s) \/ faults > n))
    BY <1>1, <1>2, <1>3, <1>4, <1>5, PTL DEF IncidentProgress
  <1> QED BY <1>6, IncidentsRunOn

=============================================================================
