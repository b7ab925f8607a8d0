-------------------------- MODULE ClientAdminProofs --------------------------
(***************************************************************************)
(* Theorems about ClientAdmin, for every set of tenants, clients, redirect *)
(* URIs, secrets, settings and administrators.                             *)
(***************************************************************************)
EXTENDS ClientAdmin, TLAPS

-----------------------------------------------------------------------------
(* The row a request has loaded exists, and what the request cannot edit   *)
(* is in it as it is in the table.                                         *)
LoadedRows ==
  \A a \in Admin :
    /\ asked[a].op = "editTenant" =>
         /\ loaded[a] \in TenantRow
         /\ asked[a].key \in DOMAIN tenants /\ loaded[a].code = tenants[asked[a].key].code
    /\ asked[a].op = "editClient" =>
         /\ loaded[a] \in ClientRow
         /\ asked[a].key \in DOMAIN clients /\ loaded[a].tenant = clients[asked[a].key].tenant

RowsInv == TypeOK /\ LoadedRows

(* A row edited in memory is still a row. *)
LEMMA EditedSettings ==
  ASSUME NEW p \in Patch, NEW s \in Settings
  PROVE  Edited(s, p) \in Settings
PROOF
  <1>1. PICK F \in SUBSET Field : p \in [F -> Value]
    BY DEF Patch
  <1>2. DOMAIN p = F /\ DOMAIN s = Field /\ \A f \in F : p[f] \in Value
    BY <1>1 DEF Settings
  <1> QED BY <1>2 DEF Settings, Edited

(* What a goroutine was asked is of the kind its next statement needs. *)
LEMMA HeldRecords ==
  ASSUME TypeOK, NEW a \in Admin
  PROVE  /\ asked[a].op = "editTenant" => asked[a].key \in Tenant /\ asked[a].patch \in Patch
         /\ asked[a].op = "editClient" => asked[a].key \in Client /\ asked[a].patch \in Patch
         /\ asked[a].op = "createTenant" => asked[a].code \in TenantCode
PROOF
  <1>1. asked[a] \in Asked
    BY DEF TypeOK
  <1> QED BY <1>1 DEF Asked, Nothing

(* A goroutine that is done, or has begun, keeps what the others hold. *)
LEMMA OneMoves ==
  ASSUME RowsInv, NEW a \in Admin, NEW q \in Asked,
         NEW row \in TenantRow \cup ClientRow \cup {NoRow},
         asked' = [asked EXCEPT ![a] = q], loaded' = [loaded EXCEPT ![a] = row]
  PROVE  /\ asked' \in [Admin -> Asked]
         /\ loaded' \in [Admin -> TenantRow \cup ClientRow \cup {NoRow}]
         /\ asked'[a] = q /\ loaded'[a] = row
         /\ \A b \in Admin \ {a} : asked'[b] = asked[b] /\ loaded'[b] = loaded[b]
  BY DEF RowsInv, TypeOK

(* An insert adds a row with a free code, or nothing. *)
LEMMA TenantInserts ==
  ASSUME NEW a \in Admin, CreateTenant(a)
  PROVE  \/ UNCHANGED tenants
         \/ \E t \in Tenant \ DOMAIN tenants, s \in Settings :
              /\ DOMAIN tenants' = DOMAIN tenants \cup {t}
              /\ tenants'[t] = [code |-> asked[a].code, settings |-> s]
              /\ \A u \in DOMAIN tenants : tenants'[u] = tenants[u]
              /\ \A u \in DOMAIN tenants : tenants[u].code # asked[a].code
PROOF
  <1>1. CASE \E t \in DOMAIN tenants : tenants[t].code = asked[a].code
    BY <1>1 DEF CreateTenant
  <1>2. CASE \A u \in DOMAIN tenants : tenants[u].code # asked[a].code
    <2>1. PICK t \in Tenant \ DOMAIN tenants, s \in Settings :
            tenants' = WithRow(tenants, t, [code |-> asked[a].code, settings |-> s])
      BY <1>2 DEF CreateTenant
    <2>2. /\ DOMAIN tenants' = DOMAIN tenants \cup {t}
          /\ tenants'[t] = [code |-> asked[a].code, settings |-> s]
          /\ \A u \in DOMAIN tenants : tenants'[u] = tenants[u]
      BY <2>1 DEF WithRow
    <2> QED BY <1>2, <2>2
  <1> QED BY <1>1, <1>2

(* Rows are inserted and edited, a goroutine stops holding one: the rest   *)
(* of what is held stays good.                                             *)
LEMMA RowsKept ==
  ASSUME RowsInv,
         asked' \in [Admin -> Asked],
         loaded' \in [Admin -> TenantRow \cup ClientRow \cup {NoRow}],
         \A b \in Admin : \/ asked'[b] = asked[b] /\ loaded'[b] = loaded[b]
                          \/ asked'[b].op \in {"nothing", "createTenant"},
         DOMAIN tenants' \subseteq Tenant, \A t \in DOMAIN tenants' : tenants'[t] \in TenantRow,
         \A t \in DOMAIN tenants : t \in DOMAIN tenants' /\ tenants'[t].code = tenants[t].code,
         \A c \in DOMAIN clients : c \in DOMAIN clients' /\ clients'[c].tenant = clients[c].tenant,
         DOMAIN clients' \subseteq Client,
         \A c \in DOMAIN clients' :
           clients'[c] \in ClientRow /\ clients'[c].tenant \in DOMAIN tenants',
         DOMAIN uris' \subseteq Uri, \A u \in DOMAIN uris' : uris'[u] \in DOMAIN clients',
         drawn' \subseteq Secret
  PROVE  RowsInv'
PROOF
  <1>1. TypeOK'
    BY DEF TypeOK
  <1>2. LoadedRows'
    BY DEF RowsInv, LoadedRows
  <1> QED BY <1>1, <1>2 DEF RowsInv

(* A goroutine that is done holds nothing. *)
LEMMA Finished ==
  ASSUME RowsInv, NEW a \in Admin, Finish(a)
  PROVE  /\ asked' \in [Admin -> Asked]
         /\ loaded' \in [Admin -> TenantRow \cup ClientRow \cup {NoRow}]
         /\ \A b \in Admin : \/ asked'[b] = asked[b] /\ loaded'[b] = loaded[b]
                             \/ asked'[b].op = "nothing"
PROOF
  <1>1. Nothing \in Asked /\ Nothing.op = "nothing"
    BY DEF Asked, Nothing
  <1> QED BY <1>1, OneMoves DEF Finish

(* A goroutine that begins holds the row it has just read. *)
LEMMA Begun ==
  ASSUME RowsInv, NEW a \in Admin, NEW q \in Asked,
         NEW row \in TenantRow \cup ClientRow \cup {NoRow}, Begin(a, q, row),
         UNCHANGED <<tenants, clients, uris, drawn>>,
         q.op = "editTenant" =>
           row \in TenantRow /\ q.key \in DOMAIN tenants /\ row.code = tenants[q.key].code,
         q.op = "editClient" =>
           row \in ClientRow /\ q.key \in DOMAIN clients /\ row.tenant = clients[q.key].tenant
  PROVE  RowsInv'
PROOF
  <1>1. /\ asked' \in [Admin -> Asked]
        /\ loaded' \in [Admin -> TenantRow \cup ClientRow \cup {NoRow}]
        /\ asked'[a] = q /\ loaded'[a] = row
        /\ \A b \in Admin \ {a} : asked'[b] = asked[b] /\ loaded'[b] = loaded[b]
    BY OneMoves DEF Begin
  <1>2. TypeOK'
    BY <1>1 DEF RowsInv, TypeOK
  <1>3. LoadedRows'
    BY <1>1 DEF RowsInv, LoadedRows
  <1> QED BY <1>2, <1>3 DEF RowsInv

(* Every request keeps the types, the references and what is held. *)
LEMMA NextRowsInv ==
  ASSUME RowsInv, [Next]_vars
  PROVE  RowsInv'
PROOF
  <1>0. TypeOK /\ LoadedRows
    BY DEF RowsInv
  <1>1. ASSUME NEW a \in Admin, CreateTenant(a)
        PROVE  RowsInv'
    <2>1. Finish(a) /\ UNCHANGED <<clients, uris, drawn>>
      BY <1>1 DEF CreateTenant
    <2>2. asked[a].code \in TenantCode
      BY <1>0, <1>1, HeldRecords DEF CreateTenant
    <2>3. /\ DOMAIN tenants \subseteq DOMAIN tenants' /\ DOMAIN tenants' \subseteq Tenant
          /\ \A t \in DOMAIN tenants : tenants'[t] = tenants[t]
          /\ \A t \in DOMAIN tenants' : tenants'[t] \in TenantRow
      <3>1. CASE UNCHANGED tenants
        BY <1>0, <3>1 DEF TypeOK
      <3>2. CASE ~UNCHANGED tenants
        <4>1. PICK t \in Tenant \ DOMAIN tenants, s \in Settings :
                /\ DOMAIN tenants' = DOMAIN tenants \cup {t}
                /\ tenants'[t] = [code |-> asked[a].code, settings |-> s]
                /\ \A u \in DOMAIN tenants : tenants'[u] = tenants[u]
                /\ \A u \in DOMAIN tenants : tenants[u].code # asked[a].code
          BY <1>1, <3>2, TenantInserts
        <4>2. tenants'[t] \in TenantRow
          BY <2>2, <4>1 DEF TenantRow
        <4> QED BY <1>0, <4>1, <4>2 DEF TypeOK
      <3> QED BY <3>1, <3>2
    <2> QED BY <1>0, <2>1, <2>3, Finished, RowsKept DEF TypeOK
  <1>2. ASSUME NEW a \in Admin, SaveTenant(a)
        PROVE  RowsInv'
    <2> DEFINE new == [loaded[a] EXCEPT !.settings = Edited(@, asked[a].patch)]
    <2>1. /\ Finish(a) /\ UNCHANGED <<clients, uris, drawn>>
          /\ tenants' = [tenants EXCEPT ![asked[a].key] = new]
      BY <1>2 DEF SaveTenant
    <2>2. new \in TenantRow /\ new.code = tenants[asked[a].key].code
      BY <1>0, <1>2, HeldRecords, EditedSettings DEF SaveTenant, TenantRow, LoadedRows
    <2> HIDE DEF new
    <2>3. /\ DOMAIN tenants' = DOMAIN tenants
          /\ \A t \in DOMAIN tenants : tenants'[t] \in TenantRow /\ tenants'[t].code = tenants[t].code
      BY <1>0, <2>1, <2>2 DEF TypeOK
    <2> QED BY <1>0, <2>1, <2>3, Finished, RowsKept DEF TypeOK
  <1>3. ASSUME NEW a \in Admin, SaveClient(a)
        PROVE  RowsInv'
    <2> DEFINE new == [loaded[a] EXCEPT !.settings = Edited(@, asked[a].patch)]
    <2>1. /\ Finish(a) /\ UNCHANGED <<tenants, uris, drawn>>
          /\ clients' = [clients EXCEPT ![asked[a].key] = new]
      BY <1>3 DEF SaveClient
    <2>2. new \in ClientRow /\ new.tenant = clients[asked[a].key].tenant
      BY <1>0, <1>3, HeldRecords, EditedSettings DEF SaveClient, ClientRow, LoadedRows
    <2> HIDE DEF new
    <2>3. /\ DOMAIN clients' = DOMAIN clients
          /\ \A c \in DOMAIN clients : clients'[c] \in ClientRow /\ clients'[c].tenant = clients[c].tenant
      BY <1>0, <2>1, <2>2 DEF TypeOK
    <2> QED BY <1>0, <2>1, <2>3, Finished, RowsKept DEF TypeOK
  <1>4. ASSUME NEW a \in Admin, Abort(a)
        PROVE  RowsInv'
    BY <1>0, <1>4, Finished, RowsKept DEF Abort, TypeOK
  <1>5. ASSUME NEW a \in Admin, NEW d \in TenantCode, FindByCode(a, d)
        PROVE  RowsInv'
    <2> DEFINE q == [op |-> "createTenant", code |-> d]
    <2>1. q \in Asked /\ q.op = "createTenant"
      BY DEF Asked
    <2>2. Begin(a, q, NoRow) /\ UNCHANGED <<tenants, clients, uris, drawn>>
      BY <1>5 DEF FindByCode
    <2> HIDE DEF q
    <2> QED BY <2>1, <2>2, Begun
  <1>6. ASSUME NEW a \in Admin, NEW t \in Tenant, NEW p \in Patch, FindTenant(a, t, p)
        PROVE  RowsInv'
    <2> DEFINE q == [op |-> "editTenant", key |-> t, patch |-> p]
    <2>1. q \in Asked /\ q.op = "editTenant" /\ q.key = t
      BY DEF Asked
    <2>2. /\ t \in DOMAIN tenants /\ Begin(a, q, tenants[t])
          /\ UNCHANGED <<tenants, clients, uris, drawn>>
      BY <1>6 DEF FindTenant
    <2> HIDE DEF q
    <2> QED BY <1>0, <2>1, <2>2, Begun DEF TypeOK
  <1>7. ASSUME NEW a \in Admin, NEW c \in Client, NEW p \in Patch, FindClient(a, c, p)
        PROVE  RowsInv'
    <2> DEFINE q == [op |-> "editClient", key |-> c, patch |-> p]
    <2>1. q \in Asked /\ q.op = "editClient" /\ q.key = c
      BY DEF Asked
    <2>2. /\ c \in DOMAIN clients /\ Begin(a, q, clients[c])
          /\ UNCHANGED <<tenants, clients, uris, drawn>>
      BY <1>7 DEF FindClient
    <2> HIDE DEF q
    <2> QED BY <1>0, <2>1, <2>2, Begun DEF TypeOK
  <1>8. ASSUME NEW c \in Client, NEW t \in Tenant, NEW U \in SUBSET Uri, CreateClient(c, t, U)
        PROVE  RowsInv'
    <2>1. PICK x \in Secret, s \in Settings :
            /\ clients' = WithRow(clients, c, [tenant |-> t, secret |-> x, settings |-> s, status |-> "active"])
            /\ drawn' = drawn \cup {x}
      BY <1>8 DEF CreateClient
    <2>2. /\ UNCHANGED <<tenants, asked, loaded>> /\ t \in DOMAIN tenants /\ c \notin DOMAIN clients
          /\ uris' = WithRows(uris, U, c)
      BY <1>8 DEF CreateClient
    <2>3. /\ DOMAIN clients' = DOMAIN clients \cup {c}
          /\ \A k \in DOMAIN clients' : clients'[k] \in ClientRow /\ clients'[k].tenant \in DOMAIN tenants
          /\ \A k \in DOMAIN clients : clients'[k].tenant = clients[k].tenant
      <3> DEFINE new == [tenant |-> t, secret |-> x, settings |-> s, status |-> "active"]
      <3>1. new \in ClientRow /\ new.tenant = t /\ clients' = WithRow(clients, c, new)
        BY <1>0, <2>1 DEF ClientRow
      <3> HIDE DEF new
      <3> QED BY <1>0, <2>2, <3>1 DEF WithRow, TypeOK
    <2>4. DOMAIN uris' \subseteq Uri /\ \A u \in DOMAIN uris' : uris'[u] \in DOMAIN clients'
      BY <1>0, <2>2, <2>3 DEF WithRows, TypeOK
    <2> QED BY <1>0, <2>1, <2>2, <2>3, <2>4, RowsKept DEF TypeOK
  <1>9. ASSUME NEW c \in Client, UpdateSecretHash(c) \/ SoftDelete(c)
        PROVE  RowsInv'
    <2>1. /\ DOMAIN clients' = DOMAIN clients
          /\ \A k \in DOMAIN clients : clients'[k] \in ClientRow /\ clients'[k].tenant = clients[k].tenant
      BY <1>0, <1>9 DEF UpdateSecretHash, SoftDelete, ClientRow, TypeOK
    <2>2. UNCHANGED <<tenants, uris, asked, loaded>> /\ drawn' \subseteq Secret
      BY <1>0, <1>9 DEF UpdateSecretHash, SoftDelete, TypeOK
    <2> QED BY <1>0, <2>1, <2>2, RowsKept DEF TypeOK
  <1>10. ASSUME NEW c \in Client, NEW u \in Uri, CreateRedirectURI(c, u) \/ DeleteRedirectURI(c, u)
         PROVE  RowsInv'
    <2>1. UNCHANGED <<tenants, clients, drawn, asked, loaded>>
      BY <1>10 DEF CreateRedirectURI, DeleteRedirectURI
    <2>2. DOMAIN uris' \subseteq Uri /\ \A v \in DOMAIN uris' : uris'[v] \in DOMAIN clients
      BY <1>0, <1>10 DEF CreateRedirectURI, DeleteRedirectURI, WithRow, TypeOK
    <2> QED BY <1>0, <2>1, <2>2, RowsKept DEF TypeOK
  <1>11. CASE Crash
    <2>1. /\ Nothing \in Asked /\ Nothing.op = "nothing"
          /\ asked' = [a \in Admin |-> Nothing] /\ loaded' = [a \in Admin |-> NoRow]
          /\ UNCHANGED <<tenants, clients, uris, drawn>>
      BY <1>11 DEF Crash, Asked, Nothing
    <2> QED BY <1>0, <2>1, RowsKept DEF TypeOK
  <1>12. CASE UNCHANGED vars
    BY <1>0, <1>12, RowsKept DEF vars, TypeOK
  <1> QED
    BY <1>1, <1>2, <1>3, <1>4, <1>5, <1>6, <1>7, <1>8, <1>9, <1>10, <1>11, <1>12 DEF Next

(* The empty tables are typed. *)
LEMMA InitRowsInv == Init => RowsInv
PROOF
  <1> SUFFICES ASSUME Init PROVE RowsInv
    OBVIOUS
  <1>1. DOMAIN tenants = {} /\ DOMAIN clients = {} /\ DOMAIN uris = {} /\ drawn = {}
    BY DEF Init
  <1>2. /\ asked \in [Admin -> Asked] /\ \A a \in Admin : asked[a].op = "nothing"
        /\ loaded \in [Admin -> TenantRow \cup ClientRow \cup {NoRow}]
    BY DEF Init, Asked, Nothing
  <1> QED BY <1>1, <1>2 DEF RowsInv, TypeOK, LoadedRows

(* The tables keep their types and their references, whatever requests     *)
(* overlap (management/client.go, tenant.go, redirect_uri.go).             *)
THEOREM RowsTyped == Spec => []TypeOK
PROOF
  <1>1. RowsInv => TypeOK
    BY DEF RowsInv
  <1> QED BY <1>1, InitRowsInv, NextRowsInv, PTL DEF Spec

(* Two tenants share no code, whatever administrators do at once           *)
(* (CreateTenant).                                                         *)
THEOREM CodesUnique == Spec => []TenantCodesAreUnique
PROOF
  <1>1. Init => TenantCodesAreUnique
    BY DEF Init, TenantCodesAreUnique
  <1>2. RowsInv /\ TenantCodesAreUnique /\ [Next]_vars => TenantCodesAreUnique'
    <2> SUFFICES ASSUME RowsInv, TenantCodesAreUnique, [Next]_vars
                 PROVE  TenantCodesAreUnique'
      OBVIOUS
    <2>1. ASSUME NEW a \in Admin, CreateTenant(a)
          PROVE  TenantCodesAreUnique'
      <3>1. CASE UNCHANGED tenants
        BY <3>1 DEF TenantCodesAreUnique
      <3>2. CASE ~UNCHANGED tenants
        <4>1. PICK t \in Tenant \ DOMAIN tenants, s \in Settings :
                /\ DOMAIN tenants' = DOMAIN tenants \cup {t}
                /\ tenants'[t] = [code |-> asked[a].code, settings |-> s]
                /\ \A u \in DOMAIN tenants : tenants'[u] = tenants[u]
                /\ \A u \in DOMAIN tenants : tenants[u].code # asked[a].code
          BY <2>1, <3>2, TenantInserts
        <4>2. tenants'[t].code = asked[a].code
          BY <4>1
        <4> QED BY <4>1, <4>2 DEF TenantCodesAreUnique
      <3> QED BY <3>1, <3>2
    <2>2. ASSUME NEW a \in Admin, SaveTenant(a)
          PROVE  TenantCodesAreUnique'
      <3> DEFINE new == [loaded[a] EXCEPT !.settings = Edited(@, asked[a].patch)]
      <3>1. asked[a].op = "editTenant" /\ tenants' = [tenants EXCEPT ![asked[a].key] = new]
        BY <2>2 DEF SaveTenant
      <3>2. asked[a].key \in DOMAIN tenants /\ new.code = tenants[asked[a].key].code
        BY <3>1, HeldRecords DEF RowsInv, LoadedRows, TenantRow
      <3> HIDE DEF new
      <3>3. DOMAIN tenants' = DOMAIN tenants /\ \A t \in DOMAIN tenants : tenants'[t].code = tenants[t].code
        BY <3>1, <3>2
      <3> QED BY <3>3 DEF TenantCodesAreUnique
    <2>3. UNCHANGED tenants => TenantCodesAreUnique'
      BY DEF TenantCodesAreUnique
    <2> QED BY <2>1, <2>2, <2>3 DEF Next, vars, SaveClient, Abort, FindByCode, FindTenant,
                FindClient, CreateClient, UpdateSecretHash, SoftDelete, CreateRedirectURI,
                DeleteRedirectURI, Crash
  <1> QED BY <1>1, <1>2, InitRowsInv, NextRowsInv, PTL DEF Spec

-----------------------------------------------------------------------------
(* Refinement *)

(* The requests of the registry are those of the handlers. *)
LEMMA SameRequests ==
  Registry!Asked = Asked /\ Registry!Nothing = Nothing /\ Registry!Settings = Settings
  BY DEF Registry!Asked, Asked, Registry!Nothing, Nothing, Registry!Patch, Patch,
         Registry!Settings, Settings

(* A save writes the row in the table with its settings edited, or         *)
(* overwrites a row that has changed since it was loaded.                  *)
LEMMA TenantSaves ==
  ASSUME RowsInv, NEW a \in Admin, SaveTenant(a)
  PROVE  Registry!EditTenant(a) \/ LostUpdate
PROOF
  <1> DEFINE t == asked[a].key
             edited == Edited(loaded[a].settings, asked[a].patch)
  <1>1. /\ asked[a].op = "editTenant" /\ Finish(a) /\ UNCHANGED <<clients, uris, drawn>>
        /\ tenants' = [tenants EXCEPT ![t] = [loaded[a] EXCEPT !.settings = edited]]
    BY DEF SaveTenant
  <1>2. /\ t \in Tenant /\ t \in DOMAIN tenants
        /\ loaded[a] \in TenantRow /\ tenants[t] \in TenantRow
        /\ loaded[a].code = tenants[t].code
    BY <1>1, HeldRecords DEF RowsInv, LoadedRows, TypeOK
  <1> HIDE DEF t, edited
  <1>3. [loaded[a] EXCEPT !.settings = edited] = [tenants[t] EXCEPT !.settings = edited]
    BY <1>2 DEF TenantRow
  <1>4. tenants' = [tenants EXCEPT ![t].settings = edited]
    BY <1>1, <1>2, <1>3
  <1> USE DEF t, edited
  <1>5. CASE loaded[a] = tenants[t]
    <2>1. tenants' = [tenants EXCEPT ![asked[a].key].settings = Edited(@, asked[a].patch)]
      BY <1>4, <1>5
    <2> QED BY <1>1, <1>2, <2>1, SameRequests
            DEF Registry!EditTenant, Registry!Answer, Registry!Edited, Edited, Finish
  <1>6. CASE loaded[a] # tenants[t]
    <2>1. OverwritesTenant(a, t)
      BY <1>1, <1>4, <1>6 DEF OverwritesTenant
    <2> QED BY <1>1, <1>2, <2>1 DEF LostUpdate, Finish
  <1> QED BY <1>5, <1>6

LEMMA ClientSaves ==
  ASSUME RowsInv, NEW a \in Admin, SaveClient(a)
  PROVE  Registry!EditClient(a) \/ LostUpdate
PROOF
  <1> DEFINE c == asked[a].key
             edited == Edited(loaded[a].settings, asked[a].patch)
  <1>1. /\ asked[a].op = "editClient" /\ Finish(a) /\ UNCHANGED <<tenants, uris, drawn>>
        /\ clients' = [clients EXCEPT ![c] = [loaded[a] EXCEPT !.settings = edited]]
    BY DEF SaveClient
  <1>2. /\ c \in Client /\ c \in DOMAIN clients
        /\ loaded[a] \in ClientRow /\ clients[c] \in ClientRow
        /\ loaded[a].tenant = clients[c].tenant
    BY <1>1, HeldRecords DEF RowsInv, LoadedRows, TypeOK
  <1> HIDE DEF c, edited
  <1>3. [loaded[a] EXCEPT !.settings = edited]
          = [clients[c] EXCEPT !.settings = edited,
                               !.secret = loaded[a].secret, !.status = loaded[a].status]
    BY <1>2 DEF ClientRow
  <1>4. clients' = [clients EXCEPT ![c].settings = edited,
                                   ![c].secret = loaded[a].secret, ![c].status = loaded[a].status]
    BY <1>1, <1>2, <1>3
  <1>5. CASE loaded[a] = clients[c]
    <2>1. clients' = [clients EXCEPT ![c].settings = edited]
      BY <1>1, <1>2, <1>5
    <2> QED BY <1>1, <1>2, <1>5, <2>1, SameRequests
            DEF Registry!EditClient, Registry!Answer, Registry!Edited, Edited, Finish, c, edited
  <1>6. CASE loaded[a] # clients[c]
    <2>1. OverwritesClient(a, c)
      BY <1>1, <1>4, <1>6 DEF OverwritesClient, c, edited
    <2> QED BY <1>1, <1>2, <2>1 DEF LostUpdate, Finish
  <1> QED BY <1>5, <1>6

(* Every step is one step of the registry, a lost update, or leaves it     *)
(* alone.                                                                  *)
LEMMA StepsRefine ==
  ASSUME RowsInv, [Next]_vars
  PROVE  [Registry!Next \/ LostUpdate]_(Registry!registry)
PROOF
  <1>1. ASSUME NEW a \in Admin, CreateTenant(a)
        PROVE  Registry!Next
    <2>1. asked[a].op = "createTenant" /\ Registry!Answer(a) /\ UNCHANGED <<clients, uris, drawn>>
      BY <1>1, SameRequests DEF CreateTenant, Finish, Registry!Answer
    <2>2. CASE \E t \in DOMAIN tenants : tenants[t].code = asked[a].code
      <3>1. Registry!Withdraw(a)
        BY <1>1, <2>1, <2>2 DEF CreateTenant, Registry!Withdraw
      <3> QED BY <3>1 DEF Registry!Next
    <2>3. CASE \A t \in DOMAIN tenants : tenants[t].code # asked[a].code
      <3>1. PICK t \in Tenant \ DOMAIN tenants, s \in Settings :
              tenants' = WithRow(tenants, t, [code |-> asked[a].code, settings |-> s])
        BY <1>1, <2>3 DEF CreateTenant
      <3>2. Registry!AddTenant(a, t, s)
        BY <2>1, <2>3, <3>1 DEF Registry!AddTenant, Registry!WithRow, WithRow
      <3> QED BY <3>2, SameRequests DEF Registry!Next
    <2> QED BY <2>2, <2>3
  <1>2. ASSUME NEW a \in Admin, SaveTenant(a) \/ SaveClient(a)
        PROVE  Registry!Next \/ LostUpdate
    BY <1>2, TenantSaves, ClientSaves DEF Registry!Next
  <1>3. ASSUME NEW c \in Client, NEW t \in Tenant, NEW U \in SUBSET Uri, CreateClient(c, t, U)
        PROVE  Registry!Next
    <2>1. PICK x \in Secret \ drawn, s \in Settings :
            /\ clients' = WithRow(clients, c, [tenant |-> t, secret |-> x, settings |-> s, status |-> "active"])
            /\ drawn' = drawn \cup {x}
      BY <1>3 DEF CreateClient
    <2>2. Registry!AddClient(c, t, x, s, U)
      BY <1>3, <2>1 DEF CreateClient, Registry!AddClient, Registry!WithRow, WithRow,
                        Registry!WithRows, WithRows
    <2> QED BY <2>2, SameRequests DEF Registry!Next
  <1>4. ASSUME NEW c \in Client, UpdateSecretHash(c) \/ SoftDelete(c)
        PROVE  Registry!Next
    <2>1. (\E x \in Secret : Registry!ReplaceSecret(c, x)) \/ Registry!Disable(c)
      BY <1>4 DEF UpdateSecretHash, SoftDelete, Registry!ReplaceSecret, Registry!Disable
    <2> QED BY <2>1 DEF Registry!Next
  <1>5. ASSUME NEW c \in Client, NEW u \in Uri, CreateRedirectURI(c, u) \/ DeleteRedirectURI(c, u)
        PROVE  Registry!Next
    <2>1. Registry!AddUri(u, c) \/ Registry!RemoveUri(u)
      BY <1>5 DEF CreateRedirectURI, DeleteRedirectURI, Registry!AddUri, Registry!RemoveUri,
                  Registry!WithRow, WithRow
    <2> QED BY <2>1 DEF Registry!Next
  <1>6. ASSUME NEW a \in Admin, NEW q \in Asked, NEW row, Begin(a, q, row),
               UNCHANGED <<tenants, clients, uris, drawn>>
        PROVE  Registry!Next
    <2>1. Registry!Ask(a, q)
      BY <1>6, SameRequests DEF Begin, Registry!Ask
    <2> QED BY <2>1, SameRequests DEF Registry!Next
  <1>7. ASSUME NEW a \in Admin, NEW d \in TenantCode, FindByCode(a, d)
        PROVE  Registry!Next
    <2>1. [op |-> "createTenant", code |-> d] \in Asked
      BY DEF Asked
    <2> QED BY <1>6, <1>7, <2>1 DEF FindByCode
  <1>8. ASSUME NEW a \in Admin, NEW t \in Tenant, NEW p \in Patch, FindTenant(a, t, p)
        PROVE  Registry!Next
    <2>1. [op |-> "editTenant", key |-> t, patch |-> p] \in Asked
      BY DEF Asked
    <2> QED BY <1>6, <1>8, <2>1 DEF FindTenant
  <1>9. ASSUME NEW a \in Admin, NEW c \in Client, NEW p \in Patch, FindClient(a, c, p)
        PROVE  Registry!Next
    <2>1. [op |-> "editClient", key |-> c, patch |-> p] \in Asked
      BY DEF Asked
    <2> QED BY <1>6, <1>9, <2>1 DEF FindClient
  <1>10. ASSUME NEW a \in Admin, Abort(a)
         PROVE  Registry!Next
    <2>1. Registry!Withdraw(a)
      BY <1>10, SameRequests DEF Abort, Finish, Registry!Withdraw, Registry!Answer
    <2> QED BY <2>1 DEF Registry!Next
  <1>11. Crash => Registry!Next
    <2>1. Crash => Registry!Restart
      BY SameRequests DEF Crash, Registry!Restart
    <2> QED BY <2>1 DEF Registry!Next
  <1>12. UNCHANGED vars => UNCHANGED Registry!registry
    BY DEF vars, Registry!registry
  <1> QED BY <1>1, <1>2, <1>3, <1>4, <1>5, <1>7, <1>8, <1>9, <1>10, <1>11, <1>12 DEF Next

(* However requests overlap, an edit is atomic or takes back what was      *)
(* written since it loaded the row, and nothing beyond it (HandleUpdate).  *)
THEOREM OnlyLostUpdatesBreakAtomicity == Spec => AtomicButForLostUpdates
PROOF
  <1>1. Init => Registry!Init
    BY SameRequests DEF Init, Registry!Init
  <1>2. RowsInv /\ [Next]_vars => RowsInv' /\ [Registry!Next \/ LostUpdate]_(Registry!registry)
    BY NextRowsInv, StepsRefine
  <1> QED BY <1>1, <1>2, InitRowsInv, PTL DEF Spec, AtomicButForLostUpdates

(* A request holds a row that another one has changed since.               *)
Overtaken ==
  \E a \in Admin :
    \/ asked[a].op = "editTenant" /\ loaded[a] # tenants[asked[a].key]
    \/ asked[a].op = "editClient" /\ loaded[a] # clients[asked[a].key]

(* The registry's promise is kept until an edit is overtaken.              *)
THEOREM OvertakenEditsAloneLoseUpdates == Spec => Registry!Spec \/ <>Overtaken
PROOF
  <1>1. LostUpdate => Overtaken
    BY DEF LostUpdate, OverwritesTenant, OverwritesClient, Overtaken
  <1>2. [Registry!Next \/ LostUpdate]_(Registry!registry) /\ ~Overtaken =>
          [Registry!Next]_(Registry!registry)
    BY <1>1
  <1> QED BY <1>2, OnlyLostUpdatesBreakAtomicity, PTL DEF AtomicButForLostUpdates, Registry!Spec

-----------------------------------------------------------------------------
(* Dead secrets and disabled clients *)

(* What an edit in flight holds was in the table when this step began, or  *)
(* the edit held it already.                                               *)
LEMMA HeldRows ==
  ASSUME RowsInv, [Next]_vars, NEW c \in Client, NEW row \in Held(c)'
  PROVE  row \in Held(c) \/ (c \in DOMAIN clients /\ row = clients[c])
PROOF
  <1>0. /\ asked \in [Admin -> Asked] /\ Nothing.op = "nothing"
        /\ loaded \in [Admin -> TenantRow \cup ClientRow \cup {NoRow}]
    BY DEF RowsInv, TypeOK, Nothing
  <1>1. PICK a \in Admin : asked'[a].op = "editClient" /\ asked'[a].key = c /\ row = loaded'[a]
    BY DEF Held
  <1>2. CASE asked'[a] = asked[a] /\ loaded'[a] = loaded[a]
    BY <1>1, <1>2 DEF Held
  <1>3. CASE ~(asked'[a] = asked[a] /\ loaded'[a] = loaded[a])
    <2>1. ASSUME NEW b \in Admin, CreateTenant(b) \/ SaveTenant(b) \/ SaveClient(b) \/ Abort(b)
          PROVE  asked'[a].op = "nothing"
      <3>1. Finish(b)
        BY <2>1 DEF CreateTenant, SaveTenant, SaveClient, Abort
      <3> QED BY <1>0, <1>3, <3>1 DEF Finish
    <2>2. ASSUME NEW b \in Admin, NEW d \in TenantCode, FindByCode(b, d)
          PROVE  asked'[a].op = "createTenant"
      BY <1>0, <1>3, <2>2 DEF FindByCode, Begin
    <2>3. ASSUME NEW b \in Admin, NEW t \in Tenant, NEW p \in Patch, FindTenant(b, t, p)
          PROVE  asked'[a].op = "editTenant"
      BY <1>0, <1>3, <2>3 DEF FindTenant, Begin
    <2>4. ASSUME NEW b \in Admin, NEW k \in Client, NEW p \in Patch, FindClient(b, k, p)
          PROVE  c \in DOMAIN clients /\ row = clients[c]
      <3> DEFINE q == [op |-> "editClient", key |-> k, patch |-> p]
      <3>1. Begin(b, q, clients[k]) /\ k \in DOMAIN clients /\ q.key = k
        BY <2>4 DEF FindClient
      <3> HIDE DEF q
      <3> QED BY <1>0, <1>1, <1>3, <3>1 DEF Begin
    <2>5. CASE Crash
      BY <1>0, <1>1, <2>5 DEF Crash
    <2> QED BY <1>1, <1>3, <2>1, <2>2, <2>3, <2>4, <2>5 DEF Next, vars, CreateClient,
               UpdateSecretHash, SoftDelete, CreateRedirectURI, DeleteRedirectURI
  <1> QED BY <1>2, <1>3

(* Where the secret and the status of a row can come from: they were in    *)
(* the row, or in one an edit holds, or the secret is new, or the client   *)
(* is disabled now.                                                        *)
LEMMA ClientWrites ==
  ASSUME RowsInv, [Next]_vars, NEW c \in DOMAIN clients'
  PROVE  \/ /\ c \in DOMAIN clients
            /\ \E row \in Held(c) \cup {clients[c]} :
                 /\ clients'[c].secret = row.secret
                 /\ clients'[c].status \in {row.status, "disabled"}
         \/ /\ clients'[c].secret \notin drawn
            /\ c \in DOMAIN clients => clients'[c].status = clients[c].status
PROOF
  <1>0. DOMAIN clients \subseteq Client /\ LoadedRows
    BY DEF RowsInv, TypeOK
  <1>1. CASE UNCHANGED clients
    BY <1>1
  <1>2. ASSUME NEW k \in Client, NEW t \in Tenant, NEW U \in SUBSET Uri, CreateClient(k, t, U)
        PROVE  \/ c \in DOMAIN clients /\ clients'[c] = clients[c]
               \/ c \notin DOMAIN clients /\ clients'[c].secret \notin drawn
    <2>1. PICK x \in Secret \ drawn, s \in Settings :
            clients' = WithRow(clients, k, [tenant |-> t, secret |-> x, settings |-> s, status |-> "active"])
      BY <1>2 DEF CreateClient
    <2> DEFINE new == [tenant |-> t, secret |-> x, settings |-> s, status |-> "active"]
    <2>2. clients' = WithRow(clients, k, new) /\ new.secret = x /\ k \notin DOMAIN clients
      BY <1>2, <2>1 DEF CreateClient
    <2> HIDE DEF new
    <2> QED BY <2>2 DEF WithRow
  <1>3. ASSUME NEW k \in Client, UpdateSecretHash(k)
        PROVE  /\ c \in DOMAIN clients /\ clients'[c].status = clients[c].status
               /\ clients'[c].secret = clients[c].secret \/ clients'[c].secret \notin drawn
    BY <1>3 DEF UpdateSecretHash
  <1>4. ASSUME NEW k \in Client, SoftDelete(k)
        PROVE  /\ c \in DOMAIN clients /\ clients'[c].status \in {clients[c].status, "disabled"}
               /\ clients'[c].secret = clients[c].secret
    BY <1>4 DEF SoftDelete
  <1>5. ASSUME NEW a \in Admin, SaveClient(a)
        PROVE  /\ c \in DOMAIN clients
               /\ \E row \in Held(c) \cup {clients[c]} :
                    clients'[c].secret = row.secret /\ clients'[c].status = row.status
    <2> DEFINE new == [loaded[a] EXCEPT !.settings = Edited(@, asked[a].patch)]
    <2>1. asked[a].op = "editClient" /\ clients' = [clients EXCEPT ![asked[a].key] = new]
      BY <1>5 DEF SaveClient
    <2>2. new.secret = loaded[a].secret /\ new.status = loaded[a].status
      BY <1>0, <2>1 DEF LoadedRows, ClientRow
    <2> HIDE DEF new
    <2>3. c \in DOMAIN clients
      BY <2>1
    <2>4. CASE c = asked[a].key
      <3>1. loaded[a] \in Held(c)
        BY <2>1, <2>4 DEF Held
      <3> QED BY <2>1, <2>2, <2>3, <2>4, <3>1
    <2>5. CASE c # asked[a].key
      BY <2>1, <2>3, <2>5
    <2> QED BY <2>4, <2>5
  <1>6. \/ UNCHANGED clients
        \/ \E k \in Client, t \in Tenant, U \in SUBSET Uri : CreateClient(k, t, U)
        \/ \E k \in Client : UpdateSecretHash(k)
        \/ \E k \in Client : SoftDelete(k)
        \/ \E a \in Admin : SaveClient(a)
    BY DEF Next, vars, CreateTenant, SaveTenant, Abort, FindByCode, FindTenant, FindClient,
           CreateRedirectURI, DeleteRedirectURI, Crash
  <1>7. CASE \E k \in Client, t \in Tenant, U \in SUBSET Uri : CreateClient(k, t, U)
    BY <1>2, <1>7
  <1>8. CASE \E k \in Client : UpdateSecretHash(k)
    BY <1>3, <1>8
  <1>9. CASE \E k \in Client : SoftDelete(k)
    BY <1>4, <1>9
  <1>10. CASE \E a \in Admin : SaveClient(a)
    BY <1>5, <1>10
  <1> QED BY <1>1, <1>6, <1>7, <1>8, <1>9, <1>10

(* A client is never removed from the table. *)
LEMMA ClientsStay ==
  ASSUME RowsInv, [Next]_vars
  PROVE  DOMAIN clients \subseteq DOMAIN clients'
  BY DEF Next, vars, CreateTenant, SaveTenant, SaveClient, Abort, FindByCode, FindTenant,
         FindClient, CreateClient, UpdateSecretHash, SoftDelete, CreateRedirectURI,
         DeleteRedirectURI, Crash, WithRow

(* A rotated secret, and the secret of a disabled client, are refused for  *)
(* good once the edits that loaded them are over (HandleUpdate,            *)
(* HandleRotateSecret, HandleDelete).                                      *)
THEOREM SecretsDieOnceForgotten == Spec => ForgottenSecretsStayDead
PROOF
  <1>1. ASSUME RowsInv, [Next]_vars, NEW c \in Client, NEW x \in drawn, Forgotten(c, x)
        PROVE  Forgotten(c, x)'
    <2>1. ~ClientAuthenticated(c, x)'
      <3> SUFFICES ASSUME c \in DOMAIN clients', clients'[c].status = "active", clients'[c].secret = x
                   PROVE  FALSE
        BY DEF ClientAuthenticated
      <3>1. /\ c \in DOMAIN clients
            /\ \E row \in Held(c) \cup {clients[c]} : row.secret = x /\ row.status = "active"
        BY <1>1, ClientWrites
      <3> QED BY <1>1, <3>1 DEF Forgotten, ClientAuthenticated
    <2>2. \A row \in Held(c)' : row.status = "disabled" \/ row.secret # x
      <3> SUFFICES ASSUME NEW row \in Held(c)' PROVE row.status = "disabled" \/ row.secret # x
        OBVIOUS
      <3>1. CASE row \in Held(c)
        BY <1>1, <3>1 DEF Forgotten
      <3>2. CASE c \in DOMAIN clients /\ row = clients[c]
        BY <1>1, <3>2 DEF Forgotten, ClientAuthenticated, RowsInv, TypeOK, ClientRow
      <3> QED BY <1>1, <3>1, <3>2, HeldRows
    <2> QED BY <2>1, <2>2 DEF Forgotten
  <1>2. RowsInv /\ [Next]_vars =>
          [\A c \in Client, x \in drawn : Forgotten(c, x) => Forgotten(c, x)']_vars
    BY <1>1
  <1> QED BY <1>2, InitRowsInv, NextRowsInv, PTL DEF Spec, ForgottenSecretsStayDead

(* /authorize refuses a disabled client for good once the edits that       *)
(* loaded it active are over (HandleUpdate, HandleDelete).                 *)
THEOREM RemovalIsFinal == Spec => RemovedClientsStayOut
PROOF
  <1>1. ASSUME RowsInv, [Next]_vars, NEW c \in Client, Removed(c)
        PROVE  Removed(c)' /\ \A u \in Uri : ~RedirectAccepted(c, u)'
    <2>1. c \in DOMAIN clients /\ c \in DOMAIN clients' /\ clients[c].status = "disabled"
      BY <1>1, ClientsStay DEF Removed
    <2>2. clients'[c].status = "disabled"
      BY <1>1, <2>1, ClientWrites DEF Removed
    <2>3. \A row \in Held(c)' : row.status = "disabled"
      BY <1>1, HeldRows DEF Removed
    <2> QED BY <2>1, <2>2, <2>3 DEF Removed, RedirectAccepted
  <1>2. RowsInv /\ [Next]_vars =>
          [\A c \in Client, u \in Uri : Removed(c) => Removed(c)' /\ ~RedirectAccepted(c, u)']_vars
    BY <1>1
  <1> QED BY <1>2, InitRowsInv, NextRowsInv, PTL DEF Spec, RemovedClientsStayOut

=============================================================================
