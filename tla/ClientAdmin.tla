----------------------------- MODULE ClientAdmin -----------------------------
(***************************************************************************)
(* The management API over the tables tenants, clients and redirect_uris,  *)
(* and the two guards of the OpenID endpoints that read them.              *)
(*                                                                         *)
(* PUT on a tenant or a client loads the row, changes it in memory and     *)
(* saves every column of it: two statements, with whatever other requests  *)
(* write in between.  The other handlers look a row up, too, but what they *)
(* read of it never changes (no tenant or client is deleted, no redirect   *)
(* URI changes its client), and they write the columns they name: each is  *)
(* one action.  A secret stands for itself and for its hash.               *)
(*                                                                         *)
(* A definition D_How is D with the mistake How names.  No specification   *)
(* uses it: put in the place of D, it breaks a property below.             *)
(***************************************************************************)
EXTENDS Rows

CONSTANTS Tenant, TenantCode, Client, Uri, Secret, Field, Value,
          Admin   \* goroutines of the management API

VARIABLES tenants, clients, uris, drawn, asked,
          loaded   \* the row each goroutine has read and is about to save

vars == <<tenants, clients, uris, drawn, asked, loaded>>

Settings == [Field -> Value]
Patch == UNION {[F -> Value] : F \in SUBSET Field}

TenantRow == [code : TenantCode, settings : Settings]
ClientRow == [tenant : Tenant, secret : Secret, settings : Settings,
              status : {"active", "disabled"}]

Nothing == [op |-> "nothing"]
NoRow == <<>>

Asked ==
  {Nothing} \cup [op : {"createTenant"}, code : TenantCode]
            \cup [op : {"editTenant"}, key : Tenant, patch : Patch]
            \cup [op : {"editClient"}, key : Client, patch : Patch]

TypeOK ==
  /\ DOMAIN tenants \subseteq Tenant /\ \A t \in DOMAIN tenants : tenants[t] \in TenantRow
  /\ DOMAIN clients \subseteq Client
  /\ \A c \in DOMAIN clients : clients[c] \in ClientRow /\ clients[c].tenant \in DOMAIN tenants
  /\ DOMAIN uris \subseteq Uri /\ \A u \in DOMAIN uris : uris[u] \in DOMAIN clients
  /\ drawn \subseteq Secret
  /\ asked \in [Admin -> Asked]
  /\ loaded \in [Admin -> TenantRow \cup ClientRow \cup {NoRow}]

Init ==
  /\ tenants = <<>> /\ clients = <<>> /\ uris = <<>> /\ drawn = {}
  /\ asked = [a \in Admin |-> Nothing]
  /\ loaded = [a \in Admin |-> NoRow]

Begin(a, q, row) ==
  /\ asked[a] = Nothing
  /\ asked' = [asked EXCEPT ![a] = q]
  /\ loaded' = [loaded EXCEPT ![a] = row]

Finish(a) ==
  /\ asked' = [asked EXCEPT ![a] = Nothing]
  /\ loaded' = [loaded EXCEPT ![a] = NoRow]

-----------------------------------------------------------------------------
(* The guards of the OpenID endpoints *)

(* /token and /revoke: the client is active and the secret matches.        *)
ClientAuthenticated(c, x) ==
  c \in DOMAIN clients /\ clients[c].status = "active" /\ clients[c].secret = x

(* /authorize: the client is active and the redirect URI is one of its own.*)
RedirectAccepted(c, u) ==
  /\ c \in DOMAIN clients /\ clients[c].status = "active"
  /\ u \in DOMAIN uris /\ uris[u] = c

-----------------------------------------------------------------------------
(* Tenants *)

(* POST checks that the code is free ... *)
FindByCode(a, d) ==
  /\ \A t \in DOMAIN tenants : tenants[t].code # d
  /\ Begin(a, [op |-> "createTenant", code |-> d], NoRow)
  /\ UNCHANGED <<tenants, clients, uris, drawn>>

(* ... and inserts; the unique index refuses a code taken meanwhile.       *)
CreateTenant_TrustsTheCheck(a) ==
  /\ asked[a].op = "createTenant"
  /\ \E t \in Tenant \ DOMAIN tenants, s \in Settings :
       tenants' = WithRow(tenants, t, [code |-> asked[a].code, settings |-> s])
  /\ Finish(a)
  /\ UNCHANGED <<clients, uris, drawn>>

CreateTenant(a) ==
  /\ asked[a].op = "createTenant"
  /\ IF \E t \in DOMAIN tenants : tenants[t].code = asked[a].code
     THEN UNCHANGED tenants
     ELSE \E t \in Tenant \ DOMAIN tenants, s \in Settings :
            tenants' = WithRow(tenants, t, [code |-> asked[a].code, settings |-> s])
  /\ Finish(a)
  /\ UNCHANGED <<clients, uris, drawn>>

FindTenant(a, t, p) ==
  /\ t \in DOMAIN tenants
  /\ Begin(a, [op |-> "editTenant", key |-> t, patch |-> p], tenants[t])
  /\ UNCHANGED <<tenants, clients, uris, drawn>>

SaveTenant_ResetsTheOthers(a) ==
  /\ asked[a].op = "editTenant"
  /\ \E s \in Settings :
       tenants' = [tenants EXCEPT ![asked[a].key] = [loaded[a] EXCEPT !.settings = Edited(s, asked[a].patch)]]
  /\ Finish(a)
  /\ UNCHANGED <<clients, uris, drawn>>

SaveTenant(a) ==
  /\ asked[a].op = "editTenant"
  /\ tenants' = [tenants EXCEPT ![asked[a].key] = [loaded[a] EXCEPT !.settings = Edited(@, asked[a].patch)]]
  /\ Finish(a)
  /\ UNCHANGED <<clients, uris, drawn>>

-----------------------------------------------------------------------------
(* Clients *)

(* POST inserts the client and its redirect URIs in one transaction.       *)
CreateClient_AnyTenant(c, t, U) ==
  /\ c \notin DOMAIN clients /\ U \cap DOMAIN uris = {}
  /\ \E x \in Secret \ drawn, s \in Settings :
       /\ clients' = WithRow(clients, c, [tenant |-> t, secret |-> x, settings |-> s, status |-> "active"])
       /\ drawn' = drawn \cup {x}
  /\ uris' = WithRows(uris, U, c)
  /\ UNCHANGED <<tenants, asked, loaded>>

CreateClient(c, t, U) ==
  /\ c \notin DOMAIN clients /\ t \in DOMAIN tenants /\ U \cap DOMAIN uris = {}
  /\ \E x \in Secret \ drawn, s \in Settings :
       /\ clients' = WithRow(clients, c, [tenant |-> t, secret |-> x, settings |-> s, status |-> "active"])
       /\ drawn' = drawn \cup {x}
  /\ uris' = WithRows(uris, U, c)
  /\ UNCHANGED <<tenants, asked, loaded>>

FindClient(a, c, p) ==
  /\ c \in DOMAIN clients
  /\ Begin(a, [op |-> "editClient", key |-> c, patch |-> p], clients[c])
  /\ UNCHANGED <<tenants, clients, uris, drawn>>

SaveClient_Reactivates(a) ==
  /\ asked[a].op = "editClient"
  /\ clients' = [clients EXCEPT ![asked[a].key] =
       [loaded[a] EXCEPT !.settings = Edited(@, asked[a].patch), !.status = "active"]]
  /\ Finish(a)
  /\ UNCHANGED <<tenants, uris, drawn>>

(* Save writes every column of the row as it was loaded, the secret hash   *)
(* and the status among them.                                              *)
SaveClient(a) ==
  /\ asked[a].op = "editClient"
  /\ clients' = [clients EXCEPT ![asked[a].key] = [loaded[a] EXCEPT !.settings = Edited(@, asked[a].patch)]]
  /\ Finish(a)
  /\ UNCHANGED <<tenants, uris, drawn>>

UpdateSecretHash_DrawsAgain(c) ==
  /\ c \in DOMAIN clients
  /\ \E x \in Secret :
       /\ clients' = [clients EXCEPT ![c].secret = x]
       /\ drawn' = drawn \cup {x}
  /\ UNCHANGED <<tenants, uris, asked, loaded>>

UpdateSecretHash(c) ==
  /\ c \in DOMAIN clients
  /\ \E x \in Secret \ drawn :
       /\ clients' = [clients EXCEPT ![c].secret = x]
       /\ drawn' = drawn \cup {x}
  /\ UNCHANGED <<tenants, uris, asked, loaded>>

SoftDelete(c) ==
  /\ c \in DOMAIN clients
  /\ clients' = [clients EXCEPT ![c].status = "disabled"]
  /\ UNCHANGED <<tenants, uris, drawn, asked, loaded>>

-----------------------------------------------------------------------------
(* Redirect URIs.  Nothing asks whether the client is active.              *)

CreateRedirectURI(c, u) ==
  /\ c \in DOMAIN clients /\ u \notin DOMAIN uris
  /\ uris' = WithRow(uris, u, c)
  /\ UNCHANGED <<tenants, clients, drawn, asked, loaded>>

DeleteRedirectURI(c, u) ==
  /\ u \in DOMAIN uris /\ uris[u] = c
  /\ uris' = [v \in DOMAIN uris \ {u} |-> uris[v]]
  /\ UNCHANGED <<tenants, clients, drawn, asked, loaded>>

-----------------------------------------------------------------------------
(* A statement fails, or the process stops: what was read is lost.         *)

Abort(a) ==
  /\ asked[a] # Nothing
  /\ Finish(a)
  /\ UNCHANGED <<tenants, clients, uris, drawn>>

Crash ==
  /\ asked' = [a \in Admin |-> Nothing]
  /\ loaded' = [a \in Admin |-> NoRow]
  /\ UNCHANGED <<tenants, clients, uris, drawn>>

-----------------------------------------------------------------------------

Next ==
  \/ \E a \in Admin : CreateTenant(a) \/ SaveTenant(a) \/ SaveClient(a) \/ Abort(a)
  \/ \E a \in Admin, d \in TenantCode : FindByCode(a, d)
  \/ \E a \in Admin, t \in Tenant, p \in Patch : FindTenant(a, t, p)
  \/ \E a \in Admin, c \in Client, p \in Patch : FindClient(a, c, p)
  \/ \E c \in Client, t \in Tenant, U \in SUBSET Uri : CreateClient(c, t, U)
  \/ \E c \in Client : UpdateSecretHash(c) \/ SoftDelete(c)
  \/ \E c \in Client, u \in Uri : CreateRedirectURI(c, u) \/ DeleteRedirectURI(c, u)
  \/ Crash

Spec == Init /\ [][Next]_vars

-----------------------------------------------------------------------------
(* Properties *)

(* No two tenants share a code, though two administrators may both find it *)
(* free (tenant.go:122, the unique index of tenants.code).                 *)
TenantCodesAreUnique ==
  \A t, u \in DOMAIN tenants : tenants[t].code = tenants[u].code => t = u

(* A secret that no longer authenticates its client, because it was        *)
(* rotated or the client was disabled, never does so again                 *)
(* (docs/plan/phase2-implementation-plan.md:182 and 199).                  *)
DeadSecretsStayDead ==
  [][\A c \in Client, x \in drawn :
       ~ClientAuthenticated(c, x) => ~ClientAuthenticated(c, x)']_vars

(* The rows of client c that edits in flight have loaded and will save.    *)
Held(c) == {loaded[a] : a \in {b \in Admin : asked[b].op = "editClient" /\ asked[b].key = c}}

(* A dead secret comes back only through an edit that loaded the client    *)
(* while it was alive: once those in flight at the rotation or the disable *)
(* are over, no edit, failure or restart revives it, however requests      *)
(* overlap (client.go:321-375).                                            *)
Forgotten(c, x) ==
  /\ ~ClientAuthenticated(c, x)
  /\ \A row \in Held(c) : row.status = "disabled" \/ row.secret # x

ForgottenSecretsStayDead ==
  [][\A c \in Client, x \in drawn : Forgotten(c, x) => Forgotten(c, x)']_vars

(* The same of a disabled client and /authorize: once the edits that       *)
(* loaded it active are over, it is refused for good, whatever redirect    *)
(* URIs are added to it (phase2-implementation-plan.md:198).               *)
Removed(c) ==
  /\ c \in DOMAIN clients /\ clients[c].status = "disabled"
  /\ \A row \in Held(c) : row.status = "disabled"

RemovedClientsStayOut ==
  [][\A c \in Client, u \in Uri : Removed(c) => Removed(c)' /\ ~RedirectAccepted(c, u)']_vars

(* A save of a row that has changed since it was loaded takes back what    *)
(* changed it: the settings, and of a client the secret and the status.    *)
(* The code of a tenant and the tenant of a client it leaves as they are.  *)
OverwritesTenant(a, t) ==
  /\ asked[a].op = "editTenant" /\ asked[a].key = t /\ loaded[a] # tenants[t]
  /\ tenants' = [tenants EXCEPT ![t].settings = Edited(loaded[a].settings, asked[a].patch)]
  /\ UNCHANGED clients

OverwritesClient(a, c) ==
  /\ asked[a].op = "editClient" /\ asked[a].key = c /\ loaded[a] # clients[c]
  /\ clients' = [clients EXCEPT ![c].settings = Edited(loaded[a].settings, asked[a].patch),
                                ![c].secret = loaded[a].secret, ![c].status = loaded[a].status]
  /\ UNCHANGED tenants

LostUpdate ==
  \E a \in Admin :
    /\ (\E t \in Tenant : OverwritesTenant(a, t)) \/ (\E c \in Client : OverwritesClient(a, c))
    /\ asked' = [asked EXCEPT ![a] = Nothing]
    /\ UNCHANGED <<uris, drawn>>

(* Every request takes effect as if it were one step, and an edit changes  *)
(* only the settings it names, but for the saves of a row that another     *)
(* request has changed meanwhile.                                          *)
Registry == INSTANCE ClientRegistry

AtomicButForLostUpdates ==
  Registry!Init /\ [][Registry!Next \/ LostUpdate]_(Registry!registry)

=============================================================================
