---------------------------- MODULE ClientRegistry ----------------------------
(***************************************************************************)
(* What the management API promises about tenants, clients and redirect    *)
(* URIs: between the question and the answer, every request takes effect   *)
(* in one step or not at all, and an edit touches the settings it names    *)
(* and nothing else.                                                       *)
(***************************************************************************)
EXTENDS Rows

CONSTANTS
  Tenant, TenantCode, Client, Uri, Secret,
  Field,   \* the settings of a tenant or client that can be edited
  Value,   \* their values
  Admin    \* goroutines of the management API

VARIABLES
  tenants,  \* tenant  |-> its code and settings
  clients,  \* client  |-> its tenant, the secret whose hash it holds, settings, status
  uris,     \* row of redirect_uris |-> its client
  drawn,    \* the secrets generated so far
  asked     \* what each goroutine was asked to do and has not answered yet

registry == <<tenants, clients, uris, drawn, asked>>

Settings == [Field -> Value]

Patch == UNION {[F -> Value] : F \in SUBSET Field}

Nothing == [op |-> "nothing"]

Asked ==
  {Nothing} \cup [op : {"createTenant"}, code : TenantCode]
            \cup [op : {"editTenant"}, key : Tenant, patch : Patch]
            \cup [op : {"editClient"}, key : Client, patch : Patch]

Init ==
  /\ tenants = <<>> /\ clients = <<>> /\ uris = <<>> /\ drawn = {}
  /\ asked = [a \in Admin |-> Nothing]

Ask(a, q) ==
  /\ asked[a] = Nothing
  /\ asked' = [asked EXCEPT ![a] = q]
  /\ UNCHANGED <<tenants, clients, uris, drawn>>

Answer(a) == asked' = [asked EXCEPT ![a] = Nothing]

(* A request that is refused, or fails, does nothing. *)
Withdraw(a) ==
  /\ Answer(a)
  /\ UNCHANGED <<tenants, clients, uris, drawn>>

Restart ==
  /\ asked' = [a \in Admin |-> Nothing]
  /\ UNCHANGED <<tenants, clients, uris, drawn>>

AddTenant(a, t, s) ==
  /\ asked[a].op = "createTenant"
  /\ t \notin DOMAIN tenants /\ \A u \in DOMAIN tenants : tenants[u].code # asked[a].code
  /\ tenants' = WithRow(tenants, t, [code |-> asked[a].code, settings |-> s])
  /\ Answer(a)
  /\ UNCHANGED <<clients, uris, drawn>>

EditTenant(a) ==
  /\ asked[a].op = "editTenant" /\ asked[a].key \in DOMAIN tenants
  /\ tenants' = [tenants EXCEPT ![asked[a].key].settings = Edited(@, asked[a].patch)]
  /\ Answer(a)
  /\ UNCHANGED <<clients, uris, drawn>>

EditClient(a) ==
  /\ asked[a].op = "editClient" /\ asked[a].key \in DOMAIN clients
  /\ clients' = [clients EXCEPT ![asked[a].key].settings = Edited(@, asked[a].patch)]
  /\ Answer(a)
  /\ UNCHANGED <<tenants, uris, drawn>>

AddClient(c, t, x, s, U) ==
  /\ c \notin DOMAIN clients /\ t \in DOMAIN tenants /\ x \notin drawn
  /\ U \cap DOMAIN uris = {}
  /\ clients' = WithRow(clients, c, [tenant |-> t, secret |-> x, settings |-> s, status |-> "active"])
  /\ uris' = WithRows(uris, U, c)
  /\ drawn' = drawn \cup {x}
  /\ UNCHANGED <<tenants, asked>>

ReplaceSecret(c, x) ==
  /\ c \in DOMAIN clients /\ x \notin drawn
  /\ clients' = [clients EXCEPT ![c].secret = x]
  /\ drawn' = drawn \cup {x}
  /\ UNCHANGED <<tenants, uris, asked>>

Disable(c) ==
  /\ c \in DOMAIN clients
  /\ clients' = [clients EXCEPT ![c].status = "disabled"]
  /\ UNCHANGED <<tenants, uris, drawn, asked>>

AddUri(u, c) ==
  /\ u \notin DOMAIN uris /\ c \in DOMAIN clients
  /\ uris' = WithRow(uris, u, c)
  /\ UNCHANGED <<tenants, clients, drawn, asked>>

RemoveUri(u) ==
  /\ u \in DOMAIN uris
  /\ uris' = [v \in DOMAIN uris \ {u} |-> uris[v]]
  /\ UNCHANGED <<tenants, clients, drawn, asked>>

Next ==
  \/ \E a \in Admin : EditTenant(a) \/ EditClient(a) \/ Withdraw(a)
  \/ \E a \in Admin, q \in Asked : Ask(a, q)
  \/ \E a \in Admin, t \in Tenant, s \in Settings : AddTenant(a, t, s)
  \/ \E c \in Client, t \in Tenant, x \in Secret, s \in Settings, U \in SUBSET Uri :
       AddClient(c, t, x, s, U)
  \/ \E c \in Client, x \in Secret : ReplaceSecret(c, x)
  \/ \E c \in Client : Disable(c)
  \/ \E u \in Uri, c \in Client : AddUri(u, c)
  \/ \E u \in Uri : RemoveUri(u)
  \/ Restart

Spec == Init /\ [][Next]_registry

=============================================================================
