----------------------------- MODULE SigningKeys -----------------------------
(***************************************************************************)
(* The signing keys of the OpenID provider: the table sign_keys, the boot  *)
(* of the server process, the key endpoints of the management API and the  *)
(* readers of the keys (the token endpoint, /jwks and whatever validates   *)
(* an access token).                                                       *)
(*                                                                         *)
(* One action is one SQL statement, or the key generation that precedes    *)
(* the insert: created_at is drawn with the kid, so a key may be inserted  *)
(* after one that was drawn later.  No handler opens a transaction.        *)
(*                                                                         *)
(* A definition D_How is D with the mistake How names.  No specification   *)
(* uses it: put in the place of D, it breaks a property below.             *)
(***************************************************************************)
EXTENDS Naturals, Sequences, FiniteSets

CONSTANTS
  Kid,          \* key ids, the values of sign_keys.kid
  Admin,        \* goroutines of the management API
  Deactivator,  \* those that serve DELETE /keys/:kid too
  Main,         \* the goroutine of main, which boots the server
  MaxFaults,    \* bound: failed statements and crashes
  None

ASSUME ActorsAreTyped ==
  Deactivator \subseteq Admin /\ Main \notin Admin /\ None \notin Kid /\ MaxFaults \in Nat

VARIABLES
  keys,      \* the kids that have a row
  active,    \* the rows with active = true; the others have rotated_at set
  drawn,     \* the kids drawn so far, in the order of their created_at
  deleted,   \* history: kids an administrator has deactivated by name
  signed,    \* history: kids some issued token names in its header
  act,       \* what each goroutine is about to do, and to which key
  up,        \* the server has booted and serves requests
  faults

rows == <<keys, active, deleted>>
vars == <<keys, active, drawn, deleted, signed, act, up, faults>>

Actor == Admin \cup {Main}

ActorState == [pc : {"idle", "generate", "insert", "count", "deactivate"},
               kid : Kid \cup {None}]

Idle == [pc |-> "idle", kid |-> None]

SeqToSet(s) == {s[i] : i \in DOMAIN s}

TypeOK ==
  /\ active \subseteq keys /\ keys \subseteq SeqToSet(drawn)
  /\ drawn \in Seq(Kid)
  /\ deleted \cup signed \subseteq keys
  /\ act \in [Actor -> ActorState]
  /\ up \in BOOLEAN
  /\ faults \in Nat

Init ==
  /\ keys = {} /\ active = {} /\ deleted = {} /\ signed = {}
  /\ drawn = <<>>
  /\ act = [a \in Actor |-> Idle]
  /\ up = FALSE
  /\ faults = 0

-----------------------------------------------------------------------------
(* Readers *)

Before(k, l) == \E i, j \in DOMAIN drawn : i < j /\ drawn[i] = k /\ drawn[j] = l

(* FindActive: the active row with the latest created_at. *)
FindActive_Oldest == CHOOSE k \in active : \A l \in active \ {k} : Before(k, l)

FindActive == CHOOSE k \in active : \A l \in active \ {k} : Before(l, k)

(* GetJWKSet publishes, and ValidateAccessToken accepts, the active rows. *)
JWKSet == active

Goto(a, pc) == act' = [act EXCEPT ![a].pc = pc]
Finish(a) == act' = [act EXCEPT ![a] = Idle]

(* Bound: a rotation starts only if a kid is left for everyone who draws.  *)
AKidIsLeft ==
  Cardinality({a \in Actor : act[a].pc = "generate"}) + Len(drawn) < Cardinality(Kid)

-----------------------------------------------------------------------------
(* The boot of the server: EnsureSigningKey *)

EnsureSigningKey_AnyKey ==
  /\ ~up /\ act[Main].pc = "idle"
  /\ IF keys # {} THEN up' = TRUE /\ UNCHANGED act
                  ELSE AKidIsLeft /\ Goto(Main, "generate") /\ UNCHANGED up
  /\ UNCHANGED <<rows, drawn, signed, faults>>

EnsureSigningKey_ReactivatesOldKeys ==
  /\ ~up /\ act[Main].pc = "idle"
  /\ IF keys # {} THEN up' = TRUE /\ active' = keys /\ UNCHANGED act
                  ELSE AKidIsLeft /\ Goto(Main, "generate") /\ UNCHANGED <<active, up>>
  /\ UNCHANGED <<keys, deleted, drawn, signed, faults>>

EnsureSigningKey ==
  /\ ~up /\ act[Main].pc = "idle"
  /\ IF active # {} THEN up' = TRUE /\ UNCHANGED act
                    ELSE AKidIsLeft /\ Goto(Main, "generate") /\ UNCHANGED up
  /\ UNCHANGED <<rows, drawn, signed, faults>>

-----------------------------------------------------------------------------
(* generateAndSaveKey, for the boot and for a rotation *)

(* The key pair, its encryption, the kid and, last, created_at. *)
GenerateKey(a) ==
  /\ act[a].pc = "generate"
  /\ \E k \in Kid \ SeqToSet(drawn) :
       /\ drawn' = Append(drawn, k)
       /\ act' = [act EXCEPT ![a] = [pc |-> "insert", kid |-> k]]
  /\ UNCHANGED <<rows, signed, up, faults>>

InsertKey_Inactive(a) ==
  /\ act[a].pc = "insert"
  /\ keys' = keys \cup {act[a].kid}
  /\ Finish(a)
  /\ up' = (up \/ a = Main)
  /\ UNCHANGED <<active, drawn, deleted, signed, faults>>

InsertKey(a) ==
  /\ act[a].pc = "insert"
  /\ keys' = keys \cup {act[a].kid}
  /\ active' = active \cup {act[a].kid}
  /\ Finish(a)
  /\ up' = (up \/ a = Main)
  /\ UNCHANGED <<drawn, deleted, signed, faults>>

-----------------------------------------------------------------------------
(* The key endpoints *)

(* RotateKey deactivates every active row before it makes the new one. *)
DeactivateAllActive(a) ==
  /\ up /\ act[a].pc = "idle" /\ AKidIsLeft
  /\ active' = {}
  /\ Goto(a, "generate")
  /\ UNCHANGED <<keys, drawn, deleted, signed, up, faults>>

(* HandleDeactivate: FindByKID finds an active row, ... *)
FindByKID_DropsKid(a, k) ==
  /\ up /\ act[a].pc = "idle"
  /\ k \in active
  /\ Goto(a, "count")
  /\ UNCHANGED <<rows, drawn, signed, up, faults>>

FindByKID(a, k) ==
  /\ up /\ act[a].pc = "idle"
  /\ k \in active
  /\ act' = [act EXCEPT ![a] = [pc |-> "count", kid |-> k]]
  /\ UNCHANGED <<rows, drawn, signed, up, faults>>

(* ... FindAllActive finds more than one, or the request is refused, ... *)
IsLastActive_OffByOne == Cardinality(active) < 1
IsLastActive == Cardinality(active) <= 1

FindAllActive(a) ==
  /\ act[a].pc = "count"
  /\ IF IsLastActive THEN Finish(a) ELSE Goto(a, "deactivate")
  /\ UNCHANGED <<rows, drawn, signed, up, faults>>

(* ... and the row is updated by its kid alone. *)
Deactivate(a) ==
  /\ act[a].pc = "deactivate"
  /\ active' = active \ {act[a].kid}
  /\ deleted' = deleted \cup {act[a].kid}
  /\ Finish(a)
  /\ UNCHANGED <<keys, drawn, signed, up, faults>>

(* GetActiveSigningKey, for an access token or an ID token. *)
Sign ==
  /\ up /\ active # {}
  /\ signed' = signed \cup {FindActive}
  /\ UNCHANGED <<rows, drawn, act, up, faults>>

-----------------------------------------------------------------------------
(* Errors and restarts *)

(* A statement or a key generation fails: the request ends with a 500, the *)
(* boot with log.Fatalf, and what was written stays.                       *)
Abort(a) ==
  /\ act[a].pc # "idle"
  /\ faults < MaxFaults /\ faults' = faults + 1
  /\ Finish(a)
  /\ UNCHANGED <<rows, drawn, signed, up>>

Crash ==
  /\ faults < MaxFaults /\ faults' = faults + 1
  /\ act' = [a \in Actor |-> Idle]
  /\ up' = FALSE
  /\ UNCHANGED <<rows, drawn, signed>>

-----------------------------------------------------------------------------

Continue(a) == GenerateKey(a) \/ InsertKey(a) \/ FindAllActive(a) \/ Deactivate(a)

Next ==
  \/ EnsureSigningKey
  \/ \E a \in Actor : Continue(a) \/ Abort(a)
  \/ \E a \in Admin : DeactivateAllActive(a)
  \/ \E a \in Deactivator, k \in Kid : FindByKID(a, k)
  \/ Sign
  \/ Crash

Spec == Init /\ [][Next]_vars

(* A goroutine that has started runs on. *)
Scheduled(a) == WF_vars(Continue(a))

Fairness == \A a \in Actor : Scheduled(a)

FairSpec == Spec /\ Fairness

(* Nothing in a handler waits, and no bound stops one half-way. *)
CanContinue(a) == act[a].pc # "idle" => ENABLED <<Continue(a)>>_vars

HandlersNeverWait == \A a \in Actor : CanContinue(a)

-----------------------------------------------------------------------------
(* Properties *)

Generating(a) == act[a].pc \in {"generate", "insert"}

(* The server has a key that no deactivation about to happen takes, or a   *)
(* goroutine is making one.                                                *)
Supplied ==
  \/ \E a \in Actor : Generating(a)
  \/ /\ active # {}
     /\ \A d \in Actor : act[d].pc = "deactivate" => active \ {act[d].kid} # {}

(* Two administrators have both passed the count of key.go:101, for        *)
(* different keys.                                                         *)
DeactivationsMeet ==
  \E a, b \in Actor : /\ act[a].pc = "deactivate" /\ act[b].pc = "deactivate"
                      /\ act[a].kid # act[b].kid

(* However rotations and deactivations by name overlap, and whatever       *)
(* failed before, a running server is left without a key, and without      *)
(* anyone making one, only by a step that fails itself or by one of two    *)
(* deactivations that have both passed the count: the count protects the   *)
(* last key from everything else.                                          *)
KeysSurvive ==
  [][up' /\ (up => Supplied) => Supplied' \/ DeactivationsMeet \/ faults' > faults]_vars

(* However rotations overlap, the key that signs afterwards is the newest  *)
(* one generated, unless an administrator has deactivated it by name: no   *)
(* rotation that began earlier retires the key of a later one.             *)
NewestKeySigns ==
  (up /\ faults = 0 /\ \A a \in Actor : ~Generating(a)) =>
    \/ drawn[Len(drawn)] \in deleted
    \/ FindActive = drawn[Len(drawn)]

(* A restart repairs what a failed rotation left: a server that has just   *)
(* booted can sign, whatever failed before (main.go:61).                   *)
BootRestoresSigning == [][~up /\ up' => active' # {}]_vars

(* Whatever left the server without a key, an earlier failure or two       *)
(* deactivations, the next rotation or boot to generate one ends with an   *)
(* active key, or fails itself.                                            *)
RotationsRestoreSigning ==
  \A n \in 0..MaxFaults :
    (active = {} /\ faults = n /\ \E a \in Actor : Generating(a))
      ~> (active # {} \/ faults > n)

(* A token signed with a rotated key still verifies: only keys that were   *)
(* deactivated by name leave the JWKS                                      *)
(* (docs/plan/phase2-implementation-plan.md:257-258).                      *)
RotatedKeysStillVerify == signed \subseteq JWKSet \cup deleted

=============================================================================
