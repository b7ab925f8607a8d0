-------------------------- MODULE SigningKeysProofs --------------------------
(***************************************************************************)
(* Theorems about SigningKeys, for every set of kids and administrators    *)
(* and every number of faults.                                             *)
(***************************************************************************)
EXTENDS SigningKeys, DrawOrder, FiniteSetTheorems, TLAPS

USE ActorsAreTyped DEF Actor, ActorState, Idle

-----------------------------------------------------------------------------
(* Sequences of drawn kids. *)

(* Drawing a kid puts it last and keeps the others where they are. *)
LEMMA AppendToDrawn ==
  ASSUME NEW s \in Seq(Kid), NEW k \in Kid
  PROVE  LET t == Append(s, k)
         IN  /\ t \in Seq(Kid) /\ Len(t) = Len(s) + 1
             /\ t[Len(t)] = k /\ \A i \in 1..Len(s) : t[i] = s[i]
             /\ SeqToSet(t) = SeqToSet(s) \cup {k}
PROOF
  <1> DEFINE t == Append(s, k)
  <1>1. /\ t \in Seq(Kid) /\ Len(t) = Len(s) + 1
        /\ t[Len(t)] = k /\ \A i \in 1..Len(s) : t[i] = s[i]
    OBVIOUS
  <1>2. DOMAIN t = 1..(Len(s) + 1) /\ DOMAIN s = 1..Len(s) /\ Len(s) \in Nat
    BY <1>1
  <1>3. SeqToSet(t) = SeqToSet(s) \cup {k}
    <2>1. ASSUME NEW i \in DOMAIN t PROVE t[i] \in SeqToSet(s) \cup {k}
      <3>1. i \in 1..Len(s) \/ i = Len(t)
        BY <1>1, <1>2
      <3> QED BY <1>1, <1>2, <3>1 DEF SeqToSet
    <2>2. ASSUME NEW i \in DOMAIN s PROVE i \in DOMAIN t /\ t[i] = s[i]
      BY <1>1, <1>2
    <2>3. Len(t) \in DOMAIN t
      BY <1>1, <1>2
    <2> QED BY <1>1, <2>1, <2>2, <2>3 DEF SeqToSet
  <1> QED BY <1>1, <1>3

-----------------------------------------------------------------------------
(* The types, and which goroutine can be where. *)

StatementsOK ==
  \A a \in Actor :
    /\ act[a].pc = "insert" => act[a].kid \in SeqToSet(drawn) \ keys
    /\ act[a].pc \in {"count", "deactivate"} => act[a].kid \in keys /\ a \in Deactivator

ServingOK ==
  /\ ~up => \A a \in Admin : act[a].pc = "idle"
  /\ up => drawn # <<>>

(* A kid is drawn once. *)
DrawnOnce == \A i, j \in DOMAIN drawn : drawn[i] = drawn[j] => i = j

KeyInv ==
  /\ TypeOK
  /\ DrawnOnce
  /\ StatementsOK
  /\ ServingOK
  /\ \A a, b \in Actor :
       act[a].pc = "insert" /\ act[b].pc = "insert" /\ act[a].kid = act[b].kid => a = b

(* Whatever set of rows is active, one of them is the newest, and it is    *)
(* the one FindActive returns.                                             *)
LEMMA FindActiveIsActive ==
  ASSUME TypeOK, active # {}
  PROVE  FindActive \in active
PROOF
  <1>1. drawn \in Seq(Kid) /\ active \subseteq {drawn[i] : i \in DOMAIN drawn}
    BY DEF TypeOK, SeqToSet
  <1> QED BY <1>1, NewestIsAMember DEF FindActive, Before

(* The last kid drawn, if it is active, is the key FindActive returns.     *)
LEMMA LastDrawnIsFound ==
  ASSUME TypeOK, DrawnOnce, drawn # <<>>, drawn[Len(drawn)] \in active
  PROVE  FindActive = drawn[Len(drawn)]
PROOF
  <1> USE DEF TypeOK
  <1> DEFINE last == Len(drawn)
             Newest(k) == \A l \in active \ {k} : Before(l, k)
  <1>1. last \in DOMAIN drawn /\ DOMAIN drawn = 1..last /\ last \in Nat
    OBVIOUS
  <1>2. ASSUME NEW l \in active \ {drawn[last]}
        PROVE  Before(l, drawn[last])
    <2>1. PICK j \in DOMAIN drawn : drawn[j] = l
      BY DEF SeqToSet
    <2>2. j < last
      BY <1>1, <2>1
    <2> QED BY <1>1, <2>1, <2>2 DEF Before
  <1>3. ASSUME NEW k \in active, Newest(k)
        PROVE  k = drawn[last]
    <2> SUFFICES ASSUME k # drawn[last] PROVE FALSE
      OBVIOUS
    <2>1. Before(drawn[last], k)
      BY <1>3
    <2>2. PICK i, j \in DOMAIN drawn : i < j /\ drawn[i] = drawn[last] /\ drawn[j] = k
      BY <2>1 DEF Before
    <2>3. i = last
      BY <1>1, <2>2 DEF DrawnOnce
    <2> QED BY <1>1, <2>2, <2>3
  <1>4. Newest(drawn[last])
    BY <1>2
  <1> HIDE DEF Newest
  <1>5. FindActive = CHOOSE k \in active : Newest(k)
    BY DEF FindActive, Newest
  <1> QED BY <1>3, <1>4, <1>5

(* KeyInv is inductive: a kid is inserted by the goroutine that drew it,   *)
(* once, and what is counted or deactivated by name has a row.             *)
LEMMA NextKeyInv ==
  ASSUME KeyInv, [Next]_vars
  PROVE  KeyInv'
PROOF
  <1> USE DEF KeyInv, TypeOK, DrawnOnce, rows
  <1>1. CASE EnsureSigningKey
    <2>1. CASE active # {}
      <3>1. drawn # <<>>
        BY <2>1 DEF SeqToSet
      <3> QED BY <1>1, <2>1, <3>1 DEF EnsureSigningKey, StatementsOK, ServingOK
    <2>2. CASE active = {}
      BY <1>1, <2>2 DEF EnsureSigningKey, Goto, StatementsOK, ServingOK
    <2> QED BY <2>1, <2>2
  <1>2. ASSUME NEW a \in Actor, GenerateKey(a)
        PROVE  KeyInv'
    <2>1. PICK k \in Kid \ SeqToSet(drawn) :
            /\ drawn' = Append(drawn, k)
            /\ act' = [act EXCEPT ![a] = [pc |-> "insert", kid |-> k]]
      BY <1>2 DEF GenerateKey
    <2>2. /\ drawn' \in Seq(Kid) /\ drawn' # <<>>
          /\ SeqToSet(drawn') = SeqToSet(drawn) \cup {k}
      BY <2>1, AppendToDrawn
    <2>3. UNCHANGED <<keys, active, deleted, signed, up, faults>>
      BY <1>2 DEF GenerateKey
    <2>4. TypeOK'
      BY <2>1, <2>2, <2>3 DEF SeqToSet
    <2>5. StatementsOK'
      BY <2>1, <2>2, <2>3 DEF StatementsOK, SeqToSet
    <2>6. ServingOK'
      BY <1>2, <2>1, <2>2, <2>3 DEF ServingOK, GenerateKey
    <2>7. \A b, c \in Actor :
            act'[b].pc = "insert" /\ act'[c].pc = "insert" /\ act'[b].kid = act'[c].kid => b = c
      BY <2>1 DEF StatementsOK
    <2>8. DrawnOnce'
      <3> DEFINE t == drawn'
      <3>1. /\ t \in Seq(Kid) /\ Len(t) = Len(drawn) + 1 /\ t[Len(t)] = k
            /\ \A i \in 1..Len(drawn) : t[i] = drawn[i]
        BY <2>1, AppendToDrawn
      <3>2. \A i \in 1..Len(drawn) : drawn[i] # k
        BY <2>1 DEF SeqToSet
      <3>3. ASSUME NEW i \in DOMAIN t, NEW j \in DOMAIN t, t[i] = t[j]
            PROVE  i = j
        <4>1. /\ i \in 1..Len(drawn) \/ i = Len(t)
              /\ j \in 1..Len(drawn) \/ j = Len(t)
          BY <3>1
        <4>2. DOMAIN drawn = 1..Len(drawn)
          OBVIOUS
        <4> HIDE DEF t
        <4> QED BY <3>1, <3>2, <3>3, <4>1, <4>2
      <3> QED BY <3>3
    <2> QED BY <2>4, <2>5, <2>6, <2>7, <2>8
  <1>3. ASSUME NEW a \in Actor, InsertKey(a)
        PROVE  KeyInv'
    <2>1. act[a].kid \in SeqToSet(drawn) \ keys /\ drawn # <<>>
      BY <1>3 DEF InsertKey, StatementsOK, SeqToSet
    <2>2. TypeOK'
      BY <1>3, <2>1 DEF InsertKey, Finish
    <2>3. StatementsOK'
      BY <1>3 DEF InsertKey, Finish, StatementsOK
    <2>4. ServingOK'
      BY <1>3, <2>1 DEF InsertKey, Finish, ServingOK
    <2> QED BY <1>3, <2>2, <2>3, <2>4 DEF InsertKey, Finish
  <1>4. ASSUME NEW a \in Actor, FindAllActive(a) \/ Deactivate(a)
        PROVE  KeyInv'
    BY <1>4 DEF FindAllActive, Deactivate, Goto, Finish, StatementsOK, ServingOK
  <1>5. ASSUME NEW a \in Admin, DeactivateAllActive(a)
        PROVE  KeyInv'
    BY <1>5 DEF DeactivateAllActive, Goto, StatementsOK, ServingOK
  <1>6. ASSUME NEW a \in Deactivator, NEW k \in Kid, FindByKID(a, k)
        PROVE  KeyInv'
    BY <1>6 DEF FindByKID, StatementsOK, ServingOK
  <1>7. CASE Sign
    <2>1. FindActive \in keys
      BY <1>7, FindActiveIsActive DEF Sign
    <2> QED BY <1>7, <2>1 DEF Sign, StatementsOK, ServingOK
  <1>8. ASSUME NEW a \in Actor, Abort(a)
        PROVE  KeyInv'
    BY <1>8 DEF Abort, Finish, StatementsOK, ServingOK
  <1>9. CASE Crash
    <2>1. \A a \in Actor : act'[a] = Idle
      BY <1>9 DEF Crash
    <2>2. act' \in [Actor -> ActorState]
      BY <1>9 DEF Crash
    <2>3. UNCHANGED <<keys, active, deleted, signed, drawn>> /\ up' = FALSE /\ faults' \in Nat
      BY <1>9 DEF Crash
    <2>4. TypeOK' /\ DrawnOnce'
      BY <2>2, <2>3
    <2> QED BY <2>1, <2>3, <2>4 DEF StatementsOK, ServingOK
  <1>10. CASE UNCHANGED vars
    BY <1>10 DEF vars, StatementsOK, ServingOK
  <1> QED BY <1>1, <1>2, <1>3, <1>4, <1>5, <1>6, <1>7, <1>8, <1>9, <1>10 DEF Next, Continue

-----------------------------------------------------------------------------
(* A goroutine is on its way to the newest key, or it is in the table, or  *)
(* an administrator has deactivated it by name.                            *)
NewestOnItsWay ==
  faults = 0 /\ drawn # <<>> =>
    \/ \E a \in Actor : act[a].pc = "generate"
    \/ \E a \in Actor : act[a].pc = "insert" /\ act[a].kid = drawn[Len(drawn)]
    \/ drawn[Len(drawn)] \in active \cup deleted

(* No step without a fault loses the newest key. *)
LEMMA NextNewestOnItsWay ==
  ASSUME KeyInv, NewestOnItsWay, [Next]_vars
  PROVE  NewestOnItsWay'
PROOF
  <1> USE DEF KeyInv, TypeOK, rows
  <1> SUFFICES ASSUME faults' = 0, drawn' # <<>>
               PROVE  NewestOnItsWay'
    BY DEF NewestOnItsWay
  <1>1. CASE EnsureSigningKey
    BY <1>1 DEF EnsureSigningKey, Goto, NewestOnItsWay
  <1>2. ASSUME NEW a \in Actor, GenerateKey(a)
        PROVE  NewestOnItsWay'
    <2>1. PICK k \in Kid \ SeqToSet(drawn) :
            /\ drawn' = Append(drawn, k)
            /\ act' = [act EXCEPT ![a] = [pc |-> "insert", kid |-> k]]
      BY <1>2 DEF GenerateKey
    <2>2. drawn'[Len(drawn')] = k
      BY <2>1
    <2>3. act'[a].pc = "insert" /\ act'[a].kid = k
      BY <2>1
    <2> QED BY <2>2, <2>3 DEF NewestOnItsWay
  <1>3. ASSUME NEW a \in Actor, InsertKey(a)
        PROVE  NewestOnItsWay'
    BY <1>3 DEF InsertKey, Finish, NewestOnItsWay
  <1>4. ASSUME NEW a \in Actor, FindAllActive(a) \/ Deactivate(a)
        PROVE  NewestOnItsWay'
    BY <1>4 DEF FindAllActive, Deactivate, Goto, Finish, NewestOnItsWay
  <1>5. ASSUME NEW a \in Admin, DeactivateAllActive(a)
        PROVE  NewestOnItsWay'
    <2>1. act'[a].pc = "generate"
      BY <1>5 DEF DeactivateAllActive, Goto
    <2> QED BY <2>1 DEF NewestOnItsWay
  <1>6. ASSUME NEW a \in Deactivator, NEW k \in Kid, FindByKID(a, k)
        PROVE  NewestOnItsWay'
    BY <1>6 DEF FindByKID, NewestOnItsWay
  <1>7. CASE Sign \/ UNCHANGED vars
    BY <1>7 DEF Sign, vars, NewestOnItsWay
  <1>8. CASE Crash \/ \E a \in Actor : Abort(a)
    <2>1. faults' = faults + 1 /\ faults \in Nat
      BY <1>8 DEF Crash, Abort
    <2> QED BY <2>1
  <1> QED BY <1>1, <1>2, <1>3, <1>4, <1>5, <1>6, <1>7, <1>8 DEF Next, Continue

-----------------------------------------------------------------------------
(* The count of HandleDeactivate keeps a key for the server in every step  *)
(* but the ones KeysSurvive names.                                         *)
LEMMA NextSupplied ==
  ASSUME KeyInv, [Next]_vars, up', up => Supplied
  PROVE  Supplied' \/ DeactivationsMeet \/ faults' > faults
PROOF
  <1> USE DEF KeyInv, TypeOK, rows, Generating
  <1> SUFFICES ASSUME ~DeactivationsMeet, ~(faults' > faults)
               PROVE  Supplied'
    OBVIOUS
  <1>1. CASE EnsureSigningKey
    <2>1. active' # {}
      BY <1>1 DEF EnsureSigningKey
    <2>2. \A d \in Actor : act'[d].pc # "deactivate"
      BY <1>1 DEF EnsureSigningKey, StatementsOK, ServingOK
    <2> QED BY <2>1, <2>2 DEF Supplied
  <1>2. ASSUME NEW a \in Actor, GenerateKey(a)
        PROVE  Supplied'
    <2>1. act'[a].pc = "insert"
      BY <1>2 DEF GenerateKey
    <2> QED BY <2>1 DEF Supplied
  <1>3. ASSUME NEW a \in Actor, InsertKey(a)
        PROVE  Supplied'
    <2>1. act[a].kid \in active' /\ act[a].kid \notin keys
      BY <1>3 DEF InsertKey, StatementsOK
    <2>2. ASSUME NEW d \in Actor, act'[d].pc = "deactivate"
          PROVE  act'[d].kid \in keys
      BY <1>3, <2>2 DEF InsertKey, Finish, StatementsOK
    <2> QED BY <2>1, <2>2 DEF Supplied
  <1>4. ASSUME NEW a \in Actor, FindAllActive(a)
        PROVE  Supplied'
    <2>0. act[a].pc = "count" /\ UNCHANGED <<active, up, faults>>
      BY <1>4 DEF FindAllActive
    <2>1. \A b \in Actor : Generating(b) => Generating(b)'
      BY <1>4 DEF FindAllActive, Finish, Goto
    <2>2. CASE \E b \in Actor : Generating(b)
      BY <2>1, <2>2 DEF Supplied
    <2>3. CASE ~\E b \in Actor : Generating(b)
      <3>1. ASSUME NEW d \in Actor, act'[d].pc = "deactivate"
            PROVE  active \ {act'[d].kid} # {}
        <4>1. CASE d = a
          <5>1. ~IsLastActive /\ act'[a].kid = act[a].kid
            BY <1>4, <3>1, <4>1 DEF FindAllActive, Finish, Goto
          <5>2. Cardinality({}) = 0 /\ Cardinality({act[a].kid}) = 1
            BY FS_EmptySet, FS_Singleton
          <5>3. ~(Cardinality(active) <= 1)
            BY <5>1 DEF IsLastActive
          <5>4. active # {}
            <6> SUFFICES ASSUME active = {} PROVE FALSE
              OBVIOUS
            <6>1. Cardinality(active) = 0
              BY <5>2
            <6> QED BY <5>3, <6>1, SMT
          <5>5. active # {act[a].kid}
            <6> SUFFICES ASSUME active = {act[a].kid} PROVE FALSE
              OBVIOUS
            <6>1. Cardinality(active) = 1
              BY <5>2
            <6> QED BY <5>3, <6>1, SMT
          <5> QED BY <4>1, <5>1, <5>4, <5>5
        <4>2. CASE d # a
          BY <1>4, <2>0, <2>3, <3>1, <4>2 DEF FindAllActive, Finish, Goto, Supplied
        <4> QED BY <4>1, <4>2
      <3> QED BY <2>0, <2>3, <3>1 DEF Supplied
    <2> QED BY <2>2, <2>3
  <1>5. ASSUME NEW a \in Actor, Deactivate(a)
        PROVE  Supplied'
    <2>1. \A b \in Actor : Generating(b) => Generating(b)'
      BY <1>5 DEF Deactivate, Finish
    <2>2. CASE \E b \in Actor : Generating(b)
      BY <2>1, <2>2 DEF Supplied
    <2>3. CASE ~\E b \in Actor : Generating(b)
      <3>1. up /\ act[a].pc = "deactivate"
        BY <1>5 DEF Deactivate
      <3>2. active \ {act[a].kid} # {}
        BY <2>3, <3>1 DEF Supplied
      <3>3. active' = active \ {act[a].kid}
        BY <1>5 DEF Deactivate
      <3>4. ASSUME NEW d \in Actor, act'[d].pc = "deactivate"
            PROVE  act'[d].kid = act[a].kid
        <4>1. act[d].pc = "deactivate" /\ act'[d] = act[d]
          BY <1>5, <3>4 DEF Deactivate, Finish
        <4> QED BY <3>1, <4>1 DEF DeactivationsMeet
      <3> QED BY <3>2, <3>3, <3>4 DEF Supplied
    <2> QED BY <2>2, <2>3
  <1>6. ASSUME NEW a \in Admin, DeactivateAllActive(a)
        PROVE  Supplied'
    <2>1. act'[a].pc = "generate"
      BY <1>6 DEF DeactivateAllActive, Goto
    <2> QED BY <2>1 DEF Supplied
  <1>7. ASSUME NEW a \in Deactivator, NEW k \in Kid, FindByKID(a, k)
        PROVE  Supplied'
    BY <1>7 DEF FindByKID, Supplied
  <1>8. CASE Sign \/ UNCHANGED vars
    BY <1>8 DEF Sign, vars, Supplied
  <1>9. CASE Crash \/ \E a \in Actor : Abort(a)
    <2>1. faults' = faults + 1 /\ faults \in Nat
      BY <1>9 DEF Crash, Abort
    <2> QED BY <2>1
  <1> QED BY <1>1, <1>2, <1>3, <1>4, <1>5, <1>6, <1>7, <1>8, <1>9 DEF Next, Continue

-----------------------------------------------------------------------------
(* The initial state. *)
LEMMA InitKeyInv == Init => KeyInv /\ NewestOnItsWay
PROOF
  <1>1. Init => TypeOK
    <2> SUFFICES ASSUME Init PROVE TypeOK
      OBVIOUS
    <2>1. act \in [Actor -> ActorState]
      BY DEF Init
    <2>2. drawn \in Seq(Kid) /\ keys = {} /\ active = {} /\ deleted = {} /\ signed = {}
      BY DEF Init
    <2> QED BY <2>1, <2>2 DEF Init, TypeOK
  <1> QED BY <1>1 DEF Init, KeyInv, DrawnOnce, StatementsOK, ServingOK,
                      NewestOnItsWay

(* The rows and the goroutines keep their types; active rows are rows, and *)
(* every row was drawn (sign_key_repository.go, key_service.go).           *)
THEOREM KeysTyped == Spec => []KeyInv
PROOF
  <1>1. KeyInv /\ [Next]_vars => KeyInv'
    BY NextKeyInv
  <1> QED BY <1>1, InitKeyInv, PTL DEF Spec

(* Its first conjunct is the type invariant.                               *)
THEOREM TypeCorrect == Spec => []TypeOK
PROOF
  <1>1. KeyInv => TypeOK
    BY DEF KeyInv
  <1> QED BY <1>1, KeysTyped, PTL

(* Whatever rotations overlap, and whichever kids administrators           *)
(* deactivate by name, no rotation retires a key newer than its own        *)
(* (RotateKey, FindActive).                                                *)
THEOREM NewestSigns == Spec => []NewestKeySigns
PROOF
  <1>1. KeyInv /\ NewestOnItsWay /\ [Next]_vars => KeyInv' /\ NewestOnItsWay'
    BY NextKeyInv, NextNewestOnItsWay
  <1>2. KeyInv /\ NewestOnItsWay => NewestKeySigns
    <2> SUFFICES ASSUME KeyInv, NewestOnItsWay, up, faults = 0,
                        \A a \in Actor : ~Generating(a),
                        drawn[Len(drawn)] \notin deleted
                 PROVE  FindActive = drawn[Len(drawn)]
      BY DEF NewestKeySigns
    <2>1. drawn # <<>>
      BY DEF KeyInv, ServingOK
    <2>2. drawn[Len(drawn)] \in active
      BY <2>1 DEF NewestOnItsWay, Generating
    <2> QED BY <2>1, <2>2, LastDrawnIsFound DEF KeyInv
  <1> QED BY <1>1, <1>2, InitKeyInv, PTL DEF Spec

(* A running server loses its last key only to a failure or to one of two  *)
(* deactivations that have both passed the count (HandleDeactivate,        *)
(* RotateKey, EnsureSigningKey).                                           *)
THEOREM KeysAreSupplied == Spec => KeysSurvive
PROOF
  <1>1. KeyInv /\ [Next]_vars =>
          [up' /\ (up => Supplied) =>
             Supplied' \/ DeactivationsMeet \/ faults' > faults]_vars
    BY NextSupplied
  <1> QED BY <1>1, KeysTyped, PTL DEF Spec, KeysSurvive

(* A server that keeps running is never left without a key for good: as    *)
(* long as nothing fails and no two deactivations meet, there is one, or   *)
(* one is being made.                                                      *)
THEOREM KeysRunOutByRaceOrFault ==
  Spec => [](up => Supplied) \/ <>(DeactivationsMeet \/ faults > 0)
PROOF
  <1> DEFINE Excused == DeactivationsMeet \/ faults > 0
  <1>1. KeyInv /\ [Next]_vars /\ (up => Supplied) /\ ~Excused /\ ~Excused' => (up => Supplied)'
    <2> SUFFICES ASSUME KeyInv, [Next]_vars, up => Supplied, ~Excused, ~Excused', up'
                 PROVE  Supplied'
      OBVIOUS
    <2>1. faults = 0 /\ faults \in Nat /\ ~(faults' > 0)
      BY DEF KeyInv, TypeOK
    <2> QED BY <2>1, NextSupplied
  <1>2. Init => (up => Supplied)
    BY DEF Init
  <1> QED BY <1>1, <1>2, KeysTyped, PTL DEF Spec

(* A server that has just booted can sign, whatever failed before          *)
(* (EnsureSigningKey).                                                     *)
THEOREM BootRepairs == Spec => BootRestoresSigning
PROOF
  <1>1. KeyInv /\ [Next]_vars => [~up /\ up' => active' # {}]_vars
    <2> SUFFICES ASSUME KeyInv, Next, ~up, up'
                 PROVE  active' # {}
      BY DEF vars
    <2>1. CASE EnsureSigningKey
      BY <2>1 DEF EnsureSigningKey, rows
    <2>2. ASSUME NEW a \in Actor, InsertKey(a)
          PROVE  active' # {}
      BY <2>2 DEF InsertKey
    <2>3. CASE Crash \/ \E a \in Actor : Abort(a)
      BY <2>3 DEF Crash, Abort
    <2>4. ~(\E a \in Actor : GenerateKey(a) \/ FindAllActive(a) \/ Deactivate(a))
      BY DEF GenerateKey, FindAllActive, Deactivate
    <2>5. /\ ~\E a \in Admin : DeactivateAllActive(a)
          /\ ~\E a \in Deactivator, k \in Kid : FindByKID(a, k)
          /\ ~Sign
      BY DEF DeactivateAllActive, FindByKID, Sign
    <2> QED BY <2>1, <2>2, <2>3, <2>4, <2>5 DEF Next, Continue
  <1> QED BY <1>1, KeysTyped, PTL DEF Spec, BootRestoresSigning

-----------------------------------------------------------------------------
(* Liveness: a fair scheduler, and handlers that can always run on.        *)
Progress(a) ==
  /\ []KeyInv /\ [][Next]_vars
  /\ []<>(act[a].pc = "idle") \/ []<><<Continue(a)>>_vars

LEMMA HandlersRunOn ==
  ASSUME NEW a \in Actor
  PROVE  FairSpec /\ []HandlersNeverWait => Progress(a)
PROOF
  <1>1. HandlersNeverWait => CanContinue(a)
    BY DEF HandlersNeverWait
  <1>2. FairSpec => Spec /\ Scheduled(a)
    BY DEF FairSpec, Fairness
  <1>3. act[a].pc = "idle" \/ act[a].pc # "idle"
    OBVIOUS
  <1> QED BY <1>1, <1>2, <1>3, KeysTyped, PTL DEF Spec, Scheduled, CanContinue, Progress

(* A key, or another failure than the first n. *)
Repaired(n) == active # {} \/ faults > n

(* Who generates a key keeps at it, or fails, or has inserted it. *)
LEMMA GeneratingMoves ==
  ASSUME KeyInv, [Next]_vars, NEW n \in Nat, NEW a \in Actor, Generating(a), faults = n
  PROVE  (act'[a] = act[a] /\ faults' = n) \/ GenerateKey(a) \/ InsertKey(a) \/ faults' > n
PROOF
  <1> USE DEF KeyInv, TypeOK
  <1>1. ASSUME NEW b \in Actor, Continue(b), b # a
        PROVE  act'[a] = act[a] /\ faults' = n
    BY <1>1 DEF Continue, GenerateKey, InsertKey, FindAllActive, Deactivate, Goto, Finish
  <1>2. Continue(a) => GenerateKey(a) \/ InsertKey(a)
    BY DEF Continue, FindAllActive, Deactivate, Generating
  <1>3. CASE Crash \/ \E b \in Actor : Abort(b)
    <2>1. faults \in Nat /\ faults' = faults + 1
      BY <1>3 DEF Crash, Abort
    <2> QED BY <2>1
  <1>4. CASE EnsureSigningKey
    BY <1>4 DEF EnsureSigningKey, Goto, Generating
  <1>5. ASSUME NEW b \in Admin, DeactivateAllActive(b)
        PROVE  act'[a] = act[a] /\ faults' = n
    BY <1>5 DEF DeactivateAllActive, Goto, Generating
  <1>6. ASSUME NEW b \in Deactivator, NEW k \in Kid, FindByKID(b, k)
        PROVE  act'[a] = act[a] /\ faults' = n
    BY <1>6 DEF FindByKID, Generating
  <1>7. CASE Sign \/ UNCHANGED vars
    BY <1>7 DEF Sign, vars
  <1> QED BY <1>1, <1>2, <1>3, <1>4, <1>5, <1>6, <1>7 DEF Next

LEMMA GeneratingEnds ==
  ASSUME NEW n \in Nat, NEW a \in Actor
  PROVE  Progress(a) => [](Generating(a) /\ faults = n => <>Repaired(n))
PROOF
  <1> DEFINE Draws == act[a].pc = "generate" /\ faults = n
             Inserts == act[a].pc = "insert" /\ faults = n
  <1>1. ASSUME KeyInv, [Next]_vars
        PROVE  /\ GenerateKey(a) => act[a].pc = "generate" /\ (faults = n => Inserts')
               /\ InsertKey(a) => act[a].pc = "insert" /\ Repaired(n)'
    <2>1. act \in [Actor -> ActorState]
      BY <1>1 DEF KeyInv, TypeOK
    <2>2. GenerateKey(a) => act[a].pc = "generate" /\ (faults = n => Inserts')
      BY <2>1 DEF GenerateKey
    <2>3. InsertKey(a) => act[a].pc = "insert" /\ Repaired(n)'
      BY DEF InsertKey, Repaired
    <2> QED BY <2>2, <2>3
  <1>2. KeyInv /\ [Next]_vars => /\ Draws => Draws' \/ Inserts' \/ Repaired(n)'
                                 /\ Inserts => Inserts' \/ Repaired(n)'
    <2> SUFFICES ASSUME KeyInv, [Next]_vars, Draws \/ Inserts
                 PROVE  /\ Draws => Draws' \/ Inserts' \/ Repaired(n)'
                        /\ Inserts => Inserts' \/ Repaired(n)'
      OBVIOUS
    <2>1. Generating(a) /\ faults = n
      BY DEF Generating
    <2>2. faults' > n => Repaired(n)'
      BY DEF Repaired
    <2> QED BY <1>1, <2>1, <2>2, GeneratingMoves
  <1>3. KeyInv /\ [Next]_vars /\ <<Continue(a)>>_vars =>
          (Draws => Inserts') /\ (Inserts => Repaired(n)')
    BY <1>1 DEF Continue, FindAllActive, Deactivate
  <1>4. (Draws => ~(act[a].pc = "idle")) /\ (Inserts => ~(act[a].pc = "idle"))
    OBVIOUS
  <1>5. Generating(a) /\ faults = n => Draws \/ Inserts
    BY DEF Generating
  <1> QED BY <1>2, <1>3, <1>4, <1>5, PTL DEF Progress

(* However many statements have failed before, and however many            *)
(* deactivations have met, a rotation or a boot in progress ends with an   *)
(* active key unless something fails again (RotateKey,                     *)
(* generateAndSaveKey).                                                    *)
THEOREM RotationsRepair ==
  FairSpec /\ []HandlersNeverWait => RotationsRestoreSigning
PROOF
  <1>1. ASSUME NEW n \in 0..MaxFaults
        PROVE  FairSpec /\ []HandlersNeverWait =>
                 ((active = {} /\ faults = n /\ \E a \in Actor : Generating(a))
                    ~> (active # {} \/ faults > n))
    <2>1. n \in Nat
      OBVIOUS
    <2>2. ASSUME NEW a \in Actor
          PROVE  FairSpec /\ []HandlersNeverWait => [](Generating(a) /\ faults = n => <>Repaired(n))
      BY <2>1, HandlersRunOn, GeneratingEnds
    <2>3. FairSpec /\ []HandlersNeverWait =>
            [](\A a \in Actor : Generating(a) /\ faults = n => <>Repaired(n))
      BY <2>2
    <2>4. (\A a \in Actor : Generating(a) /\ faults = n => <>Repaired(n)) =>
            (active = {} /\ faults = n /\ (\E a \in Actor : Generating(a)) => <>Repaired(n))
      OBVIOUS
    <2>5. Repaired(n) <=> active # {} \/ faults > n
      BY DEF Repaired
    <2> QED BY <2>3, <2>4, <2>5, PTL
  <1> QED BY <1>1 DEF RotationsRestoreSigning

=============================================================================
