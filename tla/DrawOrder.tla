------------------------------- MODULE DrawOrder -------------------------------
(***************************************************************************)
(* The newest of some kids that were drawn one after the other: what       *)
(* SigningKeys.FindActive chooses, for any sequence and any set.           *)
(***************************************************************************)
EXTENDS Naturals, Sequences, WellFoundedInduction, TLAPS

(* A set of numbers that is not empty has a least one. *)
LEMMA LeastOf ==
  ASSUME NEW T \in SUBSET Nat, T # {}
  PROVE  \E n \in T : \A m \in T : n <= m
PROOF
  <1> DEFINE Less == OpToRel(<, Nat)
  <1>1. \A x, y \in Nat : x < y => <<x, y>> \in Less
    BY DEF OpToRel
  <1>2. \E n \in T : \A m \in T : <<m, n>> \notin Less
    <2>1. IsWellFoundedOn(Less, Nat)
      BY NatLessThanWellFounded
    <2> HIDE DEF Less
    <2> QED BY <2>1, WFMin
  <1> HIDE DEF Less
  <1>3. PICK n \in T : \A m \in T : <<m, n>> \notin Less
    BY <1>2
  <1>4. ASSUME NEW m \in T PROVE n <= m
    <2>1. m \in Nat /\ n \in Nat OBVIOUS
    <2>2. ~(m < n) BY <1>1, <1>3, <2>1
    <2> QED BY <2>1, <2>2
  <1> QED BY <1>4

(* Whatever set of drawn kids is active, one of them is the newest, and it *)
(* is the one that is chosen.                                              *)
LEMMA NewestIsAMember ==
  ASSUME NEW K, NEW s \in Seq(K), NEW A, A # {}, A \subseteq {s[i] : i \in DOMAIN s}
  PROVE  (CHOOSE k \in A : \A l \in A \ {k} :
            \E i, j \in DOMAIN s : i < j /\ s[i] = l /\ s[j] = k) \in A
PROOF
  <1> DEFINE last == Len(s)
             T == {n \in Nat : n < last /\ s[last - n] \in A}
  <1>1. last \in Nat /\ DOMAIN s = 1..last
    OBVIOUS
  <1>2. ASSUME NEW l \in A
        PROVE  \E j \in 1..last : s[j] = l /\ last - j \in T
    <2>1. PICK j \in 1..last : s[j] = l
      BY <1>1, <1>2
    <2>2. last - j \in Nat /\ last - j < last /\ last - (last - j) = j
      BY <1>1, <2>1
    <2>3. s[last - (last - j)] \in A
      BY <2>1, <2>2
    <2> QED BY <2>1, <2>2, <2>3
  <1>3. PICK n \in T : \A m \in T : n <= m
    <2>1. T \subseteq Nat /\ T # {}
      BY <1>2
    <2> QED BY <2>1, LeastOf
  <1>4. ASSUME NEW l \in A \ {s[last - n]}
        PROVE  \E i, j \in DOMAIN s : i < j /\ s[i] = l /\ s[j] = s[last - n]
    <2>1. PICK j \in 1..last : s[j] = l /\ last - j \in T
      BY <1>2
    <2>2. n <= last - j /\ j # last - n
      BY <1>3, <2>1
    <2>3. last \in Nat /\ n \in Nat /\ n < last /\ j \in Nat
      BY <1>1, <1>3, <2>1
    <2>4. j < last - n /\ last - n \in 1..last
      BY <2>2, <2>3
    <2> QED BY <1>1, <2>1, <2>4
  <1> QED BY <1>3, <1>4

=============================================================================
