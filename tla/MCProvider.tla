------------------------------ MODULE MCProvider ------------------------------
(* Small instances of Provider: one user, one tenant, one client.          *)
EXTENDS Provider, TLC

CONSTANTS u1, n1, c1

OneUser == {u1}
OneTenant == {n1}
OneClient == {c1}
OwnerU1 == [s \in Session |-> u1]
UserN1 == [u \in {u1} |-> n1]
ClientN1 == [c \in {c1} |-> n1]

(* Keys of one table are interchangeable. *)
Symmetric ==
  Permutations(Kid) \cup Permutations(AToken) \cup Permutations(RToken)

=============================================================================
