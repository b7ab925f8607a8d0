---------------------------- MODULE MCTokenGrants ----------------------------
(* Small instances of TokenGrants: keys are model values, and every session *)
(* is of one user.                                                          *)
EXTENDS TokenGrants, TLC

CONSTANTS u1, n1

OneUser == {u1}
OneTenant == {n1}
OwnerU1 == [s \in Session |-> u1]
UserN1 == [u \in {u1} |-> n1]
ClientN1 == [c \in Client |-> n1]

(* Keys of one table that may expire, or may not, are interchangeable, and *)
(* so are the goroutines and the clients that may refresh.                 *)
Interchangeable(S) == Permutations(S \ MayExpire) \cup Permutations(S \cap MayExpire)

Symmetric ==
  Interchangeable(AToken) \cup Interchangeable(RToken) \cup Interchangeable(Code)
  \cup Interchangeable(Session) \cup Permutations(Request) \cup Permutations(RefreshClient)

=============================================================================
