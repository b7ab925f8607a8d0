---------------------------- MODULE MCClientAdmin ----------------------------
(* Small instances of ClientAdmin. *)
EXTENDS ClientAdmin, TLC

(* Rows, secrets, settings and goroutines are interchangeable. *)
Symmetric ==
  Permutations(Tenant) \cup Permutations(Secret) \cup Permutations(Field)
    \cup Permutations(Value) \cup Permutations(Admin)

=============================================================================
