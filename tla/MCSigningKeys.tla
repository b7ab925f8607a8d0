---------------------------- MODULE MCSigningKeys ----------------------------
(* Small instances of SigningKeys. *)
EXTENDS SigningKeys, TLC

(* Kids are interchangeable. *)
Symmetric == Permutations(Kid)

=============================================================================
