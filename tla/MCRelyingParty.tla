---------------------------- MODULE MCRelyingParty ----------------------------
(* A small instance of RelyingParty. *)
EXTENDS RelyingParty

CONSTANTS b1, b2, p1, p2

TwoTabs == {p1, p2}

(* Two tabs of one browser, or two browsers with a tab each. *)
OneBrowserOrTwo == {[t \in TwoTabs |-> b1], [t \in TwoTabs |-> IF t = p1 THEN b1 ELSE b2]}

=============================================================================
