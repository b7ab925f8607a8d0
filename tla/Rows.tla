-------------------------------- MODULE Rows --------------------------------
(* Tables as functions from keys to rows.                                  *)

(* The table with a row inserted under a new key. *)
WithRow(table, k, row) ==
  [x \in DOMAIN table \cup {k} |-> IF x = k THEN row ELSE table[x]]

(* The settings with those a patch names replaced: the fields of a PUT     *)
(* that are not nil.                                                       *)
Edited(settings, patch) ==
  [f \in DOMAIN settings |-> IF f \in DOMAIN patch THEN patch[f] ELSE settings[f]]

(* The table with a row for each of some new keys. *)
WithRows(table, K, row) ==
  [x \in DOMAIN table \cup K |-> IF x \in K THEN row ELSE table[x]]

=============================================================================
