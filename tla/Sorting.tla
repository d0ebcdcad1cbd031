-------------------------------- MODULE Sorting --------------------------------
(***************************************************************************)
(* sorted(), as the code uses it: on distinct values, with a key that ends *)
(* in the id of the value, so that no two compare equal.  "before" is the  *)
(* strict order of the key, as a set of pairs.                             *)
(***************************************************************************)
EXTENDS Integers, FiniteSets

(* The position of each value, one more than the values before it. *)
Places(values, before) ==
    [x \in values |-> 1 + Cardinality({y \in values : <<y, x>> \in before})]

Sorted(values, before) ==
    LET place == Places(values, before)
    IN  [i \in 1..Cardinality(values) |-> CHOOSE x \in values : place[x] = i]

=============================================================================
