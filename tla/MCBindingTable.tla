--------------------------- MODULE MCBindingTable ---------------------------
(* The binding table on a small instance. *)
EXTENDS BindingTable, TLC

CONSTANTS s1, s2, n1, r1, r2

SmallCaps == [host |-> 2, daemon |-> 2, browser |-> 2, user |-> 1, view |-> 1]

Interchangeable ==
    Permutations({s1, s2}) \cup Permutations({r1, r2})

=============================================================================
