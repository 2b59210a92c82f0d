------------------------------ MODULE MCEmail ------------------------------
(* Small instances of Email for TLC: a letter of the campaign, and one
   outside it. *)
EXTENDS Email, TLC

CONSTANTS w1, w2, a, m, one, two

Same == Permutations({w1, w2})
Sources == [l \in {a, m} |-> IF l = m THEN "MANUAL" ELSE "CAMPAIGN"]
Addressed == [l \in {a, m} |-> IF l = a THEN one ELSE two]
=============================================================================
