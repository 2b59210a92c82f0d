------------------------- MODULE MCTelegramOutbound -------------------------
(* Small instances of TelegramOutbound for TLC. *)
EXTENDS TelegramOutbound, TLC

CONSTANTS w1, w2, a1, a2

Same == Permutations({w1, w2}) \cup Permutations({a1, a2})

(* The schedule starts with a recurrence; Update can take it away. *)
MCInit == Init /\ repeats[1]
MCSpec == MCInit /\ [][Next]_vars
=============================================================================
