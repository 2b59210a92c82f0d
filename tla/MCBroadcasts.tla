---------------------------- MODULE MCBroadcasts ----------------------------
(* Instances of Broadcasts for TLC. *)
EXTENDS Broadcasts, TLC

Same == Permutations(Workers) \cup Permutations(Preparers) \cup Permutations(Requests)
           \cup Permutations(Recipients)

(* One recipient with every fault, or two with none left. *)
MCInit == Init /\ (faults = 0 <=> Cardinality(eligible) <= 1)
MCSpec == MCInit /\ [][Next]_vars
=============================================================================
