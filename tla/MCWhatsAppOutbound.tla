------------------------- MODULE MCWhatsAppOutbound -------------------------
(* Instances of WhatsAppOutbound for TLC. *)
EXTENDS WhatsAppOutbound, TLC

CONSTANTS o1, o2, m1, m2, w1, w2, a1, a2

OneMessage == o1 :> m1
SameMessage == o1 :> m1 @@ o2 :> m1
TwoMessages == o1 :> m1 @@ o2 :> m2
OneSend == o1 :> "SEND"
SendThenReact == o1 :> "SEND" @@ o2 :> "SET_REACTION"
TwoSends == o1 :> "SEND" @@ o2 :> "SEND"
AnyHandler == Permutations(Workers)

(* Of two recipients only the first is taken twice: it can be deferred, or fail
   and be retried, and be served again, while the second is served once. *)
BroadcastSpec == Init /\ [][Next /\ leases'[o2] <= 1]_vars
=============================================================================
