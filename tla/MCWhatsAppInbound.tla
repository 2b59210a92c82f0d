-------------------------- MODULE MCWhatsAppInbound --------------------------
(* Instances of WhatsAppInbound for TLC. *)
EXTENDS WhatsAppInbound, TLC

CONSTANTS i1, i2, i3, m1, w1, w2

(* Two messages of the customer. *)
TwoMessages == i1 :> "message" @@ i2 :> "message"
MessageTimes == i1 :> 1 @@ i2 :> 2

(* Two statuses of one message, one an undeliverable, and a reaction to it. *)
StatusesAndReaction == i1 :> "status" @@ i2 :> "status" @@ i3 :> "reaction"
ThreeTimes == i1 :> 1 @@ i2 :> 1 @@ i3 :> 1
AllAboutOne == i1 :> m1 @@ i2 :> m1 @@ i3 :> m1
FailedAndRead == i1 :> "FAILED" @@ i2 :> "READ"
Undeliverable == i1 :> "131026" @@ i2 :> "none"

(* Who links the contact and how he was reached before is for the messages. *)
FamiliarInit == Init /\ linked = TRUE /\ reach = "PENDING"
EffectsSpec == FamiliarInit /\ [][Next]_vars

Nothing == [i \in {} |-> m1]
AnyHandler == Permutations(Workers)
=============================================================================
