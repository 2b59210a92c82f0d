----------------------------- MODULE MCCrmOutbox -----------------------------
(* A small instance of CrmOutbox for TLC: three contacts with a channel, one
   that a snapshot can bring, a message from the first. *)
EXTENDS CrmOutbox, TLC

CONSTANTS ca, cb, cc, cn, m1, l1, l2, w1, w2, q1, q2

FromWhom == [m \in {m1} |-> ca]
Same == Permutations({l1, l2}) \cup Permutations({w1, w2}) \cup Permutations({q1, q2})
        \cup Permutations({cb, cc})

(* Where some p and s without leads have been merged, and Cyber Pulse has been told. *)
AfterMerge(p, s) ==
    LET Into(c) == IF c = s THEN p ELSE c IN
    /\ contact = [c \in Contacts |-> IF c = s THEN "MERGED" ELSE IF c \in Known THEN "ACTIVE" ELSE "NONE"]
    /\ into = [c \in Contacts |-> IF c = s THEN p ELSE Nobody]
    /\ owner = [c \in Known |-> Into(c)] /\ kin = [c \in Contacts |-> Into(c)]
    /\ outbox = MergeOf(p, s) :> [NewRow(p) EXCEPT !.status = "SUCCEEDED"]
    /\ done = MergeOf(p, s) :> Nobody
    /\ lead = [c \in Contacts |-> Nobody] /\ link = lead /\ gone = {}
    /\ stored = [m \in Messages |-> Nobody] /\ reading = [m \in Messages |-> NoTx]
    /\ req = [q \in Requests |-> NoReq] /\ call = [w \in Workers |-> NoCall]
    /\ overlapped = {} /\ uneven = {} /\ outdated = {} /\ doubled = {} /\ disturbed = {}

(* Two requests without a fault, or one with one, from the start or after a merge. *)
MCInit ==
    /\ \/ Init
       \/ /\ \E p, s \in Known : p # s /\ AfterMerge(p, s)
          /\ requests \in 0..MaxRequests /\ faults \in 0..MaxFaults
    /\ <<requests, faults>> \in {<<0, MaxFaults>>, <<MaxRequests - 1, 0>>}
MCSpec == MCInit /\ [][Next]_vars
=============================================================================
