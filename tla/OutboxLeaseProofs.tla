------------------------- MODULE OutboxLeaseProofs -------------------------
(***************************************************************************)
(* Proofs about the lease protocol, for any rows, handlers and bounds.     *)
(*                                                                         *)
(* LeaseInv is inductive: that no two handlers share a token rests on no   *)
(* token being newer than its row's last grant.                            *)
(***************************************************************************)
EXTENDS OutboxLease, TLAPS

LeaseInv == TypeOK /\ LeaseRecorded /\ OneHolder

LEMMA TypeStep == TypeOK /\ [Next]_vars => TypeOK'
<1> SUFFICES ASSUME TypeOK, [Next]_vars PROVE TypeOK'
  OBVIOUS
<1> USE DEF TypeOK, Terminal, Statuses
<1>1. ASSUME NEW w \in Workers, NEW o \in Outboxes, Pick(w, o) PROVE TypeOK'
  BY <1>1 DEF Pick
<1>2. ASSUME NEW w \in Workers, NEW o \in Outboxes, Claim(w, o) PROVE TypeOK'
  BY <1>2 DEF Claim
<1>3. ASSUME NEW w \in Workers, Drop(w) PROVE TypeOK'
  BY <1>3 DEF Drop
<1>4. ASSUME NEW w \in Workers, Settle(w) PROVE TypeOK'
  BY <1>4 DEF Settle, Holds
<1>5. ASSUME NEW o \in Outboxes, Recover(o) PROVE TypeOK'
  BY <1>5 DEF Recover
<1>6. CASE Withdraw
  BY <1>6 DEF Withdraw
<1>7. CASE Reopen
  BY <1>7 DEF Reopen
<1>8. CASE UNCHANGED vars
  BY <1>8 DEF vars
<1> QED
  BY <1>1, <1>2, <1>3, <1>4, <1>5, <1>6, <1>7, <1>8 DEF Next

LEMMA LeaseInit == Init => LeaseInv
BY DEF Init, LeaseInv, TypeOK, LeaseRecorded, OneHolder, Statuses, Terminal

(* Claim is the only step that hands out a token, and the token is newer than
   every other one on the row; all other steps only take tokens away. *)
LEMMA LeaseStep ==
    ASSUME NoRow \notin Outboxes
    PROVE  LeaseInv /\ [Next]_vars => LeaseInv'
<1> SUFFICES ASSUME LeaseInv, [Next]_vars PROVE LeaseRecorded' /\ OneHolder'
  BY TypeStep DEF LeaseInv
<1> USE DEF LeaseInv, TypeOK, Terminal, Statuses
<1>1. ASSUME NEW w \in Workers, NEW o \in Outboxes, Pick(w, o)
      PROVE LeaseRecorded' /\ OneHolder'
  BY <1>1 DEF Pick, LeaseRecorded, OneHolder
<1>2. ASSUME NEW w \in Workers, NEW o \in Outboxes, Claim(w, o)
      PROVE LeaseRecorded' /\ OneHolder'
  <2>1. LeaseRecorded'
    BY <1>2 DEF Claim, LeaseRecorded
  <2>2. \A v \in Workers : row[v] = o => lease[v] # leases[o] + 1
    BY DEF LeaseRecorded
  <2>3. OneHolder'
    BY <1>2, <2>2 DEF Claim, OneHolder
  <2> QED
    BY <2>1, <2>3
<1>3. ASSUME NEW w \in Workers, Drop(w) PROVE LeaseRecorded' /\ OneHolder'
  BY <1>3 DEF Drop, LeaseRecorded, OneHolder
<1>4. ASSUME NEW w \in Workers, Settle(w) PROVE LeaseRecorded' /\ OneHolder'
  BY <1>4 DEF Settle, Holds, LeaseRecorded, OneHolder
<1>5. ASSUME NEW o \in Outboxes, Recover(o) PROVE LeaseRecorded' /\ OneHolder'
  BY <1>5 DEF Recover, LeaseRecorded, OneHolder
<1>6. CASE Withdraw
  BY <1>6 DEF Withdraw, LeaseRecorded, OneHolder
<1>7. CASE Reopen
  BY <1>7 DEF Reopen, LeaseRecorded, OneHolder
<1>8. CASE UNCHANGED vars
  BY <1>8 DEF vars, LeaseRecorded, OneHolder
<1> QED
  BY <1>1, <1>2, <1>3, <1>4, <1>5, <1>6, <1>7, <1>8 DEF Next

LEMMA LeaseInvariant ==
    ASSUME NoRow \notin Outboxes
    PROVE  Spec => []LeaseInv
BY LeaseInit, LeaseStep, PTL DEF Spec

-----------------------------------------------------------------------------
(* At most one handler can settle a row: no token is carried twice. *)
THEOREM OneHolderHolds ==
    ASSUME NoRow \notin Outboxes
    PROVE  Spec => []OneHolder
BY LeaseInvariant, PTL DEF LeaseInv

(* A row names a lease exactly while it is worked on, and never a token that
   was not granted. *)
THEOREM LeaseRecordedHolds ==
    ASSUME NoRow \notin Outboxes
    PROVE  Spec => []LeaseRecorded
BY LeaseInvariant, PTL DEF LeaseInv

(* A settled row is never worked on as it is: no step grants a lease on it or
   changes its outcome, whatever handlers of it are still running, except that
   an operator may open a failed one again. *)
THEOREM TerminalStaysHolds ==
    ASSUME NoRow \notin Outboxes
    PROVE  Spec => TerminalStays
<1> DEFINE Stays == \A o \in Outboxes : status[o] \in Terminal =>
            /\ leases'[o] = leases[o]
            /\ \/ status'[o] = status[o]
               \/ o \in Reopenable /\ status[o] = "FAILED" /\ status'[o] = "PENDING"
<1>1. LeaseInv /\ [Next]_vars => [Stays]_vars
  <2> SUFFICES ASSUME LeaseInv, [Next]_vars PROVE Stays
    OBVIOUS
  <2> USE DEF LeaseInv, TypeOK, Terminal
  <2>1. ASSUME NEW w \in Workers, NEW o \in Outboxes, Pick(w, o) PROVE Stays
    BY <2>1 DEF Pick
  <2>2. ASSUME NEW w \in Workers, NEW o \in Outboxes, Claim(w, o) PROVE Stays
    BY <2>2 DEF Claim
  <2>3. ASSUME NEW w \in Workers, Drop(w) PROVE Stays
    BY <2>3 DEF Drop
  <2>4. ASSUME NEW w \in Workers, Settle(w) PROVE Stays
    BY <2>4 DEF Settle, Holds
  <2>5. ASSUME NEW o \in Outboxes, Recover(o) PROVE Stays
    BY <2>5 DEF Recover
  <2>6. CASE Withdraw
    BY <2>6 DEF Withdraw
  <2>7. CASE Reopen
    BY <2>7 DEF Reopen
  <2>8. CASE UNCHANGED vars
    BY <2>8 DEF vars
  <2> QED
    BY <2>1, <2>2, <2>3, <2>4, <2>5, <2>6, <2>7, <2>8 DEF Next
<1> QED
  BY <1>1, LeaseInvariant, PTL DEF Spec, TerminalStays
=============================================================================
