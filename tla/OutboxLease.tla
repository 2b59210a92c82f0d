---------------------------- MODULE OutboxLease ----------------------------
(***************************************************************************)
(* What every outbox processor of the worker promises about one table: a   *)
(* row of OutboxRecord is worked on under a lease, a fresh token written   *)
(* by a conditional UPDATE, and only the handler that carries the token    *)
(* the row still names may settle the row.  A lease can be taken over when *)
(* it has gone stale, so the old handler may still be running: the token,  *)
(* not the handler's belief, decides.  Settled rows stay settled, except   *)
(* that a failed row of those an operator can retry may be opened again.   *)
(*                                                                         *)
(* Tokens are `${workerId}:${randomUUID()}` in the code.  Here a token is  *)
(* the number of leases the row has granted so far, which is fresh too.    *)
(***************************************************************************)
EXTENDS Naturals

CONSTANTS Workers,   \* handlers that may run at once (BullMQ concurrency)
          Outboxes,  \* outbox rows
          NoRow,     \* "this handler works on no row"
          Reopenable,\* rows an operator may have retried after they FAILED
          MaxLeases  \* bound: leases a row is granted

VARIABLES status,    \* OutboxRecord.status
          lockedBy,  \* OutboxRecord.lockedBy, 0 when null
          leases,    \* leases granted so far, the source of fresh tokens
          row,       \* the row a handler was signalled about
          lease      \* the token a handler carries, 0 before its claim

vars == <<status, lockedBy, leases, row, lease>>

Terminal == {"SUCCEEDED", "FAILED", "UNKNOWN"}
Statuses == {"PENDING", "RETRY", "PROCESSING"} \cup Terminal

Init == /\ status \in [Outboxes -> {"PENDING", "RETRY"}]
        /\ lockedBy = [o \in Outboxes |-> 0]
        /\ leases = [o \in Outboxes |-> 0]
        /\ row = [w \in Workers |-> NoRow]
        /\ lease = [w \in Workers |-> 0]

Holds(w) == /\ row[w] \in Outboxes
            /\ status[row[w]] = "PROCESSING"
            /\ lockedBy[row[w]] = lease[w]

(* A signal names a row; the handler reads it and owns nothing yet. *)
Pick(w, o) == /\ row[w] = NoRow
              /\ row' = [row EXCEPT ![w] = o]
              /\ UNCHANGED <<status, lockedBy, leases, lease>>

(* The conditional UPDATE: a waiting row, or one whose lease is stale. *)
Claim(w, o) ==
    /\ row[w] = o
    /\ lease[w] = 0
    /\ status[o] \notin Terminal
    /\ leases[o] < MaxLeases
    /\ status' = [status EXCEPT ![o] = "PROCESSING"]
    /\ leases' = [leases EXCEPT ![o] = @ + 1]
    /\ lockedBy' = [lockedBy EXCEPT ![o] = leases[o] + 1]
    /\ lease' = [lease EXCEPT ![w] = leases[o] + 1]
    /\ UNCHANGED row

(* The handler stops: it lost the race, lost the lease, threw or died. *)
Drop(w) == /\ row[w] # NoRow
           /\ row' = [row EXCEPT ![w] = NoRow]
           /\ lease' = [lease EXCEPT ![w] = 0]
           /\ UNCHANGED <<status, lockedBy, leases>>

(* Only the carrier of the row's current token writes the outcome. *)
Settle(w) ==
    /\ Holds(w)
    /\ \E s \in Terminal \cup {"RETRY"} :
          status' = [status EXCEPT ![row[w]] = s]
    /\ lockedBy' = [lockedBy EXCEPT ![row[w]] = 0]
    /\ row' = [row EXCEPT ![w] = NoRow]
    /\ lease' = [lease EXCEPT ![w] = 0]
    /\ UNCHANGED leases

(* The recovery scan takes a stale lease away without working on the row. *)
Recover(o) == /\ status[o] = "PROCESSING"
              /\ status' = [status EXCEPT ![o] = "RETRY"]
              /\ lockedBy' = [lockedBy EXCEPT ![o] = 0]
              /\ UNCHANGED <<leases, row, lease>>

(* Rows nobody works on can be withdrawn, several in one transaction. *)
Withdraw ==
    /\ \E S \in SUBSET {o \in Outboxes : status[o] \in {"PENDING", "RETRY"}} :
          status' = [o \in Outboxes |-> IF o \in S THEN "FAILED" ELSE status[o]]
    /\ UNCHANGED <<lockedBy, leases, row, lease>>

(* Failed rows of an operator's choice wait again, with new tokens to come. *)
Reopen ==
    /\ \E S \in SUBSET {o \in Reopenable \cap Outboxes : status[o] = "FAILED"} :
          status' = [o \in Outboxes |-> IF o \in S THEN "PENDING" ELSE status[o]]
    /\ UNCHANGED <<lockedBy, leases, row, lease>>

Next == \/ \E w \in Workers :
              \/ Drop(w)
              \/ Settle(w)
              \/ \E o \in Outboxes : Pick(w, o) \/ Claim(w, o)
        \/ \E o \in Outboxes : Recover(o)
        \/ Withdraw \/ Reopen

Spec == Init /\ [][Next]_vars
-----------------------------------------------------------------------------
(* The rows and the handlers hold values of their columns. *)
TypeOK == /\ status \in [Outboxes -> Statuses]
          /\ lockedBy \in [Outboxes -> Nat]
          /\ leases \in [Outboxes -> Nat]
          /\ row \in [Workers -> Outboxes \cup {NoRow}]
          /\ lease \in [Workers -> Nat]

(* A row names a lease exactly while it is being worked on, and no token,
   on a row or in a handler, is newer than the row's last grant; an idle
   handler carries none. *)
LeaseRecorded ==
    /\ \A o \in Outboxes : /\ lockedBy[o] <= leases[o]
                           /\ (lockedBy[o] # 0) <=> (status[o] = "PROCESSING")
    /\ \A w \in Workers : IF row[w] = NoRow THEN lease[w] = 0
                                            ELSE lease[w] <= leases[row[w]]

(* Two handlers of one row never carry the same token, so at most one of
   them can settle it, however many believe they still own it. *)
OneHolder ==
    \A v, w \in Workers :
        (row[v] = row[w] /\ lease[v] = lease[w] /\ lease[v] # 0) => v = w

(* No step grants a lease on a settled row or changes its outcome; an operator
   may open a failed one again, which then waits for a lease like any other. *)
TerminalStays ==
    [][\A o \in Outboxes : status[o] \in Terminal =>
          /\ leases'[o] = leases[o]
          /\ \/ status'[o] = status[o]
             \/ o \in Reopenable /\ status[o] = "FAILED" /\ status'[o] = "PENDING"]_vars
=============================================================================
