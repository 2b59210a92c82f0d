----------------------------- MODULE Broadcasts -----------------------------
(***************************************************************************)
(* One Telegram broadcast from its launch to its end: the controls of      *)
(* apps/api, the preparation loop of apps/worker and the Telegram          *)
(* processor as far as it touches recipients.                              *)
(*                                                                         *)
(* A control that reads the broadcast and then writes it by id alone is    *)
(* two steps; one whose write is conditional is one.  The preparation is   *)
(* guarded by a lease of 60 s until the broadcast is RUNNING; the loop     *)
(* that queues the recipients afterwards holds nothing.  An outbox row is  *)
(* named by its recipient: its key is `broadcast-recipient-<id>`.          *)
(***************************************************************************)
EXTENDS Naturals, FiniteSets

CONSTANTS Recipients,   \* channel identities that may belong to the audience
          Preparers,    \* runs of the preparation scan in different processes
          Workers,      \* handlers of Telegram outbox signals
          Requests,     \* control requests in flight at once
          Nobody,
          MaxRequests,  \* bound: control requests, single-step ones included
          MaxFaults     \* bound: crashes, errors, slow owners, lost answers

ASSUME BroadcastsAssumption ==
    /\ Nobody \notin Preparers \cup Workers \cup Recipients
    /\ IsFiniteSet(Workers)
    /\ MaxRequests \in Nat /\ MaxFaults \in Nat

VARIABLES
  status, stamps,   \* Broadcast.status; which of completedAt, cancelledAt, failedAt are set
  lock, lockOld,    \* preparationLockedBy; preparationLockedAt is older than 60 s
  recipient,        \* BroadcastRecipient.status, "NONE": no such row
  linked,           \* recipients whose messageId and outboxRecordId are set
  outbox,           \* OutboxRecord.status, "NONE": no such row
  holder, leaseOld, \* OutboxRecord.lockedBy; lockedAt is older than the lease
  message,          \* Message.status
  prep,             \* materialize() in progress
  work,             \* process() in progress
  req,              \* control requests between their read and their write
  sent,             \* Telegram: messages it accepted for a recipient
  lost,             \* history: acceptances nobody recorded
  dropped,          \* history: PENDING recipients a loop left behind
  disturbed,        \* history: recipients overwritten from a state that had passed
  eligible,         \* identities an audience can name in this behaviour
  requests, faults  \* used up so far

campaignVars == <<status, stamps, lock, lockOld>>
deliveryVars == <<outbox, holder, leaseOld, message>>
historyVars == <<sent, lost, dropped, disturbed, eligible>>
vars == <<campaignVars, recipient, linked, deliveryVars, prep, work, req,
          historyVars, requests, faults>>

Unfinished == {"PENDING", "QUEUED", "PROCESSING"}
Live == {"PENDING", "RETRY", "PROCESSING"}

NoPrep == [pc |-> "idle", audience |-> {}, todo |-> {}, cur |-> Nobody]
NoWork == [pc |-> "idle", cur |-> Nobody, known |-> FALSE, result |-> "NONE", alone |-> FALSE]
NoReq == [op |-> "none", ids |-> {}, to |-> "DRAFT"]

(* create(): DRAFT, or SCHEDULED when a time is given. *)
Init ==
    /\ status \in {"DRAFT", "SCHEDULED"}
    /\ stamps = {}
    /\ lock = Nobody /\ lockOld = FALSE
    /\ recipient = [r \in Recipients |-> "NONE"]
    /\ linked = {}
    /\ outbox = [r \in Recipients |-> "NONE"]
    /\ holder = [r \in Recipients |-> Nobody]
    /\ leaseOld = [r \in Recipients |-> FALSE]
    /\ message = [r \in Recipients |-> "NONE"]
    /\ prep = [p \in Preparers |-> NoPrep]
    /\ work = [w \in Workers |-> NoWork]
    /\ req = [a \in Requests |-> NoReq]
    /\ sent = [r \in Recipients |-> 0]
    /\ lost = [r \in Recipients |-> 0]
    /\ dropped = {}
    /\ disturbed = {}
    /\ eligible \in SUBSET Recipients
    /\ requests = 0 /\ faults \in 0..MaxFaults

(* A cancellation holds the broadcast row from its first statement to its
   commit: other writers of the row wait. *)
RowFree == \A a \in Requests : req[a].op # "cancelling"
Move(s) == RowFree /\ status' = s

Fault == faults < MaxFaults /\ faults' = faults + 1
-----------------------------------------------------------------------------
(* The controls of apps/api. *)

Ask == requests < MaxRequests /\ requests' = requests + 1

Launch ==
    /\ Ask
    /\ status \in {"DRAFT", "SCHEDULED"}
    /\ Move("PREPARING")
    /\ UNCHANGED <<stamps, lock, lockOld, recipient, linked, deliveryVars, prep, work, req,
                   historyVars, faults>>

Pause ==
    /\ Ask
    /\ status = "RUNNING"
    /\ Move("PAUSED")
    /\ UNCHANGED <<stamps, lock, lockOld, recipient, linked, deliveryVars, prep, work, req,
                   historyVars, faults>>

(* resume() also hastens and signals the rows of QUEUED recipients; rows that
   wait are handled some time in this model with or without it. *)
Resume ==
    /\ Ask
    /\ status = "PAUSED"
    /\ Move("RUNNING")
    /\ UNCHANGED <<stamps, lock, lockOld, recipient, linked, deliveryVars, prep, work, req,
                   historyVars, faults>>

(* restore(): the status the timestamps tell. *)
RestoredStatus == IF "completed" \in stamps THEN "COMPLETED"
                  ELSE IF "cancelled" \in stamps THEN "CANCELLED"
                  ELSE IF "failed" \in stamps THEN "FAILED"
                  ELSE "DRAFT"

(* What a control reads first, and the status it must find. *)
Allowed(op) ==
    CASE op = "update" -> status \in {"DRAFT", "SCHEDULED"}
      [] op = "cancel" -> status \in {"DRAFT", "SCHEDULED", "PREPARING", "RUNNING", "PAUSED"}
      [] op = "retryFailed" -> status = "RUNNING"
      [] op = "archive" -> status \notin {"PREPARING", "RUNNING", "PAUSED"}
      [] op = "restore" -> status = "ARCHIVED"

ReadControl(a, op) ==
    /\ Ask
    /\ req[a].op = "none"
    /\ Allowed(op)
    /\ req' = [req EXCEPT ![a] =
          [op |-> op,
           ids |-> IF op = "retryFailed"
                   THEN {r \in linked : recipient[r] = "FAILED"} ELSE {},
           to |-> IF op = "restore" THEN RestoredStatus ELSE "DRAFT"]]
    /\ UNCHANGED <<campaignVars, recipient, linked, deliveryVars, prep, work, historyVars, faults>>

(* update(): with a schedule it writes SCHEDULED, with `null` DRAFT, else only
   the content. *)
Update(a) ==
    /\ req[a].op = "update"
    /\ \E s \in {status, "DRAFT", "SCHEDULED"} : Move(s)
    /\ req' = [req EXCEPT ![a] = NoReq]
    /\ UNCHANGED <<stamps, lock, lockOld, recipient, linked, deliveryVars, prep, work,
                   historyVars, requests, faults>>

(* cancel(): the broadcast row is written and the recipients not yet started are read... *)
OpenCancel(a) ==
    /\ req[a].op = "cancel"
    /\ RowFree
    /\ req' = [req EXCEPT ![a] =
          [@ EXCEPT !.op = "cancelling",
                    !.ids = {r \in linked : recipient[r] \in {"PENDING", "QUEUED"}}]]
    /\ UNCHANGED <<campaignVars, recipient, linked, deliveryVars, prep, work, historyVars,
                   requests, faults>>

(* ... and the recipients that are not started NOW are cancelled, the messages and
   rows of those that WERE read then. *)
Cancel(a) ==
    /\ req[a].op = "cancelling"
    /\ status' = "CANCELLED" /\ stamps' = stamps \cup {"cancelled"}
    /\ recipient' = [r \in Recipients |->
          IF recipient[r] \in {"PENDING", "QUEUED"} THEN "CANCELLED" ELSE recipient[r]]
    /\ message' = [r \in Recipients |->
          IF r \in req[a].ids /\ message[r] = "QUEUED" THEN "FAILED" ELSE message[r]]
    /\ outbox' = [r \in Recipients |->
          IF r \in req[a].ids /\ outbox[r] \in {"PENDING", "RETRY"} THEN "FAILED" ELSE outbox[r]]
    /\ disturbed' = disturbed \cup {r \in req[a].ids : recipient[r] = "PROCESSING"}
    /\ req' = [req EXCEPT ![a] = NoReq]
    /\ UNCHANGED <<lock, lockOld, linked, holder, leaseOld, prep, work, sent, lost, dropped,
                   requests, faults, eligible>>

(* retryFailed(): recipients and messages by id, rows only where FAILED. *)
Mutant_RetryAnyRow(a) ==
    /\ req[a].op = "retryFailed"
    /\ recipient' = [r \in Recipients |-> IF r \in req[a].ids THEN "QUEUED" ELSE recipient[r]]
    /\ message' = [r \in Recipients |-> IF r \in req[a].ids THEN "QUEUED" ELSE message[r]]
    /\ outbox' = [r \in Recipients |-> IF r \in req[a].ids THEN "PENDING" ELSE outbox[r]]
    /\ disturbed' = disturbed \cup {r \in req[a].ids : recipient[r] # "FAILED"}
    /\ req' = [req EXCEPT ![a] = NoReq]
    /\ UNCHANGED <<campaignVars, linked, holder, leaseOld, prep, work,
                   sent, lost, dropped, requests, faults, eligible>>
RetryFailed(a) ==
    /\ req[a].op = "retryFailed"
    /\ recipient' = [r \in Recipients |-> IF r \in req[a].ids THEN "QUEUED" ELSE recipient[r]]
    /\ message' = [r \in Recipients |-> IF r \in req[a].ids THEN "QUEUED" ELSE message[r]]
    /\ outbox' = [r \in Recipients |->
          IF r \in req[a].ids /\ outbox[r] = "FAILED" THEN "PENDING" ELSE outbox[r]]
    /\ disturbed' = disturbed \cup {r \in req[a].ids : recipient[r] # "FAILED"}
    /\ req' = [req EXCEPT ![a] = NoReq]
    /\ UNCHANGED <<campaignVars, linked, holder, leaseOld, prep, work,
                   sent, lost, dropped, requests, faults, eligible>>

Archive(a) ==
    /\ req[a].op = "archive"
    /\ Move("ARCHIVED")
    /\ req' = [req EXCEPT ![a] = NoReq]
    /\ UNCHANGED <<stamps, lock, lockOld, recipient, linked, deliveryVars, prep, work,
                   historyVars, requests, faults>>

Restore(a) ==
    /\ req[a].op = "restore"
    /\ Move(req[a].to)
    /\ req' = [req EXCEPT ![a] = NoReq]
    /\ UNCHANGED <<stamps, lock, lockOld, recipient, linked, deliveryVars, prep, work,
                   historyVars, requests, faults>>

(* retryOutbox() of the operator, on a row that FAILED, whatever became of the
   broadcast: the row alone is guarded by its status.  Its recipient is QUEUED
   again from any status, and its message with it; a row that no recipient
   points to has neither. *)
OperatorRetry(r) ==
    /\ Ask
    /\ outbox[r] = "FAILED"
    /\ outbox' = [outbox EXCEPT ![r] = "RETRY"]
    /\ holder' = [holder EXCEPT ![r] = Nobody]
    /\ leaseOld' = [leaseOld EXCEPT ![r] = FALSE]
    /\ IF r \in linked
       THEN /\ recipient' = [recipient EXCEPT ![r] = "QUEUED"]
            /\ message' = [message EXCEPT ![r] = "QUEUED"]
       ELSE UNCHANGED <<recipient, message>>
    /\ UNCHANGED <<campaignVars, linked, prep, work, req, historyVars, faults>>
-----------------------------------------------------------------------------
(* The preparation scan: scanOnce() and materialize(). *)

InPrep(p, where) == prep[p].pc = where
PrepGoto(p, where) == prep' = [prep EXCEPT ![p].pc = where]
HoldsLock(p) == status = "PREPARING" /\ lock = p

(* A loop ends with recipients it was to queue. *)
Abandoned(p) == {r \in prep[p].todo \cup (IF InPrep(p, "pending") THEN prep[p].audience ELSE {}) :
                   recipient[r] = "PENDING"}

ScheduleDue ==
    /\ status = "SCHEDULED"
    /\ Move("PREPARING")
    /\ UNCHANGED <<stamps, lock, lockOld, recipient, linked, deliveryVars, prep, work, req,
                   historyVars, requests, faults>>

LockBroadcast(p) ==
    /\ InPrep(p, "idle") /\ RowFree
    /\ status = "PREPARING"
    /\ lock = Nobody \/ lockOld
    /\ lock' = p /\ lockOld' = FALSE
    /\ PrepGoto(p, "read")
    /\ UNCHANGED <<status, stamps, recipient, linked, deliveryVars, work, req,
                   historyVars, requests, faults>>

(* The lease is checked again and the audience resolved. *)
ResolveAudience(p) ==
    /\ InPrep(p, "read")
    /\ IF HoldsLock(p)
       THEN \E audience \in SUBSET eligible :
              prep' = [prep EXCEPT ![p] = [@ EXCEPT !.pc = "insert", !.audience = audience]]
       ELSE prep' = [prep EXCEPT ![p] = NoPrep]
    /\ UNCHANGED <<campaignVars, recipient, linked, deliveryVars, work, req, historyVars,
                   requests, faults>>

(* The channel is not ACTIVE: failBroadcast() before the audience is read, its
   twin in the transaction after.  Only the first returns. *)
RefuseChannel(p) ==
    /\ prep[p].pc \in {"read", "insert"}
    /\ IF HoldsLock(p)
       THEN /\ Move("FAILED") /\ stamps' = stamps \cup {"failed"}
            /\ lock' = Nobody /\ lockOld' = FALSE
       ELSE UNCHANGED campaignVars
    /\ IF InPrep(p, "read") THEN prep' = [prep EXCEPT ![p] = NoPrep]
                            ELSE PrepGoto(p, "pending")
    /\ UNCHANGED <<recipient, linked, deliveryVars, work, req, historyVars, requests, faults>>

(* The snapshot of the recipients, and RUNNING if the lease is still there; the
   transaction commits either way. *)
InsertRecipients(p) ==
    /\ InPrep(p, "insert")
    /\ recipient' = [r \in Recipients |->
          IF r \in prep[p].audience /\ recipient[r] = "NONE" THEN "PENDING" ELSE recipient[r]]
    /\ IF HoldsLock(p)
       THEN /\ lock' = Nobody /\ lockOld' = FALSE
            /\ IF prep[p].audience = {}
               THEN Move("COMPLETED") /\ stamps' = stamps \cup {"completed"}
               ELSE Move("RUNNING") /\ stamps' = stamps \ {"completed"}
       ELSE UNCHANGED campaignVars
    /\ PrepGoto(p, "pending")
    /\ UNCHANGED <<linked, deliveryVars, work, req, historyVars, requests, faults>>

(* PENDING recipients outside this run's audience are passed over. *)
ReadPending(p) ==
    /\ InPrep(p, "pending")
    /\ LET pending == {r \in Recipients : recipient[r] = "PENDING"} IN
       /\ prep' = [prep EXCEPT ![p] =
             [NoPrep EXCEPT !.pc = "loop", !.todo = pending \cap prep[p].audience]]
       /\ dropped' = dropped \cup (pending \ prep[p].audience)
    /\ UNCHANGED <<campaignVars, recipient, linked, deliveryVars, work, req,
                   sent, lost, disturbed, requests, faults, eligible>>

(* A recipient whose fields leave a template variable empty. *)
Mutant_StopAtRefusal(p, r) ==
    /\ InPrep(p, "loop") /\ r \in prep[p].todo
    /\ recipient' = [recipient EXCEPT ![r] = IF @ = "PENDING" THEN "FAILED" ELSE @]
    /\ prep' = [prep EXCEPT ![p] = NoPrep]
    /\ UNCHANGED <<campaignVars, linked, deliveryVars, work, req, historyVars, requests, faults>>
RefuseTemplate(p, r) ==
    /\ InPrep(p, "loop") /\ r \in prep[p].todo
    /\ recipient' = [recipient EXCEPT ![r] = IF @ = "PENDING" THEN "FAILED" ELSE @]
    /\ prep' = [prep EXCEPT ![p].todo = @ \ {r}]
    /\ UNCHANGED <<campaignVars, linked, deliveryVars, work, req, historyVars, requests, faults>>

(* The transaction of one recipient reads the broadcast: not RUNNING, no row. *)
ReadRunning(p, r) ==
    /\ InPrep(p, "loop") /\ r \in prep[p].todo
    /\ IF status = "RUNNING"
       THEN /\ prep' = [prep EXCEPT ![p] = [@ EXCEPT !.pc = "link", !.cur = r]]
            /\ UNCHANGED dropped
       ELSE /\ prep' = [prep EXCEPT ![p].todo = @ \ {r}]
            /\ dropped' = dropped \cup {s \in {r} : recipient[s] = "PENDING"}
    /\ UNCHANGED <<campaignVars, recipient, linked, deliveryVars, work, req,
                   sent, lost, disturbed, requests, faults, eligible>>

(* Message and row are created, and linked if the recipient is still PENDING; a
   link that finds nothing does not undo them.  A second row of a recipient
   breaks the unique key: the loop ends. *)
Mutant_RowWithoutLink(p) ==
    LET r == prep[p].cur IN
    /\ InPrep(p, "link") /\ outbox[r] = "NONE"
    /\ outbox' = [outbox EXCEPT ![r] = "PENDING"]
    /\ message' = [message EXCEPT ![r] = "QUEUED"]
    /\ prep' = [prep EXCEPT ![p] = [@ EXCEPT !.pc = "loop", !.todo = prep[p].todo \ {r}, !.cur = Nobody]]
    /\ UNCHANGED <<campaignVars, recipient, linked, holder, leaseOld, work, req, historyVars,
                   requests, faults>>
LinkRecipient(p) ==
    LET r == prep[p].cur IN
    /\ InPrep(p, "link")
    /\ IF outbox[r] = "NONE"
       THEN /\ outbox' = [outbox EXCEPT ![r] = "PENDING"]
            /\ message' = [message EXCEPT ![r] = "QUEUED"]
            /\ IF recipient[r] = "PENDING"
               THEN recipient' = [recipient EXCEPT ![r] = "QUEUED"] /\ linked' = linked \cup {r}
               ELSE UNCHANGED <<recipient, linked>>
            /\ prep' = [prep EXCEPT ![p] =
                  [@ EXCEPT !.pc = "loop", !.todo = prep[p].todo \ {r}, !.cur = Nobody]]
            /\ UNCHANGED dropped
       ELSE /\ prep' = [prep EXCEPT ![p] = NoPrep]
            /\ dropped' = dropped \cup Abandoned(p)
            /\ UNCHANGED <<recipient, linked, outbox, message>>
    /\ UNCHANGED <<campaignVars, holder, leaseOld, work, req,
                   sent, lost, disturbed, requests, faults, eligible>>

(* completeIfTerminal(): a count, and then an update of its own. *)
CountUnfinished(p) ==
    /\ InPrep(p, "loop") /\ prep[p].todo = {}
    /\ IF \A r \in Recipients : recipient[r] \notin Unfinished
       THEN PrepGoto(p, "complete")
       ELSE prep' = [prep EXCEPT ![p] = NoPrep]
    /\ UNCHANGED <<campaignVars, recipient, linked, deliveryVars, work, req, historyVars,
                   requests, faults>>

CompleteAfterLoop(p) ==
    /\ InPrep(p, "complete")
    /\ IF status = "RUNNING"
       THEN Move("COMPLETED") /\ stamps' = stamps \cup {"completed"}
       ELSE UNCHANGED <<status, stamps>>
    /\ prep' = [prep EXCEPT ![p] = NoPrep]
    /\ UNCHANGED <<lock, lockOld, recipient, linked, deliveryVars, work, req, historyVars,
                   requests, faults>>

(* An exception anywhere in materialize(): only the lease is given back. *)
PrepareFails(p) ==
    /\ Fault
    /\ ~InPrep(p, "idle")
    /\ IF HoldsLock(p) THEN RowFree /\ lock' = Nobody /\ lockOld' = FALSE
                       ELSE UNCHANGED <<lock, lockOld>>
    /\ prep' = [prep EXCEPT ![p] = NoPrep]
    /\ dropped' = dropped \cup Abandoned(p)
    /\ UNCHANGED <<status, stamps, recipient, linked, deliveryVars, work, req,
                   sent, lost, disturbed, requests, eligible>>

PreparerDies(p) ==
    /\ Fault
    /\ ~InPrep(p, "idle")
    /\ prep' = [prep EXCEPT ![p] = NoPrep]
    /\ dropped' = dropped \cup Abandoned(p)
    /\ UNCHANGED <<campaignVars, recipient, linked, deliveryVars, work, req,
                   sent, lost, disturbed, requests, eligible>>

(* 60 s pass; under an owner that still works it is slow. *)
LockAges ==
    /\ lock # Nobody /\ ~lockOld
    /\ lockOld' = TRUE
    /\ IF lock \in Preparers /\ InPrep(lock, "idle") THEN UNCHANGED faults ELSE Fault
    /\ UNCHANGED <<status, stamps, lock, recipient, linked, deliveryVars, prep, work, req,
                   historyVars, requests>>
-----------------------------------------------------------------------------
(* The Telegram processor on a broadcast's row: process() and fail(). *)

InWork(w, where) == work[w].pc = where
WorkGoto(w, where) == work' = [work EXCEPT ![w].pc = where]
Done(w) == work' = [work EXCEPT ![w] = NoWork]
HoldsRow(w) == LET r == work[w].cur IN outbox[r] = "PROCESSING" /\ holder[r] = w

(* Any signal: the queue's, or the recovery scan's once the row is due.  The
   backoff of RETRY and 30 s of a pause are time that passes. *)
Claim(w, r) ==
    /\ InWork(w, "idle")
    /\ outbox[r] \in {"PENDING", "RETRY"} \/ (outbox[r] = "PROCESSING" /\ leaseOld[r])
    /\ outbox' = [outbox EXCEPT ![r] = "PROCESSING"]
    /\ holder' = [holder EXCEPT ![r] = w]
    /\ leaseOld' = [leaseOld EXCEPT ![r] = FALSE]
    /\ work' = [work EXCEPT ![w] = [NoWork EXCEPT !.pc = "read", !.cur = r]]
    /\ UNCHANGED <<campaignVars, recipient, linked, message, prep, req, historyVars,
                   requests, faults>>

(* Recipient, broadcast and message are read; a row nobody linked has no
   recipient, so neither pause nor cancellation is seen. *)
Turn(r) ==
    IF r \in linked /\ status = "CANCELLED" THEN "cancelled"
    ELSE IF r \in linked /\ status = "PAUSED" THEN "defer"
    ELSE IF message[r] = "SENT" THEN "finish"
    ELSE IF r \in linked THEN "start"
    ELSE "send"

ReadRow(w) ==
    LET r == work[w].cur IN
    /\ InWork(w, "read")
    /\ work' = [work EXCEPT ![w] = [@ EXCEPT !.pc = Turn(r), !.known = r \in linked]]
    /\ UNCHANGED <<campaignVars, recipient, linked, deliveryVars, prep, req, historyVars,
                   requests, faults>>

CancelRecipient(w) ==
    LET r == work[w].cur IN
    /\ InWork(w, "cancelled")
    /\ outbox' = IF HoldsRow(w) THEN [outbox EXCEPT ![r] = "FAILED"] ELSE outbox
    /\ holder' = IF HoldsRow(w) THEN [holder EXCEPT ![r] = Nobody] ELSE holder
    /\ message' = [message EXCEPT ![r] = IF @ = "QUEUED" THEN "FAILED" ELSE @]
    /\ recipient' = [recipient EXCEPT ![r] =
          IF @ \in {"QUEUED", "PROCESSING"} THEN "CANCELLED" ELSE @]
    /\ Done(w)
    /\ UNCHANGED <<campaignVars, linked, leaseOld, prep, req, historyVars, requests, faults>>

DeferRecipient(w) ==
    LET r == work[w].cur IN
    /\ InWork(w, "defer")
    /\ outbox' = IF HoldsRow(w) THEN [outbox EXCEPT ![r] = "RETRY"] ELSE outbox
    /\ holder' = IF HoldsRow(w) THEN [holder EXCEPT ![r] = Nobody] ELSE holder
    /\ Done(w)
    /\ UNCHANGED <<campaignVars, recipient, linked, leaseOld, message, prep, req, historyVars,
                   requests, faults>>

(* finish(SUCCEEDED) of a message that was sent already. *)
FinishSent(w) ==
    LET r == work[w].cur IN
    /\ InWork(w, "finish")
    /\ outbox' = IF HoldsRow(w) THEN [outbox EXCEPT ![r] = "SUCCEEDED"] ELSE outbox
    /\ holder' = IF HoldsRow(w) THEN [holder EXCEPT ![r] = Nobody] ELSE holder
    /\ Done(w)
    /\ UNCHANGED <<campaignVars, recipient, linked, leaseOld, message, prep, req, historyVars,
                   requests, faults>>

StartRecipient(w) ==
    LET r == work[w].cur IN
    /\ InWork(w, "start")
    /\ recipient' = [recipient EXCEPT ![r] = IF @ = "QUEUED" THEN "PROCESSING" ELSE @]
    /\ WorkGoto(w, "send")
    /\ UNCHANGED <<campaignVars, linked, deliveryVars, prep, req, historyVars, requests, faults>>

(* Telegram accepts, refuses for good (or the budget is spent), or refuses for
   now.  An answer that is lost is retried like a refusal for now: only an
   AbortError would be UNKNOWN, and the transport never aborts. *)
Send(w) ==
    LET r == work[w].cur IN
    /\ InWork(w, "send")
    /\ \/ /\ sent' = [sent EXCEPT ![r] = @ + 1]
          /\ work' = [work EXCEPT ![w] = [@ EXCEPT !.pc = "count", !.result = "SENT"]]
          /\ UNCHANGED <<lost, faults>>
       \/ /\ Fault
          /\ sent' = [sent EXCEPT ![r] = @ + 1]
          /\ lost' = [lost EXCEPT ![r] = @ + 1]
          /\ \E o \in {"RETRY", "FAILED"} :
                work' = [work EXCEPT ![w] = [@ EXCEPT !.pc = "count", !.result = o]]
       \/ /\ \E o \in {"RETRY", "FAILED"} :
                work' = [work EXCEPT ![w] = [@ EXCEPT !.pc = "count", !.result = o]]
          /\ UNCHANGED <<sent, lost, faults>>
    /\ UNCHANGED <<campaignVars, recipient, linked, deliveryVars, prep, req,
                   dropped, disturbed, requests, eligible>>

(* completeBroadcastIfTerminal() counts inside the transaction: what others
   have not committed is not seen, the own recipient as it is about to be. *)
OwnIsFinished(w) ==
    LET r == work[w].cur IN
    CASE work[w].result = "SENT"   -> recipient[r] # "QUEUED"
      [] work[w].result = "FAILED" -> TRUE
      [] OTHER -> FALSE

CountRecipients(w) ==
    LET r == work[w].cur IN
    /\ InWork(w, "count")
    /\ work' = [work EXCEPT ![w] =
          [@ EXCEPT !.pc = "commit",
                    !.alone = /\ OwnIsFinished(w)
                              /\ \A q \in Recipients \ {r} : recipient[q] \notin Unfinished]]
    /\ UNCHANGED <<campaignVars, recipient, linked, deliveryVars, prep, req, historyVars,
                   requests, faults>>

CompleteIf(yes) ==
    IF yes /\ status = "RUNNING"
    THEN Move("COMPLETED") /\ stamps' = stamps \cup {"completed"}
    ELSE UNCHANGED <<status, stamps>>

(* The success transaction does nothing once the lease is gone. *)
RecordSent(w) ==
    LET r == work[w].cur IN
    /\ InWork(w, "commit") /\ work[w].result = "SENT"
    /\ IF HoldsRow(w)
       THEN /\ outbox' = [outbox EXCEPT ![r] = "SUCCEEDED"]
            /\ holder' = [holder EXCEPT ![r] = Nobody]
            /\ message' = [message EXCEPT ![r] = "SENT"]
            /\ recipient' = [recipient EXCEPT ![r] =
                  IF @ = "PROCESSING" /\ work[w].known THEN "SENT" ELSE @]
            /\ CompleteIf(work[w].known /\ work[w].alone)
            /\ UNCHANGED lost
       ELSE /\ lost' = [lost EXCEPT ![r] = @ + 1]
            /\ UNCHANGED <<outbox, holder, message, recipient, status, stamps>>
    /\ Done(w)
    /\ UNCHANGED <<lock, lockOld, linked, leaseOld, prep, req, sent, dropped, disturbed,
                   requests, faults, eligible>>

(* fail() guards the row by the lease and nothing else: a handler that was
   taken over still writes message and recipient. *)
Mutant_FailAnyRecipient(w) ==
    LET r == work[w].cur IN
    /\ InWork(w, "commit") /\ work[w].result # "SENT"
    /\ outbox' = IF HoldsRow(w) THEN [outbox EXCEPT ![r] = work[w].result] ELSE outbox
    /\ holder' = IF HoldsRow(w) THEN [holder EXCEPT ![r] = Nobody] ELSE holder
    /\ message' = [message EXCEPT ![r] = IF work[w].result = "RETRY" THEN "QUEUED" ELSE "FAILED"]
    /\ recipient' = [recipient EXCEPT ![r] = IF work[w].result = "RETRY" THEN "QUEUED" ELSE "FAILED"]
    /\ disturbed' = IF HoldsRow(w) THEN disturbed ELSE disturbed \cup {r}
    /\ Done(w)
    /\ UNCHANGED <<status, stamps, lock, lockOld, linked, leaseOld, prep, req, sent, lost, dropped,
                   requests, faults, eligible>>
RecordFailure(w) ==
    LET r == work[w].cur IN
    /\ InWork(w, "commit") /\ work[w].result # "SENT"
    /\ outbox' = IF HoldsRow(w) THEN [outbox EXCEPT ![r] = work[w].result] ELSE outbox
    /\ holder' = IF HoldsRow(w) THEN [holder EXCEPT ![r] = Nobody] ELSE holder
    /\ message' = [message EXCEPT ![r] = IF work[w].result = "RETRY" THEN "QUEUED" ELSE "FAILED"]
    /\ recipient' = [recipient EXCEPT ![r] =
          IF r \in linked /\ @ \in {"QUEUED", "PROCESSING"}
          THEN IF work[w].result = "RETRY" THEN "QUEUED" ELSE "FAILED"
          ELSE @]
    /\ CompleteIf(r \in linked /\ work[w].alone)
    /\ disturbed' = IF HoldsRow(w) THEN disturbed ELSE disturbed \cup {r}
    /\ Done(w)
    /\ UNCHANGED <<lock, lockOld, linked, leaseOld, prep, req, sent, lost, dropped,
                   requests, faults, eligible>>

HandlerDies(w) ==
    /\ Fault
    /\ ~InWork(w, "idle")
    /\ lost' = IF work[w].result = "SENT" THEN [lost EXCEPT ![work[w].cur] = @ + 1] ELSE lost
    /\ Done(w)
    /\ UNCHANGED <<campaignVars, recipient, linked, deliveryVars, prep, req,
                   sent, dropped, disturbed, requests, eligible>>

(* The lease ages; under a handler that still works it is slow. *)
RowAges(r) ==
    /\ outbox[r] = "PROCESSING" /\ ~leaseOld[r]
    /\ leaseOld' = [leaseOld EXCEPT ![r] = TRUE]
    /\ IF holder[r] \in Workers /\ work[holder[r]].cur = r THEN Fault ELSE UNCHANGED faults
    /\ UNCHANGED <<campaignVars, recipient, linked, outbox, holder, message, prep, work, req,
                   historyVars, requests>>

(* The recovery scan returns it to RETRY without an owner. *)
RecoverRow(r) ==
    /\ outbox[r] = "PROCESSING" /\ leaseOld[r]
    /\ outbox' = [outbox EXCEPT ![r] = "RETRY"]
    /\ holder' = [holder EXCEPT ![r] = Nobody]
    /\ leaseOld' = [leaseOld EXCEPT ![r] = FALSE]
    /\ UNCHANGED <<campaignVars, recipient, linked, message, prep, work, req, historyVars,
                   requests, faults>>
-----------------------------------------------------------------------------
Control ==
    \/ Launch \/ Pause \/ Resume
    \/ \E a \in Requests :
          \/ \E op \in {"update", "cancel", "retryFailed", "archive", "restore"} :
                ReadControl(a, op)
          \/ Update(a) \/ OpenCancel(a) \/ Cancel(a) \/ RetryFailed(a)
          \/ Archive(a) \/ Restore(a)
    \/ \E r \in Recipients : OperatorRetry(r)

Prepare(p) ==
    \/ LockBroadcast(p) \/ ResolveAudience(p) \/ RefuseChannel(p) \/ InsertRecipients(p)
    \/ ReadPending(p) \/ CountUnfinished(p) \/ CompleteAfterLoop(p)
    \/ \E r \in Recipients : RefuseTemplate(p, r) \/ ReadRunning(p, r)
    \/ LinkRecipient(p)

Handle(w) ==
    \/ \E r \in Recipients : Claim(w, r)
    \/ ReadRow(w) \/ CancelRecipient(w) \/ DeferRecipient(w) \/ FinishSent(w)
    \/ StartRecipient(w) \/ Send(w) \/ CountRecipients(w)
    \/ RecordSent(w) \/ RecordFailure(w)

Next ==
    \/ Control
    \/ ScheduleDue \/ LockAges
    \/ \E p \in Preparers : Prepare(p) \/ PrepareFails(p) \/ PreparerDies(p)
    \/ \E w \in Workers : Handle(w) \/ HandlerDies(w)
    \/ \E r \in Recipients : RowAges(r) \/ RecoverRow(r)

Spec == Init /\ [][Next]_vars
-----------------------------------------------------------------------------
BroadcastStatuses == {"DRAFT", "SCHEDULED", "PREPARING", "RUNNING", "PAUSED", "COMPLETED",
                      "CANCELLED", "FAILED", "ARCHIVED"}
RecipientStatuses == {"NONE", "PENDING", "QUEUED", "PROCESSING", "SENT", "FAILED", "CANCELLED"}
RowStatuses == {"NONE", "PENDING", "PROCESSING", "RETRY", "SUCCEEDED", "FAILED"}

PrepType == [pc : {"idle", "read", "insert", "pending", "loop", "link", "complete"},
             audience : SUBSET Recipients, todo : SUBSET Recipients,
             cur : Recipients \cup {Nobody}]
WorkType == [pc : {"idle", "read", "cancelled", "defer", "finish", "start", "send", "count",
                   "commit"},
             cur : Recipients \cup {Nobody}, known : BOOLEAN,
             result : {"NONE", "SENT", "RETRY", "FAILED"}, alone : BOOLEAN]
ReqType == [op : {"none", "update", "cancel", "cancelling", "retryFailed", "archive", "restore"},
            ids : SUBSET Recipients,
            to : {"COMPLETED", "CANCELLED", "FAILED", "DRAFT"}]

(* Every variable has its type. *)
TypeOK ==
    /\ status \in BroadcastStatuses
    /\ stamps \subseteq {"completed", "cancelled", "failed"}
    /\ lock \in Preparers \cup {Nobody} /\ lockOld \in BOOLEAN
    /\ recipient \in [Recipients -> RecipientStatuses]
    /\ linked \subseteq Recipients
    /\ outbox \in [Recipients -> RowStatuses]
    /\ holder \in [Recipients -> Workers \cup {Nobody}]
    /\ leaseOld \in [Recipients -> BOOLEAN]
    /\ message \in [Recipients -> {"NONE", "QUEUED", "SENT", "FAILED"}]
    /\ prep \in [Preparers -> PrepType]
    /\ work \in [Workers -> WorkType]
    /\ req \in [Requests -> ReqType]
    /\ sent \in [Recipients -> Nat] /\ lost \in [Recipients -> Nat]
    /\ dropped \subseteq Recipients /\ disturbed \subseteq Recipients
    /\ eligible \subseteq Recipients
    /\ requests \in Nat /\ faults \in Nat

(* Telegram has a broadcast's message at most once more often than acceptances
   were lost: the row that recorded one is never sent again, whatever the
   controls and the other handlers do (process():386-398, retryFailed():417). *)
InHand(r) == {w \in Workers : work[w].cur = r /\ work[w].result = "SENT"}
OneDelivery ==
    \A r \in Recipients :
       sent[r] = lost[r] + Cardinality(InHand(r)) + (IF outbox[r] = "SUCCEEDED" THEN 1 ELSE 0)

(* A row that no recipient points to belongs to a recipient that was cancelled, or
   refused by another run of the loop, while the row was being made
   (materialize():232-283): nothing else makes one. *)
OrphansWereRefused ==
    \A r \in Recipients :
       outbox[r] # "NONE" /\ r \notin linked => recipient[r] \in {"CANCELLED", "FAILED"}

(* While the broadcast runs, a PENDING recipient is on the list of a loop that
   will come to it, unless a loop has dropped it: by an error, a crash, a second
   row, an audience without it, or a status that was not RUNNING when its turn
   came (materialize():209-286). *)
WillQueue(p, r) == \/ prep[p].pc \in {"loop", "link"} /\ r \in prep[p].todo
                   \/ prep[p].pc = "pending" /\ r \in prep[p].audience
PendingHasPreparer ==
    \A r \in Recipients :
       status = "RUNNING" /\ recipient[r] = "PENDING" /\ r \notin dropped
          => \E p \in Preparers : WillQueue(p, r)

(* A recipient that waits or is being sent has a row that brings it to an end,
   unless it was overwritten from a state that had passed: by the failure of a
   handler that had lost its lease, by a retryFailed() that read it FAILED
   before another one did its work, or by a cancel() that read it before it was
   started (fail():1085-1106, retryFailed():398-424, cancel():356-386). *)
WaitingHasRow ==
    \A r \in Recipients :
       recipient[r] \in {"QUEUED", "PROCESSING"} /\ r \notin disturbed => outbox[r] \in Live

(* SENT is final, and CANCELLED until the operator retries the recipient's failed
   row: in that step alone it is QUEUED again.  Every other write that would
   take one of them back was made on a stale read, and is marked: that of a
   retryFailed(), of a cancel(), or of a handler that lost its lease
   (broadcastRecipient.updateMany in every transaction; markTelegramRelations():
   619-625 alone has no look at the status). *)
Revived(r) == outbox[r] = "FAILED" /\ outbox'[r] = "RETRY"
FinalStays ==
    [][\A r \in Recipients :
          recipient[r] \in {"SENT", "CANCELLED"} /\ r \notin disturbed'
             => \/ recipient'[r] = recipient[r]
                \/ recipient[r] = "CANCELLED" /\ Revived(r)]_vars
=============================================================================
