-------------------------- MODULE WhatsAppOutbound --------------------------
(***************************************************************************)
(* The WhatsApp outbound processor of apps/worker with its recovery scan,  *)
(* the rows it reads and writes, and the broadcast controls of apps/api    *)
(* that touch the same rows.                                               *)
(*                                                                         *)
(* A handler (BullMQ calls `process` for a signal) is a sequence of        *)
(* database statements and provider calls.  Each await is a step of its    *)
(* own, so handlers interleave with each other, with the API and with      *)
(* time.  A transaction whose statements are guarded by the lease is one   *)
(* step, its commit; what it READ before it committed (the count of        *)
(* unfinished recipients, under READ COMMITTED) is an earlier step.        *)
(***************************************************************************)
EXTENDS Naturals, FiniteSets

CONSTANTS Workers, Outboxes, NoRow, MaxLeases,
          Messages,
          MessageOf,    \* payload.messageId of a row
          Action,       \* "SEND", or payload.action "MARK_READ" / "SET_REACTION"
          WithMedia,    \* rows whose message has media to upload
          Templates,    \* rows whose message is an approved template
          Broadcasted,  \* rows linked from a recipient of the one broadcast
          Scheduled,    \* messages a ScheduledMessage row points to
          FromCrm,      \* messages with metadata.source = 'crm'
          Retries,      \* requests to retry the broadcast's failed recipients
          MaxAttempts,  \* OutboxRecord.maxAttempts
          MaxFaults     \* bound: crashes, database errors, slow handlers, lost signals

ASSUME WhatsAppAssumption ==
    /\ NoRow \notin Outboxes
    /\ MaxLeases \in Nat /\ MaxAttempts \in Nat \ {0} /\ MaxFaults \in Nat
    /\ MessageOf \in [Outboxes -> Messages]
    /\ Action \in [Outboxes -> {"SEND", "MARK_READ", "SET_REACTION"}]
    /\ Broadcasted \subseteq {o \in Outboxes : Action[o] = "SEND"}
    /\ \A o \in Broadcasted : MessageOf[o] \notin Scheduled \cup FromCrm
    \* One sending row per message; only incoming messages are marked as read.
    /\ \A o, p \in Outboxes :
          /\ MessageOf[o] = MessageOf[p] /\ Action[o] = "SEND"
          /\ Action[p] \in {"SEND", "MARK_READ"}
          => o = p

VARIABLES
  \* OutboxRecord: status ("NONE": no such row yet), lockedBy, attempts;
  \* leases granted so far, the source of fresh tokens; lockedAt older than the
  \* lease; nextAttemptAt null or passed; payload.providerMessageId of a send
  \* (0: none); payload.whatsAppMediaUploads
  status, lockedBy, attempts, leases, lapsed, due, journal, media,
  message,      \* Message.status
  externalId,   \* Message.externalMessageId, 0: null
  recipient,    \* BroadcastRecipient.status of a message, "NONE": no such row
  broadcast,    \* Broadcast.status
  schedule,     \* ScheduledMessage.status of a message, "NONE": no such row
  reach,        \* ChannelIdentity.whatsAppReachability of a message's addressee
  crm,          \* CRM outbox intents by idempotency key <<message, kind>>
  spoiled,      \* history: messages a failing action row has written FAILED
  jobs,         \* rows signalled in the BullMQ queue
  accepted,     \* Meta: how often it accepted the row's message
  uploads,      \* Meta: how often it stored the row's media
  gap,          \* history: answers of Meta the row never got: lost on the way,
                \* outlived, or hidden behind a 5xx
  pc, row, lease, ctx,   \* handlers
  cancel,       \* BroadcastsService.cancel(): "none", "checked", or "open", its
                \* transaction holding the broadcast row
  waiting,      \* rows cancel() read as not started; afterwards, those of them
                \* that were started by the time it wrote
  retry,        \* what each request to retry the failed has read so far
  overwritten,  \* history: rows that were SUCCEEDED or UNKNOWN when such a
                \* request wrote their recipient and message QUEUED
  late,         \* history: messages it wrote QUEUED in a broadcast that was
                \* COMPLETED or about to be
  faults        \* faults so far

rowVars == <<status, lockedBy, attempts, leases, lapsed, due, journal, media>>
projVars == <<message, externalId, recipient, broadcast, schedule, reach, crm, spoiled>>
metaVars == <<accepted, uploads>>
handlerVars == <<pc, row, lease, ctx>>
controlVars == <<cancel, waiting, retry, overwritten, late>>
vars == <<rowVars, projVars, jobs, metaVars, gap, handlerVars, controlVars, faults>>

Terminal == {"SUCCEEDED", "FAILED", "UNKNOWN"}
Sends == {o \in Outboxes : Action[o] = "SEND"}

(* What a handler remembers: claimed.attempts, its copy of the payload, the
   wamid Meta returned, the outcome it is about to write and how. *)
NoCtx == [tries |-> 0, journal |-> 0, media |-> FALSE, wamid |-> 0,
          outcome |-> "NONE", code |-> "NONE", only |-> FALSE,
          alone |-> FALSE, caught |-> FALSE]

Init ==
    /\ status = [o \in Outboxes |-> IF o \in Sends THEN "PENDING" ELSE "NONE"]
    /\ lockedBy = [o \in Outboxes |-> 0]
    /\ attempts = [o \in Outboxes |-> 0]
    /\ leases = [o \in Outboxes |-> 0]
    /\ lapsed = [o \in Outboxes |-> FALSE]
    /\ due \in [Outboxes -> BOOLEAN] /\ \A o \in Outboxes : due[o] => o \in Sends
    /\ journal = [o \in Outboxes |-> 0]
    /\ media = [o \in Outboxes |-> FALSE]
    /\ message \in [Messages -> {"QUEUED", "SENT", "DELIVERED", "READ"}]
    /\ \A m \in Messages : (message[m] = "QUEUED") <=> \E o \in Sends : MessageOf[o] = m
    /\ externalId = [m \in Messages |-> IF message[m] = "QUEUED" THEN 0 ELSE 1]
    /\ recipient = [m \in Messages |->
                      IF \E o \in Broadcasted : MessageOf[o] = m THEN "QUEUED" ELSE "NONE"]
    /\ broadcast = "RUNNING"
    /\ schedule = [m \in Messages |-> IF m \in Scheduled THEN "QUEUED" ELSE "NONE"]
    /\ reach = [m \in Messages |-> "UNKNOWN"]
    /\ crm = {} /\ spoiled = {}
    /\ jobs \in SUBSET Sends
    /\ accepted = [o \in Outboxes |-> 0]
    /\ uploads = [o \in Outboxes |-> 0]
    /\ gap = [o \in Outboxes |-> 0]
    /\ pc = [w \in Workers |-> "idle"]
    /\ row = [w \in Workers |-> NoRow]
    /\ lease = [w \in Workers |-> 0]
    /\ ctx = [w \in Workers |-> NoCtx]
    /\ cancel = "none" /\ waiting = {}
    /\ retry = [a \in Retries |-> [step |-> "none", ids |-> {}]]
    /\ overwritten = {} /\ late = {}
    /\ faults = 0
-----------------------------------------------------------------------------
At(w, where) == pc[w] = where
Msg(w) == MessageOf[row[w]]
Goto(w, where) == pc' = [pc EXCEPT ![w] = where]

(* `where: { id, lockedBy: leaseToken, status: 'PROCESSING' }` *)
Mutant_AnyLease(w) == row[w] \in Outboxes /\ status[row[w]] = "PROCESSING"
Holds(w) == /\ row[w] \in Outboxes
            /\ status[row[w]] = "PROCESSING"
            /\ lockedBy[row[w]] = lease[w]

(* The handler ends; BullMQ may run a job again whose handler threw.  (After
   fail() in the catch clause it does not throw, but a settled row ignores the
   signal anyway.) *)
Leave(w) == /\ pc' = [pc EXCEPT ![w] = "idle"]
            /\ row' = [row EXCEPT ![w] = NoRow]
            /\ lease' = [lease EXCEPT ![w] = 0]
            /\ ctx' = [ctx EXCEPT ![w] = NoCtx]

MayRunAgain(w) == jobs' \in {jobs, jobs \cup {row[w]}}

(* The handler knows the outcome and turns to write it.  A transaction that
   finishes a recipient counts the broadcast's unfinished ones on the way. *)
Decide(w, outcome, code, only, caught) ==
    /\ ctx' = [ctx EXCEPT ![w] = [@ EXCEPT !.outcome = outcome, !.code = code,
                                           !.only = only, !.caught = caught]]
    /\ Goto(w, IF outcome \in Terminal /\ ~only /\ recipient[Msg(w)] # "NONE"
               THEN "count" ELSE "commit")

(* retry(): a spent budget fails the row instead. *)
RetryOrFail(w) == IF ctx[w].tries >= MaxAttempts THEN "FAILED" ELSE "RETRY"

(* WhatsAppOutboundPermanentError and the last catch clause of process(). *)
FailPermanently(w) == Decide(w, "FAILED", "NONE", FALSE, TRUE)
RetryPreparation(w) == Decide(w, RetryOrFail(w), "NONE", FALSE, TRUE)
-----------------------------------------------------------------------------
(* reaction() and markRead() of the CRM's API: a row for a message whose wamid
   is known, signalled unless the API dies first. *)
Request(o) ==
    /\ status[o] = "NONE"
    /\ externalId[MessageOf[o]] # 0
    /\ status' = [status EXCEPT ![o] = "PENDING"]
    /\ due' = [due EXCEPT ![o] = TRUE]
    /\ jobs' \in {jobs, jobs \cup {o}}
    /\ UNCHANGED <<lockedBy, attempts, leases, lapsed, journal, media, projVars, metaVars, gap,
                   handlerVars, faults, controlVars>>

(* BullMQ hands a signal to an idle handler, which reads the row. *)
Deliver(w, o) ==
    /\ At(w, "idle")
    /\ o \in jobs
    /\ jobs' = jobs \ {o}
    /\ IF status[o] \in Terminal
       THEN UNCHANGED handlerVars
       ELSE /\ Goto(w, "claim")
            /\ row' = [row EXCEPT ![w] = o]
            /\ ctx' = [ctx EXCEPT ![w] = [@ EXCEPT !.tries = attempts[o] + 1,
                                         !.journal = journal[o], !.media = media[o]]]
            /\ UNCHANGED lease
    /\ UNCHANGED <<rowVars, projVars, metaVars, gap, faults, controlVars>>

Claimable(o) == \/ status[o] \in {"PENDING", "RETRY"} /\ due[o]
                \/ status[o] = "PROCESSING" /\ lapsed[o]

(* The conditional UPDATE sees the row of now; the payload the handler goes on
   with is the one it read before.  `gap` notes when that copy is out of date. *)
Claim(w) ==
    LET o == row[w] IN
    /\ At(w, "claim")
    /\ leases[o] < MaxLeases
    /\ IF Claimable(o)
       THEN /\ status' = [status EXCEPT ![o] = "PROCESSING"]
            /\ attempts' = [attempts EXCEPT ![o] = @ + 1]
            /\ leases' = [leases EXCEPT ![o] = @ + 1]
            /\ lockedBy' = [lockedBy EXCEPT ![o] = leases[o] + 1]
            /\ lapsed' = [lapsed EXCEPT ![o] = FALSE]
            /\ lease' = [lease EXCEPT ![w] = leases[o] + 1]
            /\ Goto(w, "start")
            /\ gap' = [gap EXCEPT ![o] = IF ctx[w].journal # journal[o] \/ ctx[w].media # media[o]
                                         THEN @ + 1 ELSE @]
            /\ UNCHANGED <<due, journal, media, row, ctx>>
       ELSE Leave(w) /\ UNCHANGED <<rowVars, gap>>
    /\ UNCHANGED <<projVars, jobs, metaVars, faults, controlVars>>

(* The payload copy carries the wamid of an earlier attempt. *)
Mutant_NeverJournaled(w) == FALSE
Journaled(w) == ctx[w].journal # 0

(* connection(): not ACTIVE is permanent, whatever the payload says.  A
   payload that carries a wamid is finished without another call. *)
ReadConnection(w) ==
    /\ At(w, "start")
    /\ \E active \in BOOLEAN :
          CASE ~active -> FailPermanently(w)
            [] active /\ row[w] \notin Sends ->
                  \/ Goto(w, "act") /\ UNCHANGED ctx
                  \/ /\ Action[row[w]] = "SET_REACTION"    \* scope, emoji or window
                     /\ FailPermanently(w)
            [] OTHER ->
                  IF Journaled(w)
                  THEN Decide(w, "SUCCEEDED", "NONE", FALSE, FALSE)
                  ELSE \/ FailPermanently(w)        \* message or identity out of scope
                       \/ Goto(w, "load") /\ UNCHANGED ctx
    /\ UNCHANGED <<rowVars, projVars, jobs, metaVars, gap, row, lease, faults, controlVars>>

(* The recipient that links this row, with its broadcast's status. *)
LoadRecipient(w) ==
    /\ At(w, "load")
    /\ CASE row[w] \notin Broadcasted -> Goto(w, "schedule") /\ UNCHANGED ctx
         [] row[w] \in Broadcasted /\ broadcast = "RUNNING" ->
               Goto(w, "recipient") /\ UNCHANGED ctx
         [] row[w] \in Broadcasted /\ broadcast = "PAUSED" ->
               Decide(w, "DEFERRED", "NONE", FALSE, FALSE)
         [] OTHER -> Decide(w, "CANCELLED", "NONE", FALSE, FALSE)
    /\ UNCHANGED <<rowVars, projVars, jobs, metaVars, gap, row, lease, faults, controlVars>>

MarkRecipient(w) ==
    /\ At(w, "recipient")
    /\ recipient' = [recipient EXCEPT ![Msg(w)] =
                       IF @ \in {"QUEUED", "PROCESSING"} THEN "PROCESSING" ELSE @]
    /\ Goto(w, "schedule")
    /\ UNCHANGED <<rowVars, message, externalId, broadcast, schedule, reach, crm, spoiled,
                   jobs, metaVars, gap, row, lease, ctx, faults, controlVars>>

(* The payload copy names no upload of the message's media yet. *)
NeedsUpload(w) == row[w] \in WithMedia /\ ~ctx[w].media

MarkScheduled(w) ==
    /\ At(w, "schedule")
    /\ schedule' = [schedule EXCEPT ![Msg(w)] = IF @ = "QUEUED" THEN "PROCESSING" ELSE @]
    /\ Goto(w, IF NeedsUpload(w) THEN "upload" ELSE "window")
    /\ UNCHANGED <<rowVars, message, externalId, recipient, broadcast, reach, crm, spoiled,
                   jobs, metaVars, gap, row, lease, ctx, faults, controlVars>>

(* providerMediaId(): a refusal is permanent, 429 goes to the catch clause, and
   a 5xx or a lost answer leaves the row UNKNOWN: Meta may have the bytes. *)
UploadMedia(w) ==
    /\ At(w, "upload")
    /\ \/ /\ uploads' = [uploads EXCEPT ![row[w]] = @ + 1]
          /\ \/ Goto(w, "storeUpload") /\ UNCHANGED ctx
             \/ Decide(w, "UNKNOWN", "NONE", FALSE, FALSE)
       \/ /\ \/ FailPermanently(w)
             \/ RetryPreparation(w)
             \/ Decide(w, "UNKNOWN", "NONE", FALSE, FALSE)
          /\ UNCHANGED uploads
    /\ UNCHANGED <<rowVars, projVars, jobs, accepted, gap, row, lease, faults, controlVars>>

(* The media id joins the handler's copy of the payload, which replaces the
   row's.  Without the lease the outcome is written as UNKNOWN, which needs
   the lease too and so only throws. *)
StoreUpload(w) ==
    /\ At(w, "storeUpload")
    /\ IF Holds(w)
       THEN /\ media' = [media EXCEPT ![row[w]] = TRUE]
            /\ journal' = [journal EXCEPT ![row[w]] = ctx[w].journal]
            /\ ctx' = [ctx EXCEPT ![w] = [@ EXCEPT !.media = TRUE]]
            /\ Goto(w, "window")
       ELSE /\ Decide(w, "UNKNOWN", "NONE", FALSE, FALSE)
            /\ UNCHANGED <<media, journal>>
    /\ UNCHANGED <<status, lockedBy, attempts, leases, lapsed, due, projVars, jobs, metaVars, gap,
                   row, lease, faults, controlVars>>

(* prepareMessage() throws on a body, media asset, template or button it cannot
   send, and so do the window and the quoted message after it. *)
Unsendable(w) == FailPermanently(w)

(* assertServiceWindow(), the addressee, the access token and the quoted
   message, all before the call; a template needs no open window. *)
CheckWindow(w) ==
    /\ At(w, "window")
    /\ \E open, usable \in BOOLEAN :
          IF usable /\ (open \/ row[w] \in Templates)
          THEN Goto(w, "send") /\ UNCHANGED ctx
          ELSE \/ Unsendable(w)
               \/ Decide(w, "FAILED", "NONE", FALSE, FALSE)
    /\ UNCHANGED <<rowVars, projVars, jobs, metaVars, gap, row, lease, faults, controlVars>>

(* classifySendFailure() of a message Meta has not accepted: 429 and 5xx are
   tried again, any other answer is final, and no answer leaves it UNKNOWN. *)
SendFails(w) ==
    \/ Decide(w, "UNKNOWN", "NONE", FALSE, FALSE)
    \/ \E code \in {"RECIPIENT", "OTHER"} : Decide(w, "FAILED", code, FALSE, FALSE)
    \/ Decide(w, RetryOrFail(w), "NONE", FALSE, FALSE)

(* POST /{phone-number-id}/messages.  Meta may accept and its answer be lost,
   or be a 5xx: GRAPH_API_UNKNOWN_RESULT to the code, which tries again. *)
CallProvider(w) ==
    /\ At(w, "send")
    /\ \/ /\ accepted' = [accepted EXCEPT ![row[w]] = @ + 1]
          /\ \/ /\ ctx' = [ctx EXCEPT ![w] = [@ EXCEPT !.wamid = accepted[row[w]] + 1]]
                /\ Goto(w, "journal")
                /\ UNCHANGED gap
             \/ Decide(w, "UNKNOWN", "NONE", FALSE, FALSE) /\ UNCHANGED gap
             \/ /\ Decide(w, RetryOrFail(w), "NONE", FALSE, FALSE)
                /\ gap' = [gap EXCEPT ![row[w]] = @ + 1]
       \/ SendFails(w) /\ UNCHANGED <<accepted, gap>>
    /\ UNCHANGED <<rowVars, projVars, jobs, uploads, row, lease, faults, controlVars>>

(* markMessageRead and the reaction call: only the outbox row learns of it. *)
CallAction(w) ==
    /\ At(w, "act")
    /\ \E outcome \in {"SUCCEEDED", "FAILED", "UNKNOWN", RetryOrFail(w)} :
          Decide(w, outcome, "NONE", TRUE, FALSE)
    /\ UNCHANGED <<rowVars, projVars, jobs, metaVars, gap, row, lease, faults, controlVars>>

(* persistProviderSendJournal(); a lost lease throws with the wamid in hand. *)
Journal(w) ==
    /\ At(w, "journal")
    /\ IF Holds(w)
       THEN /\ journal' = [journal EXCEPT ![row[w]] = ctx[w].wamid]
            /\ media' = [media EXCEPT ![row[w]] = ctx[w].media]
            /\ ctx' = [ctx EXCEPT ![w] = [@ EXCEPT !.journal = ctx[w].wamid,
                                                   !.outcome = "SUCCEEDED"]]
            /\ Goto(w, IF recipient[Msg(w)] # "NONE" THEN "count" ELSE "commit")
            /\ UNCHANGED <<row, lease, jobs>>
       ELSE Leave(w) /\ MayRunAgain(w) /\ UNCHANGED <<journal, media>>
    /\ UNCHANGED <<status, lockedBy, attempts, leases, lapsed, due, projVars, metaVars, gap, faults,
                   controlVars>>

(* The statuses completeBroadcastIfTerminal() counts as unfinished. *)
Mutant_NonTerminal == {"PENDING", "QUEUED"}
NonTerminal == {"PENDING", "QUEUED", "PROCESSING"}

(* completeBroadcastIfTerminal(): the count, inside the open transaction, of
   the recipients other committed transactions have left unfinished. *)
CountRecipients(w) ==
    /\ At(w, "count")
    /\ ctx' = [ctx EXCEPT ![w] = [@ EXCEPT !.alone =
                 \A m \in Messages \ {Msg(w)} : recipient[m] \notin NonTerminal]]
    /\ Goto(w, "commit")
    /\ UNCHANGED <<rowVars, projVars, jobs, metaVars, gap, row, lease, faults, controlVars>>
-----------------------------------------------------------------------------
(* The row's side of every outcome: the lease goes, the status is set. *)
Release(w, newStatus) ==
    /\ status' = [status EXCEPT ![row[w]] = newStatus]
    /\ lockedBy' = [lockedBy EXCEPT ![row[w]] = 0]
    /\ lapsed' = [lapsed EXCEPT ![row[w]] = FALSE]
    /\ due' = [due EXCEPT ![row[w]] = newStatus # "RETRY"]
    /\ UNCHANGED <<attempts, leases, journal, media>>

Mutant_FinishQueuedOnly(m, newStatus) ==
    schedule' = [schedule EXCEPT ![m] = IF @ = "QUEUED" THEN newStatus ELSE @]
FinishSchedule(m, newStatus) ==
    schedule' = [schedule EXCEPT ![m] =
                   IF @ \in {"QUEUED", "PROCESSING"} THEN newStatus ELSE @]

FinishRecipient(w, newStatus) ==
    LET m == Msg(w) IN
    /\ recipient' = [recipient EXCEPT ![m] = IF @ = "NONE" THEN @ ELSE newStatus]
    /\ IF recipient[m] # "NONE" /\ ctx[w].alone /\ broadcast = "RUNNING"
       THEN cancel # "open" /\ broadcast' = "COMPLETED"
       ELSE UNCHANGED broadcast

(* queueCrmMessageStatus(): one intent per message and status, skipDuplicates. *)
Mutant_NoUnknownIntent(m, newStatus) ==
    IF m \in FromCrm /\ newStatus # "UNKNOWN" THEN {<<m, newStatus>>} ELSE {}
StatusIntent(m, newStatus) == IF m \in FromCrm THEN {<<m, newStatus>>} ELSE {}

(* recoverJournaledSend(), ensureCrmOutboundHistoryIntent() with it. *)
CommitSent(w) ==
    LET m == Msg(w) IN
    /\ Release(w, "SUCCEEDED")
    /\ message' = [message EXCEPT ![m] = "SENT"]
    /\ externalId' = [externalId EXCEPT ![m] = ctx[w].journal]
    /\ FinishRecipient(w, "SENT")
    /\ FinishSchedule(m, "SENT")
    /\ reach' = [reach EXCEPT ![m] = IF @ = "AVAILABLE" THEN @ ELSE "PENDING"]
    /\ crm' = crm \cup (IF m \in FromCrm THEN StatusIntent(m, "SENT") ELSE {<<m, "HISTORY">>})
    /\ UNCHANGED spoiled

(* fail(): the message is the payload's, whichever action the row carries and
   whatever has become of it. *)
CommitFailed(w) ==
    LET m == Msg(w) IN
    /\ Release(w, "FAILED")
    /\ message' = [message EXCEPT ![m] = "FAILED"]
    /\ spoiled' = spoiled \cup (IF row[w] \in Sends THEN {} ELSE {m})
    /\ FinishRecipient(w, "FAILED")
    /\ FinishSchedule(m, "FAILED")
    /\ reach' = [reach EXCEPT ![m] = IF ctx[w].code = "RECIPIENT" THEN "UNAVAILABLE" ELSE @]
    /\ crm' = crm \cup StatusIntent(m, "FAILED")
                  \cup (IF ctx[w].code # "NONE" THEN {<<m, "ELIGIBILITY">>} ELSE {})
    /\ UNCHANGED externalId

CommitUnknown(w) ==
    LET m == Msg(w) IN
    /\ Release(w, "UNKNOWN")
    /\ message' = [message EXCEPT ![m] = "UNKNOWN"]
    /\ FinishRecipient(w, "UNKNOWN")
    /\ FinishSchedule(m, "UNKNOWN")
    /\ crm' = crm \cup StatusIntent(m, "UNKNOWN")
    /\ UNCHANGED <<externalId, reach, spoiled>>

(* deferBroadcastRecipient(): whatever the recipient was, it is QUEUED now. *)
CommitDeferred(w) ==
    /\ Release(w, "RETRY")
    /\ recipient' = [recipient EXCEPT ![Msg(w)] = "QUEUED"]
    /\ UNCHANGED <<message, externalId, broadcast, schedule, reach, crm, spoiled>>

(* cancelBroadcastRecipient(): no recipient is counted on this path. *)
Mutant_CancelQueuedOnly(w) ==
    LET m == Msg(w) IN
    /\ Release(w, "FAILED")
    /\ message' = [message EXCEPT ![m] = IF @ = "QUEUED" THEN "FAILED" ELSE @]
    /\ recipient' = [recipient EXCEPT ![m] = IF @ = "QUEUED" THEN "CANCELLED" ELSE @]
    /\ UNCHANGED <<externalId, broadcast, schedule, reach, crm, spoiled>>
CommitCancelled(w) ==
    LET m == Msg(w) IN
    /\ Release(w, "FAILED")
    /\ message' = [message EXCEPT ![m] = IF @ = "QUEUED" THEN "FAILED" ELSE @]
    /\ recipient' = [recipient EXCEPT ![m] =
                       IF @ \in {"QUEUED", "PROCESSING"} THEN "CANCELLED" ELSE @]
    /\ UNCHANGED <<externalId, broadcast, schedule, reach, crm, spoiled>>

(* retry() below the budget, and the three *OutboxOnly outcomes. *)
CommitRowOnly(w) ==
    /\ Release(w, ctx[w].outcome)
    /\ UNCHANGED projVars

(* Every outcome is one UPDATE guarded by the lease, the rest of its
   transaction following; an update of no row throws and rolls back. *)
Commit(w) ==
    /\ At(w, "commit")
    /\ IF Holds(w)
       THEN CASE ctx[w].only \/ ctx[w].outcome = "RETRY" -> CommitRowOnly(w)
              [] ~ctx[w].only /\ ctx[w].outcome = "SUCCEEDED" -> CommitSent(w)
              [] ~ctx[w].only /\ ctx[w].outcome = "FAILED" -> CommitFailed(w)
              [] ~ctx[w].only /\ ctx[w].outcome = "UNKNOWN" -> CommitUnknown(w)
              [] ctx[w].outcome = "DEFERRED" -> CommitDeferred(w)
              [] ctx[w].outcome = "CANCELLED" -> CommitCancelled(w)
       ELSE UNCHANGED <<rowVars, projVars>>
    /\ IF Holds(w) /\ ~ctx[w].caught THEN UNCHANGED jobs ELSE MayRunAgain(w)
    /\ Leave(w)
    /\ UNCHANGED <<metaVars, gap, faults, controlVars>>
-----------------------------------------------------------------------------
Fault == faults < MaxFaults /\ faults' = faults + 1

(* An answer of Meta, or the doubt about one, that is not written down yet is
   lost with the handler or with its statement. *)
Unwritten(w) == pc[w] \in {"storeUpload", "journal"} \/ ctx[w].outcome = "UNKNOWN"
LoseAnswer(w) == gap' = [gap EXCEPT ![row[w]] = IF Unwritten(w) THEN @ + 1 ELSE @]

(* The process dies between two awaits. *)
Crash(w) ==
    /\ ~At(w, "idle")
    /\ Fault
    /\ LoseAnswer(w)
    /\ Leave(w)
    /\ MayRunAgain(w)
    /\ UNCHANGED <<rowVars, projVars, metaVars, controlVars>>

(* A statement throws.  In the try block the last catch clause of process()
   schedules a retry; in a catch clause, or before the try, the handler ends
   and its row keeps the lease. *)
DatabaseError(w) ==
    /\ pc[w] \notin {"idle", "upload", "send", "act"}
    /\ Fault
    /\ LoseAnswer(w)
    /\ IF At(w, "claim") \/ ctx[w].caught
       THEN Leave(w) /\ MayRunAgain(w)
       ELSE RetryPreparation(w) /\ UNCHANGED <<row, lease, jobs>>
    /\ UNCHANGED <<rowVars, projVars, metaVars, controlVars>>

(* lockedAt passes the lease time: soon or late when nobody works on the row
   any more, and as a fault under a handler that is merely slow. *)
Attended(o) == \E w \in Workers : row[w] = o /\ lease[w] = lockedBy[o]
LeaseLapses(o) ==
    /\ status[o] = "PROCESSING" /\ ~lapsed[o]
    /\ lapsed' = [lapsed EXCEPT ![o] = TRUE]
    /\ IF Attended(o)
       THEN Fault /\ gap' = [gap EXCEPT ![o] = @ + 1]
       ELSE UNCHANGED <<faults, gap>>
    /\ UNCHANGED <<status, lockedBy, attempts, leases, due, journal, media, projVars, jobs,
                   metaVars, handlerVars, controlVars>>

BecomesDue(o) ==
    /\ status[o] \in {"PENDING", "RETRY"} /\ ~due[o]
    /\ due' = [due EXCEPT ![o] = TRUE]
    /\ UNCHANGED <<status, lockedBy, attempts, leases, lapsed, journal, media, projVars, jobs,
                   metaVars, gap, handlerVars, faults, controlVars>>

LoseSignal(o) ==
    /\ o \in jobs
    /\ Fault
    /\ jobs' = jobs \ {o}
    /\ UNCHANGED <<rowVars, projVars, metaVars, gap, handlerVars, controlVars>>

(* scanOnce() on one row: a stale lease is taken away, a due row is signalled;
   the queue may refuse the signal and the next scan tries again. *)
Recover(o) ==
    /\ status[o] = "PROCESSING" /\ lapsed[o]
    /\ status' = [status EXCEPT ![o] = "RETRY"]
    /\ lockedBy' = [lockedBy EXCEPT ![o] = 0]
    /\ lapsed' = [lapsed EXCEPT ![o] = FALSE]
    /\ due' = [due EXCEPT ![o] = TRUE]
    /\ jobs' \in {jobs, jobs \cup {o}}
    /\ UNCHANGED <<attempts, leases, journal, media, projVars, metaVars, gap, handlerVars, faults,
                   controlVars>>

Mutant_EnqueueFresh(o) ==
    /\ status[o] = "PENDING" /\ due[o]
    /\ o \notin jobs
    /\ jobs' = jobs \cup {o}
    /\ UNCHANGED <<rowVars, projVars, metaVars, gap, handlerVars, faults, controlVars>>
Enqueue(o) ==
    /\ status[o] \in {"PENDING", "RETRY"} /\ due[o]
    /\ o \notin jobs
    /\ jobs' = jobs \cup {o}
    /\ UNCHANGED <<rowVars, projVars, metaVars, gap, handlerVars, faults, controlVars>>
-----------------------------------------------------------------------------
(* BroadcastsService of apps/api.  An open cancellation has locked the row. *)
Pause ==
    /\ broadcast = "RUNNING" /\ cancel # "open"
    /\ broadcast' = "PAUSED"
    /\ UNCHANGED <<rowVars, message, externalId, recipient, schedule, reach, crm, spoiled, jobs,
                   metaVars, gap, handlerVars, controlVars, faults>>

(* Queued recipients' waiting rows are due at once and signalled.  (These later
   statements only hasten what time and the recovery scan do anyway.) *)
Resume ==
    LET queued == {o \in Broadcasted : recipient[MessageOf[o]] = "QUEUED"} IN
    /\ broadcast = "PAUSED" /\ cancel # "open"
    /\ broadcast' = "RUNNING"
    /\ due' = [o \in Outboxes |-> due[o] \/ (o \in queued /\ status[o] = "RETRY")]
    /\ jobs' = jobs \cup queued
    /\ UNCHANGED <<status, lockedBy, attempts, leases, lapsed, journal, media, message, externalId,
                   recipient, schedule, reach, crm, spoiled, metaVars, gap, handlerVars, controlVars,
                   faults>>

(* cancel() looks at the status before its transaction, ... *)
CancelChecks ==
    /\ cancel = "none" /\ broadcast \in {"RUNNING", "PAUSED"}
    /\ cancel' = "checked"
    /\ UNCHANGED <<rowVars, projVars, jobs, metaVars, gap, handlerVars, waiting, retry,
                   overwritten, late, faults>>

NotStarted(o) == recipient[MessageOf[o]] \in {"PENDING", "QUEUED"}

(* ... takes the broadcast row and reads who has not been started, ... *)
CancelReads ==
    /\ cancel = "checked"
    /\ cancel' = "open"
    /\ waiting' = {o \in Broadcasted : NotStarted(o)}
    /\ UNCHANGED <<rowVars, projVars, jobs, metaVars, gap, handlerVars, retry, overwritten,
                   late, faults>>

(* ... and cancels whatever the broadcast has become: the recipients that are
   not started now, but the messages and waiting rows of those it read.  A row
   under a lease keeps its lease. *)
CancelWrites ==
    LET started == {o \in waiting : ~NotStarted(o)}
        theirs  == {MessageOf[o] : o \in waiting}
    IN
    /\ cancel = "open"
    /\ cancel' = "none"
    /\ broadcast' = "CANCELLED"
    /\ recipient' = [m \in Messages |-> IF recipient[m] \in {"PENDING", "QUEUED"}
                                        THEN "CANCELLED" ELSE recipient[m]]
    /\ message' = [m \in Messages |->
                     IF m \in theirs /\ message[m] = "QUEUED" THEN "FAILED" ELSE message[m]]
    /\ status' = [o \in Outboxes |->
                    IF o \in waiting /\ status[o] \in {"PENDING", "RETRY"}
                    THEN "FAILED" ELSE status[o]]
    /\ waiting' = started
    /\ UNCHANGED <<lockedBy, attempts, leases, lapsed, due, journal, media, externalId, schedule,
                   reach, crm, spoiled, jobs, metaVars, gap, handlerVars, retry, overwritten,
                   late, faults>>

(* The API dies or its transaction is rolled back. *)
CancelFails ==
    /\ cancel # "none"
    /\ Fault
    /\ cancel' = "none" /\ waiting' = {}
    /\ UNCHANGED <<rowVars, projVars, jobs, metaVars, gap, handlerVars, retry, overwritten, late>>

(* retryFailed() too looks at the status first, ... *)
RetryChecks(a) ==
    /\ retry[a].step = "none" /\ broadcast = "RUNNING"
    /\ retry' = [retry EXCEPT ![a].step = "checked"]
    /\ UNCHANGED <<rowVars, projVars, jobs, metaVars, gap, handlerVars, cancel, waiting,
                   overwritten, late, faults>>

(* ... reads who FAILED, ... *)
RetryReads(a) ==
    /\ retry[a].step = "checked"
    /\ retry' = [retry EXCEPT ![a] = [step |-> "read",
                    ids |-> {o \in Broadcasted : recipient[MessageOf[o]] = "FAILED"}]]
    /\ UNCHANGED <<rowVars, projVars, jobs, metaVars, gap, handlerVars, cancel, waiting,
                   overwritten, late, faults>>

(* A transaction has counted nobody unfinished but its own recipient. *)
Completing == \E w \in Workers : At(w, "commit") /\ ctx[w].alone /\ Holds(w)

(* The rows the last statement still finds FAILED. *)
Mutant_ReopenAny(a) == retry[a].ids
Reopened(a) == {o \in retry[a].ids : status[o] = "FAILED"}

(* ... and writes, whatever the broadcast and they have become: recipients and
   messages by id, rows where they are still FAILED.  The signals come after
   the transaction, which the API may not survive. *)
RetryWrites(a) ==
    LET ids    == retry[a].ids
        theirs == {MessageOf[o] : o \in ids}
        failed == Reopened(a)
    IN
    /\ retry[a].step = "read"
    /\ retry' = [retry EXCEPT ![a] = [step |-> "done", ids |-> {}]]
    /\ recipient' = [m \in Messages |-> IF m \in theirs THEN "QUEUED" ELSE recipient[m]]
    /\ message' = [m \in Messages |-> IF m \in theirs THEN "QUEUED" ELSE message[m]]
    /\ status' = [o \in Outboxes |-> IF o \in failed THEN "PENDING" ELSE status[o]]
    /\ attempts' = [o \in Outboxes |-> IF o \in failed THEN 0 ELSE attempts[o]]
    /\ due' = [o \in Outboxes |-> due[o] \/ o \in failed]
    /\ jobs' \in {jobs, jobs \cup ids}
    /\ overwritten' = overwritten \cup {o \in ids : status[o] \in {"SUCCEEDED", "UNKNOWN"}}
    /\ late' = late \cup (IF broadcast = "COMPLETED" \/ Completing THEN theirs ELSE {})
    /\ UNCHANGED <<lockedBy, leases, lapsed, journal, media, externalId, broadcast, schedule,
                   reach, crm, spoiled, metaVars, gap, handlerVars, cancel, waiting, faults>>

Handle(w) ==
    \/ Claim(w) \/ ReadConnection(w) \/ LoadRecipient(w) \/ MarkRecipient(w)
    \/ MarkScheduled(w) \/ UploadMedia(w) \/ StoreUpload(w) \/ CheckWindow(w)
    \/ CallProvider(w) \/ CallAction(w) \/ Journal(w) \/ CountRecipients(w) \/ Commit(w)

Control == /\ Broadcasted # {}
           /\ \/ Pause \/ Resume
              \/ CancelChecks \/ CancelReads \/ CancelWrites \/ CancelFails
              \/ \E a \in Retries : RetryChecks(a) \/ RetryReads(a) \/ RetryWrites(a)

Next == \/ \E w \in Workers :
              \/ Handle(w) \/ Crash(w) \/ DatabaseError(w)
              \/ \E o \in Outboxes : Deliver(w, o)
        \/ \E o \in Outboxes :
              \/ Request(o) \/ LeaseLapses(o) \/ BecomesDue(o) \/ LoseSignal(o)
              \/ Recover(o) \/ Enqueue(o)
        \/ Control

Spec == Init /\ [][Next]_vars

(* Handlers run on, the scan comes round, time passes, a signal that keeps
   being there is delivered, and a transaction that is open ends. *)
Fairness ==
    /\ \A w \in Workers : WF_vars(Handle(w))
    /\ \A o \in Outboxes :
          /\ SF_vars(\E w \in Workers : Deliver(w, o))
          /\ WF_vars(Recover(o)) /\ WF_vars(Enqueue(o)) /\ WF_vars(BecomesDue(o))
          /\ WF_vars(~Attended(o) /\ LeaseLapses(o))
    /\ WF_vars(CancelWrites)

FairSpec == Spec /\ Fairness
-----------------------------------------------------------------------------
Steps == {"idle", "claim", "start", "load", "recipient", "schedule", "upload",
          "storeUpload", "window", "send", "act", "journal", "count", "commit"}
Ctx == [tries : Nat, journal : Nat, media : BOOLEAN, wamid : Nat,
        outcome : Terminal \cup {"NONE", "RETRY", "DEFERRED", "CANCELLED"},
        code : {"NONE", "RECIPIENT", "OTHER"}, only : BOOLEAN,
        alone : BOOLEAN, caught : BOOLEAN]

RowsTyped ==
    /\ status \in [Outboxes -> {"NONE", "PENDING", "RETRY", "PROCESSING"} \cup Terminal]
    /\ lockedBy \in [Outboxes -> Nat]
    /\ attempts \in [Outboxes -> Nat] /\ leases \in [Outboxes -> Nat]
    /\ lapsed \in [Outboxes -> BOOLEAN] /\ due \in [Outboxes -> BOOLEAN]
    /\ journal \in [Outboxes -> Nat] /\ media \in [Outboxes -> BOOLEAN]
ProjectionsTyped ==
    /\ message \in [Messages -> {"QUEUED", "SENT", "DELIVERED", "READ", "FAILED", "UNKNOWN"}]
    /\ externalId \in [Messages -> Nat]
    /\ recipient \in [Messages -> {"NONE", "QUEUED", "PROCESSING", "SENT", "FAILED",
                                   "UNKNOWN", "CANCELLED"}]
    /\ broadcast \in {"RUNNING", "PAUSED", "COMPLETED", "CANCELLED"}
    /\ schedule \in [Messages -> {"NONE", "QUEUED", "PROCESSING", "SENT", "FAILED", "UNKNOWN"}]
    /\ reach \in [Messages -> {"UNKNOWN", "PENDING", "AVAILABLE", "UNAVAILABLE"}]
    /\ crm \subseteq Messages \X {"SENT", "FAILED", "UNKNOWN", "ELIGIBILITY", "HISTORY"}
    /\ spoiled \subseteq Messages
OutsideTyped ==
    /\ jobs \subseteq Outboxes
    /\ accepted \in [Outboxes -> Nat] /\ uploads \in [Outboxes -> Nat]
    /\ gap \in [Outboxes -> Nat]
    /\ cancel \in {"none", "checked", "open"} /\ waiting \subseteq Broadcasted
    /\ retry \in [Retries -> [step : {"none", "checked", "read", "done"},
                               ids : SUBSET Broadcasted]]
    /\ overwritten \subseteq Broadcasted /\ late \subseteq Messages
    /\ faults \in 0..MaxFaults
HandlersTyped ==
    /\ pc \in [Workers -> Steps]
    /\ row \in [Workers -> Outboxes \cup {NoRow}]
    /\ lease \in [Workers -> Nat] /\ ctx \in [Workers -> Ctx]

(* Rows and handlers hold values of their columns. *)
TypeOK == RowsTyped /\ ProjectionsTyped /\ OutsideTyped /\ HandlersTyped

Unfinished == {"PENDING", "QUEUED", "PROCESSING"}

Shows(m, ms, rs, ss) == /\ message[m] = ms
                        /\ recipient[m] \in {"NONE"} \cup rs
                        /\ schedule[m] \in {"NONE"} \cup ss

(* cancel() failed the row of a recipient that was started meanwhile. *)
Torn(o) == broadcast = "CANCELLED" /\ o \in waiting

(* What is left of a message that Meta has, or may have, accepted. *)
StaysSent(o) ==
    LET m == MessageOf[o] IN
    \/ o \in overwritten
    \/ Shows(m, "SENT", {"SENT"}, {"SENT"})
    \/ m \in spoiled /\ Shows(m, "FAILED", {"FAILED"}, {"SENT"})

RowAgrees(o) ==
    LET m == MessageOf[o] IN
    /\ status[o] = "SUCCEEDED" => StaysSent(o) /\ externalId[m] \in 1..accepted[o]
    /\ status[o] = "FAILED" => /\ \/ Shows(m, "FAILED", {"FAILED", "CANCELLED"}, {"FAILED"})
                                  \/ Torn(o) /\ Shows(m, "FAILED", {"PROCESSING"}, {})
                               /\ externalId[m] = 0
    /\ status[o] = "UNKNOWN" => /\ \/ o \in overwritten
                                   \/ Shows(m, "UNKNOWN", {"UNKNOWN"}, {"UNKNOWN"})
                                /\ externalId[m] = 0
    /\ status[o] \notin Terminal => /\ \/ message[m] = "QUEUED"
                                       \/ message[m] = "FAILED" /\ broadcast = "CANCELLED"
                                    /\ externalId[m] = 0

(* The rows of one send tell one story.  A settled sending row, its message,
   its recipient and its schedule agree, however many handlers, controls and
   rows of other actions wrote them; SENT is backed by a wamid Meta returned
   for this very row; before that nothing downstream has moved.  The exceptions
   are the races the code leaves open.  A cancelled broadcast fails the message
   of a row it could not take back, and the row of a recipient that was started
   while it was cancelling.  A reaction that fails through fail() turns a sent
   message and its recipient FAILED.  A retryFailed() that read a recipient
   FAILED writes it QUEUED although its row was settled otherwise, by a second
   such request or before that reaction. *)
ProjectionAgrees == \A o \in Sends : RowAgrees(o)

(* What Cyber Pulse has been told of a message. *)
Told(m) == {s \in {"SENT", "FAILED", "UNKNOWN"} : <<m, s>> \in crm}

(* Cyber Pulse is told the outcome of the sending of each of its messages, in
   the transaction that settles the row, and the sending row never tells it a
   second, different one.  Of a message that was sent it can hear FAILED as
   well, from a reaction that failed. *)
CrmLearnsOutcome ==
    \A o \in Sends : MessageOf[o] \in FromCrm =>
        Told(MessageOf[o]) =
            IF status[o] \in Terminal
            THEN {message[MessageOf[o]]} \cup (IF MessageOf[o] \in spoiled THEN {"SENT"} ELSE {})
            ELSE {}

(* A customer gets a message twice only when an answer of Meta never reached
   the row: it, or the doubt about it, was lost before it was written down; a
   lease ran out under a living handler; the payload was copied before the
   wamid was written; or Meta accepted and answered 5xx, upon which the code
   sends again.  No other retry, crash, database error or control is a reason:
   the message is sent at most once more for each such answer, and likewise its
   media.  (EDGE_CASES.md:57 promises that a lost response is no blind retry;
   the 5xx, and the row that lost its UNKNOWN, are where the code breaks it.) *)
DuplicatesAreExcused ==
    \A o \in Sends : accepted[o] <= 1 + gap[o] /\ uploads[o] <= 1 + gap[o]

(* A broadcast is COMPLETED only when no recipient is left to serve, although
   the count and the update are two statements of a transaction that nothing
   keeps from running beside the others.  The one exception is retryFailed(),
   which does not take the broadcast's row: recipients it writes QUEUED when
   the broadcast is COMPLETED, or between a count and its update. *)
CompletedMeansFinished ==
    broadcast = "COMPLETED" => \A m \in Messages : recipient[m] \notin Unfinished \/ m \in late

(* Every row is settled in the end, and again when it was opened again:
   whatever signals are lost and whichever handlers die, the recovery scan
   brings the row back. *)
EveryRowSettles ==
    \A o \in Outboxes : (status[o] \notin Terminal \cup {"NONE"}) ~> (status[o] \in Terminal)

(* A cancelled broadcast drains, also when a retryFailed() comes late: every
   row is settled and every recipient finished, also those whose cancellation a
   handler has overwritten, except one that was started while cancel() was at
   work, or that such a request queued although its row was settled.  (Or the
   instance has used up its bound on leases.) *)
CancelDrains ==
    (broadcast = "CANCELLED") ~>
        \/ \A o \in Broadcasted :
              /\ status[o] \in Terminal
              /\ recipient[MessageOf[o]] \notin Unfinished \/ Torn(o) \/ o \in overwritten
        \/ \E o \in Broadcasted : leases[o] = MaxLeases

(* The leases of this table follow the protocol of OutboxLease, for which a row
   not yet requested waits and retryFailed() is the operator. *)
LeaseStatus == [o \in Outboxes |-> IF status[o] = "NONE" THEN "PENDING" ELSE status[o]]
Lease == INSTANCE OutboxLease WITH status <- LeaseStatus, Reopenable <- Broadcasted
LeaseSpec == Lease!Spec
-----------------------------------------------------------------------------
(* Statements of the repository's documents that the code refutes. *)

(* STATE_MACHINES.md, Message: a failure never overwrites a confirmed
   delivery. *)
ConfirmedStays ==
    [][\A m \in Messages : message[m] \in {"DELIVERED", "READ"} =>
          message'[m] = message[m]]_vars

(* STATE_MACHINES.md, Broadcast: when all recipients are terminal, the
   broadcast is completed.  Nobody is left to do it here. *)
NotStranded ==
    (/\ broadcast = "RUNNING"
     /\ \A o \in Broadcasted : status[o] \in Terminal
     /\ \A m \in Messages : recipient[m] \notin Unfinished)
    => \E w \in Workers : ~At(w, "idle")
=============================================================================
