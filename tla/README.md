# Omnicus: a TLA+ verification project

Omnicus is a monorepo for customer communication: a NestJS API (`apps/api`), a
NestJS worker (`apps/worker`), a React client (`apps/web`) and packages with the
provider clients and pure algorithms. PostgreSQL owns all durable state.
Redis/BullMQ carries signals only: a signal names a row, it may be lost,
repeated or late, and a recovery scan in the worker makes new ones from the
database. Every side effect (a WhatsApp or Telegram message, an e-mail, a call to
the CRM "Cyber Pulse") goes through a row of `OutboxRecord`, worked on under a
lease.

The database runs at READ COMMITTED except where a service asks for more. A
Prisma `updateMany` is one conditional UPDATE, atomic on each row; a
`$transaction` is atomic in what it writes, but each of its reads sees what was
committed when that statement ran. The models keep exactly this distinction: it
is where the interesting interleavings are.

## Inventory

| Component | State it keeps | Operations | Who it meets | What is hard | What makes it correct |
| --- | --- | --- | --- | --- | --- |
| Outbox lease protocol | `OutboxRecord.status/lockedBy/lockedAt/attempts/nextAttemptAt` | claim, settle, recover, withdraw | every outbox processor, scans, API | stale leases under living handlers, duplicate signals | one holder of a token; settled rows stay settled |
| WhatsApp outbound processor | the row, its payload (journaled wamid, uploads), `Message`, `BroadcastRecipient`, `ScheduledMessage`, reachability, CRM intents | one call of `process()` | Meta, broadcasts API, scan, CRM outbox | lost answers, crashes, stale payload copies, write skew | rows agree; no unexcused duplicate; CRM is told once |
| WhatsApp recovery scan | none | stale leases to RETRY, signals for due rows | processor | races with a slow handler | every row settles |
| Broadcast controls (API) | `Broadcast.status`, recipients, their rows | create, update, launch, pause, resume, cancel, retryFailed, archive, restore | preparation, processors | check-then-act, writes by id after reads | a cancelled broadcast drains; completion is final |
| Broadcast preparation (worker) | recipients PENDING to QUEUED, messages, outbox rows | snapshot, materialize | API controls, processors | pause or crash between two recipients | no recipient is left behind; nothing is sent twice |
| WhatsApp inbound | `InboxRecord`, messages, identity, window, statuses | webhook, claim, persist, complete, fail | outbound (statuses) | statuses out of order, before their message | status never regresses |
| Telegram outbound | as WhatsApp, without a journal; schedules, albums, message actions, the bot's menu | one call of `process()`, cancel, update, retry | Telegram, broadcasts, CRM | nothing is known of a lost answer; unchecked lease in `fail()` | a series follows its rule; no unexcused duplicate |
| Telegram inbound | `InboxRecord`, messages, contacts | as WhatsApp inbound | automation | retries and dead letters | each update has its effect once |
| CRM outbox | CRM rows of `OutboxRecord`, `Contact.crmLeadId` | claim, call, reconcile, link, backfill | Cyber Pulse, every processor, merges | answers later than merges, outcomes unknown | a message of a contact is not forgotten; a contact stands for one living lead |
| Contact merge and backfill | contacts, identities, merge intents | merge, repair, edit, snapshot | CRM outbox, inbound | merges that overlap each other and everybody else | one survivor, nothing left behind |
| E-mail delivery and inbox | campaigns, deliveries, events, suppressions, conversations | prepare, deliver, receive events, control | Resend, CRM, contacts | lost answers, events out of order, statements that are not one transaction | mailed once; no mail to a suppressed address |
| Automation runtime | executions, waits, delayed actions | trigger, walk, wait, resume, time out | inbound, HTTP, webinars | waits racing with messages, rollbacks | what waits is awaited; a parent waits for its child |
| Automation HTTP | `EXTERNAL_HTTP` rows | claim, send, retry, continue | automation | unknown outcomes, leases stale at birth | an unknown mutation is not sent again |
| Lead capture, tracking | submissions, clicks | submit, process | contacts, automation | duplicate submits | one contact per submission |
| Webinars | import runs, lifecycle events, actions | import, transition, act | CRM, automation | overlapping imports | one action per event |
| CRM-facing API | idempotency keys, messages, retries | send, retry, decide | outbound | a second row for one message | an idempotency key has one effect |
| Contacts, communications, channels, templates | CRUD rows with versions and schedules | edit, schedule, connect | all | stale versions | no lost update |
| Media | assets and references | upload, retain | messages | reference taken while removed | no dangling reference |
| Meta leads | cursor, leads | poll, import | contacts | overlapping polls | each lead once |
| Account lifecycle, auth, access | accounts, refresh tokens, roles | request, cancel, rotate | all | token rotated twice | a token is used once |
| Operations, health, wiring, web | none of their own | replay, read | all | - | - |

`PROJECT.json` has the same list with its files and says which are modelled.

## Plan

Order: the most load-bearing protocol first.

| Step | Modules | State |
| --- | --- | --- |
| 1 | `OutboxLease` (abstract), `WhatsAppOutbound` which implements it | modelled, checked, proved |
| 2 | `WhatsAppInbound`: webhook, inbox rows, messages, reactions, statuses; the same abstract lease | modelled, checked, proved |
| 3 | `Broadcasts`: controls, preparation and the Telegram handlers of its rows | modelled, checked, proved |
| 4 | `Automation`: the walk, delays, waits, subflows, HTTP rows | modelled, checked, proved |
| 5 | `TelegramOutbound`: schedules, albums, message actions, menu | modelled, checked, proved |
| 6 | `Email`: campaigns, letters, Resend's events, suppressions | modelled, checked, proved |
| 7 | `CrmOutbox`: contacts, their leads, merges, repair, snapshots | modelled, checked, proved |
| 8 | Telegram inbound and the e-mail inbox; lead capture; webinars; media retention; refresh tokens | left |

Theorems left: none of the safety properties the runs check; those of step 8.

## Modules

| Module | What it is |
| --- | --- |
| `OutboxLease` | the abstract lease protocol of one outbox table |
| `OutboxLeaseProofs` | its theorems |
| `WhatsAppOutbound` | the processor, the scan, the broadcast controls, faults and time |
| `MCWhatsAppOutbound` | its instances for TLC |
| `WhatsAppOutboundProofs` | type correctness, refinement of `OutboxLease`, four safety theorems |
| `WhatsAppInbound`, `MCWhatsAppInbound` | webhook, inbound processor and its scan, what a notification does to one customer's rows; instances |
| `WhatsAppInboundProofs` | type correctness, its safety theorems, refinement of `OutboxLease` |
| `Broadcasts`, `MCBroadcasts` | one broadcast from launch to end; instance |
| `BroadcastsProofs` | its theorems |
| `Automation`, `MCAutomation` | scenario executions, continuations and HTTP rows; instance |
| `AutomationProofs` | its theorems |
| `TelegramOutbound`, `MCTelegramOutbound` | Telegram rows that are not a broadcast's; instance |
| `TelegramOutboundProofs` | its theorems |
| `Email`, `MCEmail` | an e-mail campaign and letters outside it; instances |
| `EmailProofs` | its theorems |
| `CrmOutbox`, `MCCrmOutbox` | contacts, their leads and the CRM rows; instance |
| `CrmOutboxProofs` | its theorems |

The modules meet where the code does: `WhatsAppOutbound` and `WhatsAppInbound`
implement `OutboxLease` (`LeaseSpec`, `InboxLeaseSpec`); `WhatsAppInbound` has the
commit of the outbound processor (`Sent`) and the last transaction of the CRM
outbox (`ReadBacklog`, `LinkLead`) as steps of its environment; `CrmOutbox` has the inbound transaction; `Broadcasts`
composes the API, the preparation and the handlers.

### `OutboxLease`

A token in the code is `${workerId}:${randomUUID()}`. In the model it is the
number of leases the row has granted (`leases`), which is as fresh; `attempts` is a
counter of its own, as `retryFailed()` sets it back. `Claim` allows any row that is
not settled: when a lease is stale enough to be taken over is the refinement's
business. `Reopen` is that operator's retry, for the rows a table lets him retry
(`Reopenable`): it is the one step that takes a row out of a settled state, and it
leaves `leases` alone, so that a handler of an old lease stays out.

### `WhatsAppOutbound`

One handler is one BullMQ call of `process()`; `pc` says at which await it is.

| Step | Code (`whatsapp-outbound-processor.service.ts`) |
| --- | --- |
| `Deliver`, `Claim` | `claim()`: `findUnique`, then the conditional `updateMany`; two steps, and the payload is the one of the first |
| `ReadConnection` | `connection()`, the branch on `payload.action`, the journaled wamid, message and identity checks |
| `LoadRecipient`, `MarkRecipient`, `MarkScheduled` | the recipient and its broadcast's status, `PROCESSING` on recipient and schedule (no lease guard) |
| `UploadMedia`, `StoreUpload` | `providerMediaId()`: upload, then the payload written under the lease |
| `CheckWindow` | service window, addressee, token, quoted message, `prepareMessage()` |
| `CallProvider`, `CallAction` | the Graph call: accepted, refused, asked to wait, or no answer or a 5xx although Meta may have accepted |
| `Journal` | `persistProviderSendJournal()` |
| `CountRecipients` | the `count` of `completeBroadcastIfTerminal()`, which reads other transactions' commits |
| `Commit` with `CommitSent` ... `CommitRowOnly` | the outcome transactions; an UPDATE of no row throws |
| `Crash`, `DatabaseError` | between any two awaits; a failed statement in the `try` goes to the last `catch`, which schedules a retry |

The scan is `Recover` and `Enqueue`, time is `LeaseLapses` and `BecomesDue`, and
`LoseSignal` is Redis. `Request` is `queueAction()` of the CRM's API: a reaction or a
mark as read is a row of its own for a message whose wamid is known, an incoming one
or one Omnicus has sent. `Pause`, `Resume`, the four `Cancel` steps and the three
`Retry` steps are `BroadcastsService`. `cancel()` is not atomic: it checks the status,
opens a transaction that updates the broadcast row and reads the recipients not
started (`CancelReads`), then updates by status and by the ids it read
(`CancelWrites`). While that transaction is open the row lock delays `Pause`, `Resume`
and the completing update of a handler. `retryFailed()` (391-431) takes no such lock:
it checks the status (`RetryChecks`), reads who FAILED (`RetryReads`), and writes
recipients and messages by id and rows that are still FAILED (`RetryWrites`).

Abstractions: message bodies, templates, media formats and phone numbers are
nondeterministic verdicts (`Unsendable`, `CheckWindow`); error codes are the three
classes the code tells apart (`SendFails`, the `RECIPIENT` code that changes
reachability). Six variables are history. `accepted` and `uploads` are what Meta did;
`gap` counts how often an answer was lost before it was written or hidden behind a
5xx, a lease lapsed under a living handler, or a payload was copied too early;
`spoiled` are the messages a failing reaction has written FAILED; `overwritten` the
rows that were settled otherwise when `retryFailed()` wrote their recipient QUEUED;
`late` the messages it wrote QUEUED in a broadcast that was COMPLETED or about to be. `Resume`'s later statements are part
of its step: they only hasten what time and the scan do anyway. A handler whose
`catch` clause has settled the row may be signalled again, which a settled row
ignores. Not modelled here: a second row for a message (manual retry of the CRM
API), delivery statuses, which are in `WhatsAppInbound`, and the batch limit of
the scan.

### `WhatsAppInbound`

One handler is one call of `process()` of `whatsapp-inbound-processor.service.ts`;
all customers are alike and do not meet, so there is one.

| Step | Code |
| --- | --- |
| `Receive` | `receive()` and `persist()` of the webhook: raw event and inbox row in one transaction, a repetition breaks a unique key, the signal may fail |
| `Deliver`, `Claim` | `claim()`: `findUnique`, then the conditional `updateMany` |
| `Read` | the first half of the transaction: connection, and the message or sender it is about |
| `Write` with `ApplyMessage`, `ApplyReaction`, `ApplyStatus` | the second half, from the first UPDATE that others could overtake to `complete()` and the commit |
| `CloseRow` | `fail()`, or `complete()` for a notification pending after its last attempt, each a statement of its own |
| `Sent` | what the outbound processor commits with a wamid (`CommitSent` of `WhatsAppOutbound`) |
| `ReadBacklog`, `LinkLead` | `finishSuccess()` of the CRM outbox for a lead operation: it links the contact and reads his messages, then queues them and commits, or fails |
| `Recover`, `Enqueue`, `LeaseLapses`, `BecomesDue`, `LoseSignal`, `Crash`, `DatabaseError` | scan, time, Redis and faults, as in `WhatsAppOutbound` |

Why two halves: under READ COMMITTED the transaction's later writes do not check
that what it read still holds, and `update({ where: id })` is unconditional.
`Projection`, `NewMeta` and `InboundIntent` therefore use what the handler read
(`ctx`), while `LatestInbound` uses the current row, since its UPDATE is
conditional. Once a transaction writes a row, its lock keeps others out until
the commit, so the writes are one step. Two handlers that apply the same
notification collide on the unique `inboxRecordId` of its event (`Clashes`) or on the
lease; `applied` counts the transactions that went through.

Abstractions: `lastInbound` stands for `lastInboundAt`, `lastMessageAt` and the
window, which are written alike; `Message.metadata` is the set of its parts that
two writers share; `overtaken` is history, the messages applied by a handler that
had read the contact unlinked before the link was under way; a connection that is not ACTIVE, a malformed payload and a
reaction by somebody else are one verdict (`FailPermanently`), open at every
read; `crm` holds idempotency keys, as repeated keys are skipped. Cyber Pulse is
enabled. Not modelled: automation triggers and waits in the message transaction,
media and reply references, other senders' reactions, the 50 messages the
backfill takes at most, statuses after the bootstrap operation has failed, and
the signature check of the webhook.

### `Broadcasts`

One Telegram broadcast, its audience, every control, several preparation loops and
handlers.

| Step | Code |
| --- | --- |
| `Launch`, `Pause`, `Resume` | one conditional write each (`broadcasts.service.ts` 269-346) |
| `ReadControl`, then `Update`, `OpenCancel` and `Cancel`, `RetryFailed`, `Archive`, `Restore` | the controls that read, decide and then write by id |
| `ScheduleDue`, `LockBroadcast`, `LockAges` | `scanOnce()` of the preparation and its lease of 60 s |
| `ResolveAudience`, `RefuseChannel`, `InsertRecipients`, `ReadPending` | `materialize()` up to RUNNING, while the lease is checked |
| `RefuseTemplate`, `ReadRunning`, `LinkRecipient` | its loop over PENDING recipients, which holds no lease |
| `CountUnfinished`, `CompleteAfterLoop`, `PrepareFails`, `PreparerDies` | its end, its `catch`, a crash |
| `Claim`, `ReadRow`, `CancelRecipient`, `DeferRecipient`, `FinishSent`, `StartRecipient`, `Send`, `CountRecipients`, `RecordSent`, `RecordFailure` | `process()` of the Telegram processor for a recipient's row |
| `RowAges`, `RecoverRow`, `HandlerDies` | its scan, and crashes |
| `OperatorRetry` | `retryOutbox()` of `operations.service.ts` (476-637) on a FAILED row: recipient and message QUEUED from whatever they are |

`sent` is what Telegram accepted; `lost`, `dropped` and `disturbed` are history: an
acceptance nobody recorded, a PENDING recipient a loop left behind, a recipient
overwritten from a state that had passed. The properties name them as the only
exceptions. Left out: WhatsApp templates, e-mail broadcasts (deliveries
instead of rows), and the end of conversations' automation pauses (121-190 of the
processor).

### `Automation`

Messages of one conversation and a graph whose subflow nodes start other graphs,
which may do so again. An execution is named by the path that led to it (`Ids`): its
message, then the node of each subflow, as the code's trigger key
`subflow:<execution>:<node>` does. `MaxDepth` bounds the paths: `applyNode()` throws at
ten subflows within one walk, and `StartSubflow` is only possible below the bound;
`NodeFails` is the throw.

| Step | Code |
| --- | --- |
| `HandleMessage` | `resolveWaitsInTransaction()` and `triggerInTransaction()` |
| `ApplyStep` ... `StartSubflow`, `NodeFails`, `FinishGraph`, `ResumeExecution`, `ResolveWait` | `executeGraph()`, `applyNode()`, the return to a parent: one frame of the call stack each |
| `Commit`, `RollbackMessage`, `RollbackCall` | the end of the transaction; a throw without an `automation_` code undoes it and spends an attempt |
| `ResumeDelayedAction`, `TimeoutWait`, `RunContinuation` | the continuation scan: the conditional claim and the read of the execution, then the resume by id |
| `LoadHttp`, `ClaimHttp`, `SendRequest`, `RetryHttp`, `FinishHttp`, `MarkUnknown` | the scan of HTTP rows |
| `LeaseLapses`, `Crash` | its lease, which starts with the scan; a crash |

One transaction walks at a time: two whose rows do not meet commute, and what a
call reads before its walk is a step of its own. Left out: e-mail and webinar
triggers, the early reply of an e-mail wait, what each action node sends, the
building of requests and the mapping of answers.

### `TelegramOutbound`

Each behaviour follows one part of a connection's traffic (`topic`): a schedule
with its occurrences, an album, the actions on one message, or the menu. Rows of
different parts share no state.

| Step | Code |
| --- | --- |
| `Claim`, `ReadMessage`, `ReadAlbum`, `ReadTarget`, `ReadConfig`, `MarkProcessing` | `process()`, `executeMediaGroup()`, `executeMessageAction()`, `executeBotInterface()` up to the call |
| `Accepted`, `AnswerLost`, `Refused` | Telegram's answer, none, or a refusal that may or may not be retried |
| `RecordMessage`, `RecordAlbum`, `RecordAction`, `Finish`, `RecordTooLate`, `Fail` | the outcomes, under the lease or, `Fail`'s projections, not |
| `RecoverRow`, `Lapse`, `TimePasses`, `Crash` | scan, time, faults |
| `Cancel`, `Update`, `OperatorRetry`, `CrmRetry`, `QueueAction`, `SetMenu` | the requests of CRM and operator, each one transaction |

`lost`, `late`, `raced` and `slow` are history: a lost acceptance, a request that
came after the first claim, an overlap, a call that outlived its lease. Left out:
`ANSWER_CALLBACK`, uploads (692-749), the arithmetic of recurrence (848-929; whether
there is a next occurrence is `repeats`), and the relation checks of a reconciled
row.

### `Email`

One campaign, its letters, and letters outside it (a test, a reply, an
automation's).

| Step | Code (`email-delivery.service.ts`, `email.service.ts`, `email-webhooks.service.ts`) |
| --- | --- |
| `Promote`, `ClaimCampaign`, `ReadAudience`, `CreateRows`, `Unlock`, `PrepareFails` | the drain's preparation, whose two writes are not one transaction |
| `Choose`, `Take`, `Inspect`, `RenewLease`, `StampFirst` | `claimDelivery()`, which looks and then claims by status alone; `processDelivery()` up to the call |
| `SendAccepted`, `SendUnanswered`, `SendRefused` | Resend, which remembers an idempotency key for 24 hours |
| `MarkReads`, `MarkWrites`, `MarkThrows`, `FailLetter` | both outcomes; `markSent()` locks, reads and writes |
| `FinishReads`, `FinishCounts`, `Complete` | `finishCampaignIfComplete()`, three statements |
| `RecoverLetters`, `RecoverCampaign`, `Heartbeat`, `LeaseLapses`, `PreparationAges`, `HoursPass`, `KeyForgotten`, `Crash` | recovery, leases, time, faults |
| `ReadLaunch`, `Launch`, `Pause`, `Resume`, `ReadCancel`, `Cancel`, `RetryFailed`, `Revive`, `Suppress`, `RemoveSuppression` | the API's controls |
| `EventReads`, `EventWrites`, `EventLost` | one of Resend's events |

The reads of `processDelivery()` between the claim and the lease renewal are one
step (`Inspect`); each event comes at most once for a letter, since a repetition
is dropped by its id. `preparation` says who holds the campaign's preparation and
how old `preparationLockedAt` and `updatedAt` are. `slipped`, `begun`, `outdated` and
`slow` are history. Left out: templates, contents, attachments, the editing of
drafts, threads and reports.

### `CrmOutbox`

Contacts that write, merge, are edited or come from Cyber Pulse, and the rows of
`kind: 'CRM'` that tell Cyber Pulse of them. Cyber Pulse itself is external: it
applies a row once (its id is the idempotency key) and repeats its answer, finds a
lead by the contact, and keeps one lead of two when contacts merge.

| Step | Code |
| --- | --- |
| `ReadSender`, `StoreMessage` | `resolveContact()`, and the rest of the inbound transaction, by the contact it read |
| `AskMerge`, `Merge` | `merge()` of `contacts.service.ts`: reads, then everything it moves |
| `PlanRepair`, `ReadPair`, `Repair`, `Way`, `Ends`, `Primary`, `RepairStatus` | `contact-merge-backfill.service.ts`: a run finds all primaries first (74-89), and `repair()` reads the pair again but rechecks only the two statuses (161) |
| `AskEdit`, `Edit` | `update()`: MERGED is refused as read before the transaction |
| `AskSnapshot`, `Snapshot`, `Announce` | `crm-contact-sync.service.ts`, under a lock that only keeps snapshots of one lead apart (90) |
| `OperatorRetry` | `retryOperation()` |
| `Claim`, `Answers`, `Refuses`, `FinishSuccess`, `FinishFails`, `Crash` | `process()` of `crm-outbox.service.ts`; `FinishSuccess` links the contact it read before the call, whether or not the lease is still held |

Contacts that were merged into one another form a chain of `mergedIntoContactId`;
`resolvePrimary()` follows it to a contact that was merged into none. `Way(c)` is
what lies on it from `c` (the smallest set that is closed under it), `Ends(c)` its
end, and a cycle has none. A contact is in use when it is ACTIVE and was merged
into none: an edit or a snapshot that had read a contact before its merge makes it
ACTIVE again (see the list below), and such a contact is not in use.

The history variables name the races of that list, which are the only exceptions:

| Variable | Set for |
| --- | --- |
| `overlapped` | a message whose contact was linked, unlinked or merged between the read and the write of its transaction |
| `uneven` | a contact that a merge joined from a linked and an unlinked one, or unlinked |
| `outdated` | a contact given a lead that Cyber Pulse had removed, or whose answer went to a contact merged away |
| `kin` | nothing by itself: contacts that merges have joined have one kin |
| `doubled` | the kin of a merge that crosses another, or of a lead announced before the answer that made it was written |
| `disturbed` | a contact merged away, or merged into, while another transaction was using it |

`doubled` holds whole kins because leads move along merges: with more contacts and
requests than the run has, a contact that was merged away and revived shares its
lead with contacts that the merge itself does not name. Abstractions:
one channel; one edit of a contact; attempts are a choice between RETRY and
FAILED; only the forwards of inbound messages, as other events settle their row
and change nothing else; the 50 messages of a backfill are never reached. Cyber
Pulse is enabled.

## What the runs check

| Run | Question | Result |
| --- | --- | --- |
| `one_message` | A message and a reaction to it: do all rows agree, is the CRM told the outcome, is every duplicate of message or media excused, is the lease protocol implemented? | holds, a failed reaction excepted |
| `broadcast` | Two recipients, pause, resume, cancel and a retry of the failed at every point: is COMPLETED only written when all are finished? | holds, those a late retry queued excepted |
| `cancel` | One recipient, a cancellation and two retries of the failed: do row, recipient and message agree, and does a cancelled broadcast drain? | holds, the second under fairness; torn and overwritten recipients excepted |
| `actions` | Is every row settled, a send as well as a reaction, which retries on its own path? | holds under fairness |
| `inbound_messages` | Which message does the CRM never hear of; is the lease protocol implemented; is each row closed? | holds: only one read before the link and applied after it; the last under fairness |
| `inbound_effects` | With a crash, or a handler that outlives its lease: does each notification take effect once; what can lower a status or lose metadata? | holds: only an overtaken read |
| `broadcasts` | Is a recipient sent its message once; which rows exist without a recipient; who is left PENDING; is a final recipient final? | holds, the marked races excepted |
| `automation` | Is what waits awaited; does a parent wait for its child; is a finished execution left alone; is an unknown mutation not repeated? | holds for straight graphs, the last for all |
| `telegram` | Are early requests honoured; does a series follow its rule; is a delivered message shown so and sent once; are actions kept; is the newest menu shown? | holds, the marked races excepted |
| `email` | Is a letter mailed once and told once; do suppression and cancellation win; does evidence stay; is a campaign completed only when it is finished? | holds, the marked races excepted |
| `email_settles` | Does every letter end, and does a campaign get its recipients? | holds under fairness |
| `crm` | Is every message queued for Cyber Pulse; does a contact keep a dead lead; do two contacts share one; does a merge leave something behind? | holds, the marked races excepted |

Every property has a mutant: a plausible bug, written before the
definition it replaces (`Mutant_...`), which TLC must catch with that property. A
property with an exception has it as a history variable, set by the step that
creates the race and by nothing else: what the property says of everybody else is
unconditional.

### Known disagreements

Reading the code for the models showed where it does something other than a
document of the repository says, or something nobody can have meant. All of them
are part of the models, and the passing properties allow these and nothing else,
unless the text says that the line is outside the models. Paths are those of the
component's sources in `PROJECT.json`.

WhatsApp outbound:

- `process()` looks at the connection (193) before the journal (293): a message
  Meta has accepted is written FAILED when the channel is no longer ACTIVE at the
  next attempt.
- `claim()` copies the payload before it takes the lease (476-511): a wamid
  journaled in between is not seen, and the message is sent again. This is one of
  the excuses `DuplicatesAreExcused` counts (`gap`).
- A lost answer is sent again, where EDGE_CASES.md:57 says of a connection lost after
  a possible side effect "Не повторять вслепую; запустить reconciliation" (do not repeat
  blindly, reconcile) and has the row UNKNOWN. `classifySendFailure()` names
  a 5xx GRAPH_API_UNKNOWN_RESULT and schedules a retry (639-644), although it takes a
  5xx to an upload or a reaction for UNKNOWN; on the last attempt the row becomes
  FAILED, though Meta may have accepted it. And a row whose write of UNKNOWN fails is
  retried by the last `catch` (457). `gap` counts both.
- `fail()` of a reaction row (its scope, the emoji or the window refused, 1511-1560, or
  the channel no longer ACTIVE) does not ask what the message is: it writes FAILED over SENT, DELIVERED or READ, and over the recipient
  (1719; STATE_MACHINES.md:195), and tells Cyber Pulse FAILED of a message it has told
  SENT (1749-1757). `ProjectionAgrees` and `CrmLearnsOutcome` name these messages
  (`spoiled`). `ConfirmedStays` states what the document says; no run checks it, since
  it does not hold.
- `retryFailed()` reads who FAILED and writes by id without a look at what they are by
  then (`broadcasts.service.ts` 398-424). The recipient of a row that another such
  request or a failed reaction has left settled is QUEUED with nothing to send it
  (`overwritten`); recipients are QUEUED in a COMPLETED broadcast (`late`) and revived
  in a cancelled one.
- Two handlers that finish the last two recipients each count the other as
  unfinished, and the broadcast stays RUNNING (1990; STATE_MACHINES.md:231).
  `NotStranded` states the document; it does not hold either.
- `cancel()` reads recipients and then writes by the ids it read: one a handler
  starts in between stays PROCESSING with a failed row, if its call ends in a
  retry (STATE_MACHINES.md:249). `ProjectionAgrees` and `CancelDrains` name this
  recipient as the only exception. And it checks the status before its
  transaction (349-354): a broadcast COMPLETED in between becomes CANCELLED.
- Deferrals of a paused broadcast use up attempts (484), so the first transient
  error after a long pause is final.
- A manual retry by the CRM copies the payload, journal included, into a second
  row of the same message (`crm-whatsapp-v4.service.ts` 535; outside the models).

WhatsApp inbound:

- READ can be overwritten by DELIVERED, by a handler that read before READ was
  committed (470; WHATSAPP_CLOUD_API.md:191). `DowngradesAreStale` confines it to
  that.
- A status whose message is still unknown at the last attempt is closed as
  COMPLETED and nothing of it is kept, where EDGE_CASES.md:61 has an orphan status.
  `OneEffect` allows this only after the last attempt.
- `statusErrorCode()` returns `META_131026`, and line 499 compares it with `131026`:
  the identity is never marked UNAVAILABLE (EDGE_CASES.md:112).
- Status pricing and reactions write back all the metadata they read, so each can
  drop what the other has committed meanwhile (`LossesAreStale`).
- A message whose handler read the contact unlinked, and which is applied after the
  link's transaction has read his messages, is neither backfilled nor forwarded (963;
  CRM_INTEGRATION.md:169-172). `MissedIsOvertaken` says that this is the only one.

Broadcasts:

- `resume()` leaves PENDING the recipients whose turn came during the pause
  (`broadcasts.service.ts` 332-343, `broadcast-preparation.service.ts` 227;
  STATE_MACHINES.md:228): `PendingHasPreparer` excepts exactly those (`dropped`).
- COMPLETED can be written while recipients wait: `update()` writes by id after a
  launch it did not see, a second preparation takes over a lock of 60 s, or
  `retryFailed()` comes between the count and the update. `CompletedMeansFinished`
  has the last as its exception and is checked of the handlers' completion, in
  `WhatsAppOutbound`; `Broadcasts` has `FinalStays`.
- The operator's retry of a failed row writes its recipient QUEUED whatever it is
  (`operations.service.ts` 619-625), so that a CANCELLED one, in a cancelled broadcast,
  waits again; the handler cancels it once more. `FinalStays` allows it this and
  nothing else.
- A lost answer of Telegram is sent again (`telegram-outbound-processor.service.ts`
  975, EDGE_CASES.md:57 as above): there is neither a journal nor an UNKNOWN.
  `OneDelivery` counts the acceptances nobody recorded (`lost`).
- A row whose recipient is gone is sent without looking at pause or cancellation;
  `OrphansWereRefused` says which rows those are.

Telegram outbound:

- `cancelScheduled()` of a QUEUED schedule whose row is past PENDING changes the
  schedule only: the message is sent and the series goes on
  (`crm-outbound.service.ts` 760-783; DECISIONS.md:1099-1100). `EarlyRequestsHonoured`
  speaks of requests before the first claim.
- A lost answer is sent again here as well (975; EDGE_CASES.md:57): `OneMessage` excuses
  it (`lost`), an action repeated is the same action.

Automation:

- A DELAY, wait or subflow without a next edge resumes at the start of its graph
  and then waits forever.
- In a guarded cycle (DECISIONS.md:545-547) the second pass through a wait or
  delay finds its row by `upsert` with `update: {}`, and nothing resumes it.
- A child started with `await: false` that ends later resumes a parent that waits
  for something else (DECISIONS.md:542-543); a child that fails never resumes the
  parent that awaits it. `ParentWaits` and `WaitingIsAwaited` therefore speak of
  straight graphs: no cycle, an edge after every node that suspends, children
  awaited.
- A second active wait in a conversation breaks a unique key: the whole inbound
  transaction fails until it is a dead letter.
- `lockedAt` of an HTTP row is the start of the scan, not of the claim. A row late
  in a long scan is stale at birth, and its POST is made twice
  (STATE_MACHINES.md:314). `MutationNotRepeated` excepts a row claimed twice so
  (`raced`).
- `subflowDepth` is reset when an execution resumes (outside the models).
- `automation.service.ts` `update()` (224-306) can overwrite a graph published
  meanwhile, and `publish()` (345-418) publishes one it read before its transaction
  (outside the models).

CRM (CRM_INTEGRATION.md:169-172, ADR-053 at DECISIONS.md:1399-1421). `HistoryIsQueued`,
`OneContactPerLead`, `DeadLeadIsMended` and `NothingLeftBehind` except the contacts
these touch, by the history variables set where they happen:

- An unlinked contact merged with a linked one, or linked by the answer to a merge,
  gets no backfill (`contacts.service.ts` 1112, 1074; `crm-outbox.service.ts` 607,
  703-713).
- `merge()` writes `crmLeadId` from a read before its transaction, and can unlink
  (1112). Two merges that overlap give one lead to two contacts; two opposite ones
  make a cycle of `mergedIntoContactId` (965-1160).
- An inbound transaction beside a merge leaves its message on the merged contact,
  and its forward fails with `crm_channel_identity_missing`.
- A CRM lease starts with the scan as well (85, 155), and late results link a
  contact whether or not the lease is held (686-713). A merge answer is written to
  a contact merged meanwhile, so that the survivor keeps the removed lead.
- A snapshot that arrives before an answer is recorded, or between a merge here and
  the one at Cyber Pulse, creates a second contact with the same lead
  (`crm-contact-sync.service.ts` 102-174).
- A snapshot or edit that read before a merge makes the MERGED contact live again
  (135; `contacts.service.ts` 310-321), although "Merged contacts are read-only"
  (313).
- The backfill takes 50 messages, once (743); more than that are outside the model.

E-mail:

- A preparation taken over by another worker can create two letters to one address
  (`email-delivery.service.ts` 213; EDGE_CASES.md:113); the module has one letter per
  address.
- A letter that fails after its campaign was cancelled becomes RETRY, not CANCELLED
  (561; EDGE_CASES.md:116).
- COMPLETED is written by id, over a cancellation or pause (589; STATE_MACHINES.md:49),
  and PREPARING over CANCELLED (`email.service.ts` 220).
- When the last letter ends by an event or recovery, nothing completes the campaign.
- `retryFailed()` of a BOUNCED letter reuses its idempotency key: within the key's
  life nothing is mailed and the letter is SENT, later it is UNKNOWN (329). Beside
  the completion it leaves PENDING letters in a COMPLETED campaign (317).

A property with such an exception says in its comment which step it is about. There
is no run that expects a violation: each of these needs an interleaving or a fault,
and what a reader can use is how far it reaches.

### Bounds

WhatsApp: `MaxLeases` bounds the leases of a row, `MaxFaults` the crashes, database
errors, slow handlers, lost signals and failed cancellations together. Two handlers
are the smallest number with a stale and a new holder; a third only repeats the
second, as tokens are compared for equality alone. `MaxAttempts = 2` reaches both
branches of `retry()`. Two faults give a lost answer after a lapsed lease. `actions` never uses up its six leases, so the bound does not help liveness; `cancel` may
exhaust its three, because a paused broadcast defers without limit, and `CancelDrains`
says so. `one_message` cuts a behaviour off after five leases of a row, one more than its
attempts and faults call for. `broadcast` takes one row twice and the other once
(`BroadcastSpec`), so that a recipient retried or deferred is served again, and has no
faults: what matters there is the count of one handler against the other recipient;
faults with one recipient are in `cancel`, and the theorems cover all. `Retries` are the requests of `retryFailed()`, each used once: one against
two recipients, two against one, as the second is what finds a row settled otherwise.
No instance has a mark as read, which takes the steps of a reaction; the theorems have
it. Symmetry over handlers is used in safety runs only.

Inbound, two handlers again: a race is between two reads and two writes.
`inbound_effects` has a failure that marks the addressee, a success with a price and
a reaction, all about one message, which is where they can meet; two leases per row and
one fault let a handler work on beside the one that took its row over, or die before its
commit. Its customer is linked and was last sent a message, as who links him is the
matter of `inbound_messages`. There `MaxLeases = 9` is never reached with its one fault. Liveness is
checked for messages only; a status or reaction takes the same steps but for
`StillPending`, which closes its row or schedules a retry as `FailForNow` does.

| Run | Instance |
| --- | --- |
| `one_message` | a CRM message with media and a schedule, a reaction to it; two handlers, two faults (2.98 million states) |
| `broadcast` | two recipients, two handlers, one request to retry (8.61 million states) |
| `cancel` | one recipient, one handler, two requests to retry, one fault (1.22 million states) |
| `actions` | a send and a reaction, two handlers, one fault (0.28 million states) |
| `inbound_messages`, `inbound_effects` | two messages; two statuses and a reaction; two handlers, one fault each (0.07 and 3.03 million states) |
| `broadcasts` | two preparation loops, two handlers, two requests; one recipient with a fault, or two without (1.99 million states) |
| `automation` | two messages, two workers, two faults; the graphs of `MCGraphs`: a main graph of three nodes, a subflow of two and one within it, with the kinds, edges and methods that a publish accepts and that tell the walk's branches apart |
| `telegram` | two workers, a series of two occurrences, the first recurring; two actions; two menus; three requests, one fault |
| `email` | one letter, two workers, Resend's SENT and BOUNCED, two attempts, two requests, one fault (3.16 million states) |
| `email_settles` | one worker, a letter of the campaign and one outside it, two requests, one fault (0.93 million states) |
| `crm` | three contacts that have written and one only a snapshot brings, one message, two leads, two workers, two requests at a time; two requests without a fault or one with one, from the start or just after a merge (1.31 million states) |

Why they are enough: each race of the list above, where it is not marked as outside
the models, is between two actors over one row, contact or letter, and the safety
instances have two actors of each kind; the runs fire every action. A second
recipient matters where a broadcast counts; a third contact where a merge is followed
by another (a primary that is stale when its pair is repaired and has been revived
meanwhile takes three requests, which only the theorems cover); a second letter where the worker serves one before the other.

### Fairness

`WF` on each handler: an await returns. `SF` on delivering a row's signal: BullMQ
serves its queue, although one signal can be lost or another handler be faster.
`WF` on the scan's two actions and on time: they run on timers. A lease lapses
fairly only when nobody attends the row; that it lapses under a living handler is
a fault. `WF` on the end of an open transaction. No fairness for the provider's
verdicts, the API's controls or faults. Inbound the same; Meta, the sender and
Cyber Pulse owe nothing, so an unknown message may stay unknown.

E-mail has no signals: `WF` on the promotion, the drain and the recovery, which run
in one timed loop, on each worker's statements, and on time as above. No fairness
for Resend's events, the API's controls or faults. `LettersSettle` says for itself
what a pause or a campaign without preparation excuses.

The other runs check safety and state no fairness.

## What is proved

With the TLA+ proof system, for every value of the constants. What is assumed of
them is named in the modules: `NoRow` is no row (`OutboxLeaseProofs`);
`WhatsAppAssumption` (one sending row per message, any number of reactions to it, marks
as read only of incoming messages, which have no sending row, recipients only for
sending rows, and broadcast messages neither scheduled nor from the CRM, as
`broadcast-preparation.service.ts` creates them); `InboundAssumption` (each
notification has a kind and a positive time, statuses and reactions a message);
`BroadcastsAssumption`, `AutomationAssumption` and `TelegramAssumption` (bounds are
numbers, `Nobody` is no worker, graphs are over the nodes); `EmailAssumption`
(letters and workers are none of the names the model reserves, every letter has a
source and an address, there is an attempt to make); `CrmAssumption` (senders are
contacts with an identity, `Nobody` is none of the others, bounds are numbers).

- `OutboxLeaseProofs`: `OneHolderHolds`, `LeaseRecordedHolds`,
  `TerminalStaysHolds`. The invariant is type correctness, `LeaseRecorded` and
  `OneHolder` together: `OneHolder` alone is not inductive, because a fresh token
  is only fresh if no handler holds a newer one.
- `WhatsAppOutboundProofs`: `TypeCorrect` for `TypeOK /\ HandlerInv`.
  `HandlerInv` says what a handler carries at each step: an idle one nothing, one
  past its claim a token, an outcome exactly where it writes one.
  `ImplementsLease`: the initial states and every step map to `OutboxLease`, by
  the identity on the shared variables but for a row not yet requested, which waits
  there (`LeaseStatus`); `CancelWrites` maps to `Withdraw` and `RetryWrites` to `Reopen`.
  Four safety theorems stand on these. `ProjectionAgrees` needs `WamidInv` (a wamid
  in a payload, a handler or a row is one Meta returned for this row), `LinksInv`
  (recipients and schedules exist exactly for their messages), `CancelInv` (no
  cancellation is at work on a cancelled broadcast), `RequestInv` (an action row, and a
  failed reaction, only for a message that has a wamid) and, for unsettled rows, that
  nothing downstream has moved. `CompletedFinishes` needs `RowWaits` (an unsettled row's
  recipient is unfinished), `LeaseInv` below, and `CompletionInv`: whoever a handler has
  counted as finished is so until it writes, or a late retry has queued him, or the
  handler no longer holds its lease and its write will throw; it fails without its second
  part, that a cancelled recipient with an unsettled row is one of a cancelled broadcast.
  `DuplicatesExcused`: an account of every row (`BudgetInv`)
  in which the calls made, those that handlers of older leases can still make and
  the one the row itself may lead to are at most one more than its gaps. It needs
  that leases tell handlers apart (`LeaseInv`) and what a handler's copy of the
  payload has at each step (`PayloadInv`).
- `WhatsAppInboundProofs`: `InboundTypeCorrect` for `TypeOK /\ HandlerInv`. Here
  `HandlerInv` also says that a handler counts no more attempts than its row has,
  and closes a row as done without effect only when it is no message and the
  attempts are used up. `EachTakesEffectOnce` follows from `RowStep`, which says what
  one step can do to a row and its event. `WindowFollowsLatest` is inductive as it stands.
  `CrmMissesOnlyOvertaken` needs that the backlog of an open link has every message
  applied before it but the overtaken ones. `RecipientShowsMessage` needs
  that a broadcast message keeps its recipient row. `DowngradesNeedStaleRead` rests on
  `ProjectionNeverLowers`, a fact of `messageProjectionStatus()` alone: the function
  is right for the status it is given, so only the age of that status can be
  wrong. `InboxImplementsLease` maps inbox to outbox statuses (`LeaseStatus`).
- `BroadcastsProofs`: type correctness with `Busy` (an actor at a step has what the
  step needs); `RowsInv` ties a recipient to its row, to the handler at it, to the
  lists the loops hold and to the controls that asked; `Grows` says what never
  shrinks. `BroadcastPendingHasPreparer` needs `Listed`: a PENDING recipient
  is on the list of a loop unless one has dropped it. `BroadcastOneDelivery` is
  inductive on top of it: what Telegram accepted is what the row records, plus what
  handlers have in hand, plus what was lost; it counts sets of handlers, with the
  library's facts about cardinality. `FinalStays` follows from what one step can do to a
  final recipient: who is marked, or revived in that very step.
- `AutomationProofs`: type correctness, of the saved tables too. `MutationNotRepeated`:
  the invariant says that a row has one claimer unless its lease was stale at birth, and
  that an UNKNOWN row is not due and in no hand that could send it; the same of the rows
  a transaction would restore, since a rollback brings them back. `FinalStays`,
  `ParentWaits` and `WaitingIsAwaited` share `StraightInv`. For it a row, continuation
  or request, is fresh, live or over, and every execution (`Sound`) does one of five
  things: it is not born, walks (one frame of the stack, nothing else holds it), is
  being resumed, stands at one node with exactly one thing that holds it there (a live
  row, one call that claimed it, an active child), or rests. What a walk has yet to come
  to is fresh in the order of its graph (`FreshFrom`): without that a step could find an
  old row, and the execution would wait for nothing. `Touched` says that a step which
  changes one execution, or a child and its parent, leaves every other one sound, so
  that each action is one lemma on the tables (`Suspended`, `Starts`, `Finishes`,
  `Resumed`, `Replied`, `Continues`, `Opens`, `Pauses`, `Reopens`). The tables are sound
  as they are and as they would be after a throw (`SavedOK`).
- `TelegramOutboundProofs`: six theorems over the step lemmas `RowMoves` and
  `CallMoves`, which say what any step can do to a row and to a call. `OwnerInv` is
  ownership of the lease, which `fail()` may lack. Each property then has its own
  facts (`EarlyFacts`, `SentFacts`, `RuleFacts`, `ShownFacts`, `ActionFacts`,
  `MenuFacts`); `TelegramSeriesAdvances` says that an occurrence exists only after
  the one before it.
- `EmailProofs`: type correctness with `WorkerInv` (what a worker carries at each
  step) and `OpenInv` (an open transaction has seen what its letter has, once that is
  evidence). `SentToldOnce` and `EvidenceStays` follow from what one step can do to a
  letter (`LetterStep`). `CompletedIsFinished` needs `CountInv`: what a worker counted
  stays true until it completes, or new work has marked it outdated. `MailedOnce`
  needs `MailInv`: the key is new exactly before the first mail, and is forgotten only
  when nobody is about to call, slow letters excepted. `SuppressionWins` and
  `CancelStops` need that whoever is about to call is marked (`SlipInv`, `CancelInv`).
- `CrmOutboxProofs`: `KinInv` says that pointers, rows, calls and repairs stay within
  one kin; it is what makes the other facts survive merges. `OneContactPerLead` needs
  `LeadInv`: whoever knows a lead (has it here or at Cyber Pulse, in an answer given or
  in a merge that has read it) is kin, or all who do are doubled; it says who could
  come to share a lead, where the property says who does. `DeadLeadIsMended` needs
  `DeadInv`: the row that removed a lead was answered, still stands, and is still with
  the contact that merge left in use. `HistoryIsQueued` needs `BootstrapsStand` and
  `CallsLink`: the row that is to queue a contact's messages is there, with the contact
  that has them, and whoever works on it saw the contact unlinked. `NothingLeftBehind`
  needs `LeftInv`: a contact merged undisturbed is in nobody's hands, so nothing comes
  back to it, and contacts that lead only to each other include a disturbed one.

`OneHolder`, `LeaseRecorded`, `TerminalStays`, the type invariants,
`RecipientShowsMessage`, `WaitingHasRow`, `WindowIsLatest` and `SeriesAdvances` are
proved and in no run of their own; the mapped `OutboxLease` is checked by the runs
as a property.

Model-checked only: liveness (`EveryRowSettles`, `CancelDrains`, `EveryInboxSettles`,
`LettersSettle`, `SnapshotTaken`), which needs fairness and ENABLED. Every safety
property of a run is a theorem.

## Not modelled

- Telegram inbound and the e-mail inbox: the same inbox lease as `WhatsAppInbound`,
  with other contents; failure classification, dead letters and threading would be
  new.
- Lead capture, webinars, Meta leads: imports that deduplicate by unique keys; what
  is hard in them is one cursor or lock each.
- Communications and the Telegram workspace, channels, templates, media, account
  lifecycle, authentication, scenario authoring: requests that read, check a version
  or a permission and write rows. Where they meet a modelled component (a schedule
  cancelled, an operator's retry, a snapshot) the request is an action of that
  component's module.
- Provider clients, request building, validation, formatting: a nondeterministic
  answer or verdict stands for them.
- The web client keeps no durable state. It is most of the source, with the DTOs,
  controllers and CRUD services, so the modelled lines are a small part of the whole
  and most of the worker's protocols.

## Running

In this directory, `tlc -workers 2 -config <cfg> <module>` with the pairs
`PROJECT.json` lists under `runs`; the longest are `MCWhatsAppOutbound_broadcast.cfg`,
`MCCrmOutbox.cfg`, `MCWhatsAppOutbound_cancel.cfg` and `MCWhatsAppOutbound_one.cfg` (two
to three minutes),
the others take about a minute and a half or less. `tlapm <module>` checks the proofs of a module whose name ends in
`Proofs`: `WhatsAppOutboundProofs`, `BroadcastsProofs`, `TelegramOutboundProofs`,
`EmailProofs` and `CrmOutboxProofs` take minutes, the others seconds.
