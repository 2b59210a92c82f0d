--------------------------- MODULE WhatsAppInbound ---------------------------
(***************************************************************************)
(* The WhatsApp webhook of apps/api and the inbound processor of           *)
(* apps/worker with its recovery scan: one InboxRecord per notification,   *)
(* worked on under a lease, and what a notification does to the rows of    *)
(* one customer: messages he sends, his reactions to ours, and Meta's      *)
(* delivery statuses of ours.                                              *)
(*                                                                         *)
(* A notification is applied by one transaction that first READS (the      *)
(* message it is about, or the sender) and then writes what it computed    *)
(* from that.  Under READ COMMITTED others may commit between the two, so  *)
(* they are two steps; row locks make the writes and the commit one.       *)
(***************************************************************************)
EXTENDS Naturals, FiniteSets

CONSTANTS Workers, Inboxes, NoRow, MaxLeases,
          Kind,         \* "message", "reaction" or "status"
          Time,         \* occurredAt of a notification
          Messages,     \* outbound messages to this customer
          Recipients,   \* those of them that are sent by a broadcast
          About,        \* the outbound message a status or reaction is about
          Status,       \* mapped status of a status notification
          ErrorCode,    \* errors[0].code of a status notification, "none" without
          Priced,       \* status notifications with pricing
          MaxAttempts,  \* InboxRecord.maxAttempts, 8 in persist()
          MaxFaults     \* bound: crashes, database errors, slow handlers, lost signals

Ofs(kind) == {i \in Inboxes : Kind[i] = kind}

ASSUME InboundAssumption ==
    /\ NoRow \notin Inboxes
    /\ MaxLeases \in Nat /\ MaxAttempts \in Nat \ {0} /\ MaxFaults \in Nat
    /\ Kind \in [Inboxes -> {"message", "reaction", "status"}]
    /\ Time \in [Inboxes -> Nat \ {0}]
    /\ Recipients \subseteq Messages
    /\ About \in [Ofs("reaction") \cup Ofs("status") -> Messages]
    /\ Status \in [Ofs("status") -> {"SENT", "DELIVERED", "READ", "FAILED", "DELETED"}]
    /\ ErrorCode \in [Ofs("status") -> {"none", "131026", "131051"}]
    /\ Priced \subseteq Ofs("status")

VARIABLES
  \* InboxRecord: status ("NONE": no row yet), lockedBy, attempts; lockedAt
  \* older than the lease; nextAttemptAt passed
  inbox, lockedBy, attempts, lapsed, due,
  applied,      \* effects of a notification: committed NormalizedEvents
  message,      \* Message.status of ours; "QUEUED" until Meta's wamid is stored
  meta,         \* parts of Message.metadata: "reaction", "pricing"
  recipient,    \* BroadcastRecipient.status of ours, "NONE": no such row
  identity,     \* the sender has a ChannelIdentity and a contact
  linked,       \* Contact.crmLeadId is set
  linking,      \* the CRM outbox has a transaction open that sets it
  backlog,      \* the messages that transaction has found for Cyber Pulse
  overtaken,    \* history: messages applied by a handler that had read an
                \* unlinked contact, when the backlog had been read already
  reach,        \* ChannelIdentity.whatsAppReachability
  lastInbound,  \* Conversation.lastInboundAt, 0: null; the window closes 24 h later
  crm,          \* CRM outbox intents by idempotency key
  jobs,         \* rows signalled in the BullMQ queue
  pc, row, lease, ctx,   \* handlers
  faults        \* faults so far

inboxVars == <<inbox, lockedBy, attempts, lapsed, due>>
storyVars == <<message, meta, recipient>>
leadVars == <<linked, linking, backlog>>
customerVars == <<identity, leadVars, overtaken, reach, lastInbound>>
domainVars == <<applied, storyVars, customerVars, crm>>
handlerVars == <<pc, row, lease, ctx>>
vars == <<inboxVars, domainVars, jobs, handlerVars, faults>>

Settled == {"COMPLETED", "DEAD_LETTER"}
event == {i \in Inboxes : applied[i] > 0}

(* What a handler remembers: claimed.attempts, what its transaction has read
   (the target's status and metadata, the sender's identity and lead) and how
   it is about to close the row. *)
NoCtx == [tries |-> 0, status |-> "NONE", meta |-> {}, identity |-> FALSE,
          linked |-> FALSE, outcome |-> "NONE"]

Init ==
    /\ inbox = [i \in Inboxes |-> "NONE"]
    /\ lockedBy = [i \in Inboxes |-> 0]
    /\ attempts = [i \in Inboxes |-> 0]
    /\ lapsed = [i \in Inboxes |-> FALSE]
    /\ due = [i \in Inboxes |-> FALSE]
    /\ applied = [i \in Inboxes |-> 0]
    /\ message = [m \in Messages |-> "QUEUED"]
    /\ meta = [m \in Messages |-> {}]
    /\ recipient = [m \in Messages |-> IF m \in Recipients THEN "PROCESSING" ELSE "NONE"]
    /\ identity \in BOOLEAN /\ (Messages # {} => identity)
    /\ linked \in BOOLEAN /\ (linked => identity)
    /\ linking = FALSE /\ backlog = {} /\ overtaken = {}
    /\ reach \in {"UNKNOWN", "PENDING"}
    /\ lastInbound = 0
    /\ crm = {}
    /\ jobs = {}
    /\ pc = [w \in Workers |-> "idle"]
    /\ row = [w \in Workers |-> NoRow]
    /\ lease = [w \in Workers |-> 0]
    /\ ctx = [w \in Workers |-> NoCtx]
    /\ faults = 0
-----------------------------------------------------------------------------
At(w, where) == pc[w] = where
Goto(w, where) == pc' = [pc EXCEPT ![w] = where]

Fault == faults < MaxFaults /\ faults' = faults + 1

(* `where: { id, lockedBy: claimed.leaseToken, status: 'PROCESSING' }` *)
Mutant_AnyLease(w) == row[w] \in Inboxes /\ lease[w] # 0
Holds(w) == /\ row[w] \in Inboxes
            /\ inbox[row[w]] = "PROCESSING"
            /\ lockedBy[row[w]] = lease[w]

Leave(w) == /\ pc' = [pc EXCEPT ![w] = "idle"]
            /\ row' = [row EXCEPT ![w] = NoRow]
            /\ lease' = [lease EXCEPT ![w] = 0]
            /\ ctx' = [ctx EXCEPT ![w] = NoCtx]

(* BullMQ may run a job again whose handler threw. *)
MayRunAgain(w) == jobs' \in {jobs, jobs \cup {row[w]}}

(* The catch clause of process() closes the row in a statement of its own. *)
Close(w, outcome) == /\ ctx' = [ctx EXCEPT ![w] = [@ EXCEPT !.outcome = outcome]]
                     /\ Goto(w, "close")

Exhausted(w) == ctx[w].tries >= MaxAttempts

(* fail(): dead when permanent or out of attempts. *)
FailPermanently(w) == Close(w, "DEAD_LETTER")
FailForNow(w) == Close(w, IF Exhausted(w) THEN "DEAD_LETTER" ELSE "RETRY")

(* WhatsAppInboundPendingError: out of attempts, the row counts as done. *)
StillPending(w) == Close(w, IF Exhausted(w) THEN "COMPLETED" ELSE "RETRY")
-----------------------------------------------------------------------------
(* receive(): the first delivery of a notification makes its row, whichever
   of Meta's repetitions it is; the signal may fail. *)
Mutant_Receive(i) ==
    /\ inbox' = [inbox EXCEPT ![i] = "PENDING"]
    /\ due' = [due EXCEPT ![i] = TRUE]
    /\ jobs' \in {jobs, jobs \cup {i}}
    /\ UNCHANGED <<lockedBy, attempts, lapsed, domainVars, handlerVars, faults>>
Receive(i) ==
    /\ inbox[i] = "NONE"
    /\ inbox' = [inbox EXCEPT ![i] = "PENDING"]
    /\ due' = [due EXCEPT ![i] = TRUE]
    /\ jobs' \in {jobs, jobs \cup {i}}
    /\ UNCHANGED <<lockedBy, attempts, lapsed, domainVars, handlerVars, faults>>

(* The outbound processor stores the wamid, with SENT, for the statuses to
   find (recoverJournaledSend(), see CommitSent of WhatsAppOutbound). *)
Sent(m) ==
    /\ message[m] = "QUEUED"
    /\ message' = [message EXCEPT ![m] = "SENT"]
    /\ recipient' = [recipient EXCEPT ![m] = IF @ = "NONE" THEN @ ELSE "SENT"]
    /\ reach' = IF reach = "AVAILABLE" THEN reach ELSE "PENDING"
    /\ UNCHANGED <<inboxVars, applied, meta, identity, leadVars, overtaken, lastInbound,
                   crm, jobs, handlerVars, faults>>

(* The CRM outbox has upserted the lead for one of the intents that ask for
   it.  finishSuccess() links the contact and queues the history so far in one
   transaction, which nobody sees before it commits, nor does it see whom it
   has overtaken.  (A message newer than the contact's last waits for the lock
   on his row and goes on as after the commit.) *)
ReadBacklog ==
    /\ <<"bootstrap">> \in crm \/ \E i \in Inboxes : <<"eligibility", i>> \in crm
    /\ ~linked /\ ~linking
    /\ linking' = TRUE
    /\ backlog' = event \cap Ofs("message")
    /\ UNCHANGED <<linked, crm, inboxVars, applied, storyVars, identity, overtaken, reach,
                   lastInbound, jobs, handlerVars, faults>>

Mutant_LinkOnly ==
    /\ linking
    /\ linking' = FALSE /\ backlog' = {} /\ linked' = TRUE
    /\ UNCHANGED <<crm, inboxVars, applied, storyVars, identity, overtaken, reach,
                   lastInbound, jobs, handlerVars, faults>>
LinkLead ==
    /\ linking
    /\ linking' = FALSE /\ backlog' = {}
    /\ \/ /\ linked' = TRUE
          /\ crm' = crm \cup {<<"history", i>> : i \in backlog}
          /\ UNCHANGED faults
       \/ /\ Fault
          /\ UNCHANGED <<linked, crm>>
    /\ UNCHANGED <<inboxVars, applied, storyVars, identity, overtaken, reach, lastInbound,
                   jobs, handlerVars>>
-----------------------------------------------------------------------------
Deliver(w, i) ==
    /\ At(w, "idle")
    /\ i \in jobs
    /\ jobs' = jobs \ {i}
    /\ IF inbox[i] \in Settled
       THEN UNCHANGED handlerVars
       ELSE /\ Goto(w, "claim")
            /\ row' = [row EXCEPT ![w] = i]
            /\ ctx' = [ctx EXCEPT ![w] = [@ EXCEPT !.tries = attempts[i] + 1]]
            /\ UNCHANGED lease
    /\ UNCHANGED <<inboxVars, domainVars, faults>>

Claimable(i) == \/ inbox[i] \in {"PENDING", "RETRY"} /\ due[i]
                \/ inbox[i] = "PROCESSING" /\ lapsed[i]

Claim(w) ==
    LET i == row[w] IN
    /\ At(w, "claim")
    /\ attempts[i] < MaxLeases
    /\ IF Claimable(i)
       THEN /\ inbox' = [inbox EXCEPT ![i] = "PROCESSING"]
            /\ attempts' = [attempts EXCEPT ![i] = @ + 1]
            /\ lockedBy' = [lockedBy EXCEPT ![i] = attempts[i] + 1]
            /\ lapsed' = [lapsed EXCEPT ![i] = FALSE]
            /\ lease' = [lease EXCEPT ![w] = attempts[i] + 1]
            /\ Goto(w, "read")
            /\ UNCHANGED <<due, row, ctx>>
       ELSE Leave(w) /\ UNCHANGED inboxVars
    /\ UNCHANGED <<domainVars, jobs, faults>>

(* The first half of the transaction of persistMessage(), persistReaction()
   or persistStatus().  A malformed notification, a timestamp out of range, a
   connection that is not ACTIVE and a reaction by somebody else are
   permanent; a target Omnicus does not know (yet) is not. *)
Read(w) ==
    LET i == row[w] IN
    /\ At(w, "read")
    /\ \/ FailPermanently(w)
       \/ /\ Kind[i] = "message"
          /\ ctx' = [ctx EXCEPT ![w] = [@ EXCEPT !.identity = identity, !.linked = linked]]
          /\ Goto(w, "write")
       \/ /\ Kind[i] # "message" /\ message[About[i]] = "QUEUED"
          /\ StillPending(w)
       \/ /\ Kind[i] # "message" /\ message[About[i]] # "QUEUED"
          /\ ctx' = [ctx EXCEPT ![w] = [@ EXCEPT !.status = message[About[i]],
                                                 !.meta = meta[About[i]]]]
          /\ Goto(w, "write")
    /\ UNCHANGED <<inboxVars, domainVars, jobs, row, lease, faults>>
-----------------------------------------------------------------------------
(* lastInboundAt only ever moves forward, and the window with it. *)
LatestInbound(i) == IF lastInbound < Time[i] THEN Time[i] ELSE lastInbound

(* queueInboundForCrm(): a linked contact's message is forwarded, otherwise
   the one bootstrap of the contact is queued. *)
InboundIntent(w) == IF ctx[w].linked THEN {<<"history", row[w]>>} ELSE {<<"bootstrap">>}

ApplyMessage(w) ==
    /\ identity' = TRUE
    /\ reach' = "AVAILABLE"
    /\ lastInbound' = LatestInbound(row[w])
    /\ crm' = crm \cup InboundIntent(w)
    /\ overtaken' = IF ~ctx[w].linked /\ (linked \/ linking) THEN overtaken \cup {row[w]}
                                                              ELSE overtaken
    /\ UNCHANGED <<storyVars, leadVars>>

(* A second NormalizedEvent of a row breaks a unique key, and so does a second
   identity of a sender who was new when read: the transaction is rolled back. *)
Clashes(w) == \/ applied[row[w]] > 0
              \/ Kind[row[w]] = "message" /\ ~ctx[w].identity /\ identity

(* persistReaction(): the metadata written is the metadata read, changed. *)
ApplyReaction(w) ==
    LET m == About[row[w]] IN
    /\ \E shown \in BOOLEAN :
          meta' = [meta EXCEPT ![m] = IF shown THEN ctx[w].meta \cup {"reaction"}
                                               ELSE ctx[w].meta \ {"reaction"}]
    /\ crm' = crm \cup {<<"reaction", row[w]>>}
    /\ UNCHANGED <<message, recipient, customerVars>>

Rank == [s \in {"QUEUED", "SENT", "DELIVERED", "READ", "FAILED", "DELETED"} |->
           CASE s \in {"QUEUED", "FAILED"} -> 0 [] s = "SENT" -> 1
             [] s = "DELIVERED" -> 2 [] s = "READ" -> 3 [] s = "DELETED" -> 4]

(* messageProjectionStatus(): the status to write, or the current one. *)
Mutant_Projection(current, incoming) ==
    IF current = "DELETED" THEN current ELSE incoming
Projection(current, incoming) ==
    CASE current = "DELETED" -> current
      [] current # "DELETED" /\ incoming = "DELETED" -> incoming
      [] current # "DELETED" /\ incoming = "FAILED" ->
            IF current \in {"QUEUED", "SENT"} THEN incoming ELSE current
      [] OTHER -> IF Rank[incoming] > Rank[current] THEN incoming ELSE current

(* statusErrorCode() prefixes the code before it is compared. *)
StatusErrorCode(i) == CASE ErrorCode[i] = "none" -> "none"
                        [] ErrorCode[i] = "131026" -> "META_131026"
                        [] OTHER -> "META_131051"
IsUndeliverable(i) == Status[i] = "FAILED" /\ StatusErrorCode(i) = "131026"

NewReach(i) == CASE Status[i] \in {"DELIVERED", "READ"} -> "AVAILABLE"
                 [] IsUndeliverable(i) -> "UNAVAILABLE"
                 [] OTHER -> reach

(* Only DELIVERED and READ carry pricing, and only the first is kept. *)
Mutant_NewMeta(w) == IF row[w] \in Priced THEN {"pricing"} ELSE meta[About[row[w]]]
NewMeta(w) ==
    LET i == row[w] IN
    CASE Projection(ctx[w].status, Status[i]) = "DELETED" /\ ctx[w].status # "DELETED" ->
            ctx[w].meta
      [] /\ i \in Priced /\ Status[i] \in {"DELIVERED", "READ"}
         /\ ctx[w].status # "DELETED" /\ "pricing" \notin ctx[w].meta ->
            ctx[w].meta \cup {"pricing"}
      [] OTHER -> meta[About[i]]

(* The recipient is written with the projection, but never DELETED. *)
RecipientStatus(old, projection) ==
    IF old = "NONE" \/ projection = "DELETED" THEN old ELSE projection

(* persistStatus(): what was read decides what is written. *)
ApplyStatus(w) ==
    LET i == row[w]
        m == About[i]
        projection == Projection(ctx[w].status, Status[i])
    IN
    /\ IF projection = ctx[w].status
       THEN UNCHANGED <<message, recipient>>
       ELSE /\ message' = [message EXCEPT ![m] = projection]
            /\ recipient' = [recipient EXCEPT ![m] = RecipientStatus(@, projection)]
    /\ meta' = [meta EXCEPT ![m] = NewMeta(w)]
    /\ reach' = NewReach(i)
    /\ crm' = crm \cup {<<m, Status[i]>>, <<"eligibility", i>>}
    /\ UNCHANGED <<identity, leadVars, overtaken, lastInbound>>

Release(i, status) ==
    /\ inbox' = [inbox EXCEPT ![i] = status]
    /\ lockedBy' = [lockedBy EXCEPT ![i] = 0]
    /\ lapsed' = [lapsed EXCEPT ![i] = FALSE]
    /\ due' = [due EXCEPT ![i] = FALSE]
    /\ UNCHANGED attempts

(* The second half of the transaction.  complete() is its last statement: a
   lost lease rolls everything back and ends the handler. *)
Write(w) ==
    LET i == row[w] IN
    /\ At(w, "write")
    /\ CASE Clashes(w) -> FailForNow(w) /\ UNCHANGED <<inboxVars, domainVars, jobs, row, lease>>
         [] ~Clashes(w) /\ ~Holds(w) ->
               Leave(w) /\ MayRunAgain(w) /\ UNCHANGED <<inboxVars, domainVars>>
         [] OTHER ->
               /\ applied' = [applied EXCEPT ![i] = @ + 1]
               /\ CASE Kind[i] = "message" -> ApplyMessage(w)
                    [] Kind[i] = "reaction" -> ApplyReaction(w)
                    [] Kind[i] = "status" -> ApplyStatus(w)
               /\ Release(i, "COMPLETED")
               /\ Leave(w)
               /\ UNCHANGED jobs
    /\ UNCHANGED faults

(* fail() and, for a pending one, complete(), outside the transaction. *)
CloseRow(w) ==
    /\ At(w, "close")
    /\ IF Holds(w) THEN Release(row[w], ctx[w].outcome) ELSE UNCHANGED inboxVars
    /\ MayRunAgain(w)
    /\ Leave(w)
    /\ UNCHANGED <<domainVars, faults>>
-----------------------------------------------------------------------------
Crash(w) ==
    /\ ~At(w, "idle")
    /\ Fault
    /\ Leave(w)
    /\ MayRunAgain(w)
    /\ UNCHANGED <<inboxVars, domainVars>>

(* A statement throws: the transaction is rolled back and fail() follows;
   before the try block, or in the catch clause, the handler ends. *)
DatabaseError(w) ==
    /\ Fault
    /\ \/ /\ pc[w] \in {"read", "write"}
          /\ FailForNow(w)
          /\ UNCHANGED <<row, lease, jobs>>
       \/ /\ pc[w] \in {"claim", "close"}
          /\ Leave(w)
          /\ MayRunAgain(w)
    /\ UNCHANGED <<inboxVars, domainVars>>

Attended(i) == \E w \in Workers : row[w] = i /\ lease[w] = lockedBy[i]
LeaseLapses(i) ==
    /\ inbox[i] = "PROCESSING" /\ ~lapsed[i]
    /\ lapsed' = [lapsed EXCEPT ![i] = TRUE]
    /\ IF Attended(i) THEN Fault ELSE UNCHANGED faults
    /\ UNCHANGED <<inbox, lockedBy, attempts, due, domainVars, jobs, handlerVars>>

BecomesDue(i) ==
    /\ inbox[i] = "RETRY" /\ ~due[i]
    /\ due' = [due EXCEPT ![i] = TRUE]
    /\ UNCHANGED <<inbox, lockedBy, attempts, lapsed, domainVars, jobs, handlerVars, faults>>

LoseSignal(i) ==
    /\ i \in jobs
    /\ Fault
    /\ jobs' = jobs \ {i}
    /\ UNCHANGED <<inboxVars, domainVars, handlerVars>>

(* scanOnce() on one row. *)
Recover(i) ==
    /\ inbox[i] = "PROCESSING" /\ lapsed[i]
    /\ inbox' = [inbox EXCEPT ![i] = "RETRY"]
    /\ lockedBy' = [lockedBy EXCEPT ![i] = 0]
    /\ lapsed' = [lapsed EXCEPT ![i] = FALSE]
    /\ due' = [due EXCEPT ![i] = TRUE]
    /\ jobs' \in {jobs, jobs \cup {i}}
    /\ UNCHANGED <<attempts, domainVars, handlerVars, faults>>

Mutant_Enqueue(i) ==
    /\ inbox[i] = "PENDING" /\ due[i]
    /\ i \notin jobs
    /\ jobs' = jobs \cup {i}
    /\ UNCHANGED <<inboxVars, domainVars, handlerVars, faults>>
Enqueue(i) ==
    /\ inbox[i] \in {"PENDING", "RETRY"} /\ due[i]
    /\ i \notin jobs
    /\ jobs' = jobs \cup {i}
    /\ UNCHANGED <<inboxVars, domainVars, handlerVars, faults>>

Handle(w) == Claim(w) \/ Read(w) \/ Write(w) \/ CloseRow(w)

Next == \/ \E w \in Workers :
              \/ Handle(w) \/ Crash(w) \/ DatabaseError(w)
              \/ \E i \in Inboxes : Deliver(w, i)
        \/ \E i \in Inboxes :
              \/ Receive(i) \/ LeaseLapses(i) \/ BecomesDue(i) \/ LoseSignal(i)
              \/ Recover(i) \/ Enqueue(i)
        \/ \E m \in Messages : Sent(m)
        \/ ReadBacklog \/ LinkLead

Spec == Init /\ [][Next]_vars

(* Handlers run on, the scan comes round, time passes, and a signal that
   keeps being there is delivered.  Meta, the sender and Cyber Pulse owe
   nothing. *)
Fairness ==
    /\ \A w \in Workers : WF_vars(Handle(w))
    /\ \A i \in Inboxes :
          /\ SF_vars(\E w \in Workers : Deliver(w, i))
          /\ WF_vars(Recover(i)) /\ WF_vars(Enqueue(i)) /\ WF_vars(BecomesDue(i))
          /\ WF_vars(~Attended(i) /\ LeaseLapses(i))

FairSpec == Spec /\ Fairness
-----------------------------------------------------------------------------
Known == {"QUEUED", "SENT", "DELIVERED", "READ", "FAILED", "DELETED"}
Parts == {"reaction", "pricing"}
Ctx == [tries : Nat, status : Known \cup {"NONE"}, meta : SUBSET Parts,
        identity : BOOLEAN, linked : BOOLEAN,
        outcome : {"NONE", "RETRY"} \cup Settled]

RowsTyped ==
    /\ inbox \in [Inboxes -> {"NONE", "PENDING", "RETRY", "PROCESSING"} \cup Settled]
    /\ lockedBy \in [Inboxes -> Nat] /\ attempts \in [Inboxes -> Nat]
    /\ lapsed \in [Inboxes -> BOOLEAN] /\ due \in [Inboxes -> BOOLEAN]
DomainTyped ==
    /\ applied \in [Inboxes -> Nat]
    /\ message \in [Messages -> Known]
    /\ meta \in [Messages -> SUBSET Parts]
    /\ recipient \in [Messages -> {"NONE", "PROCESSING", "SENT", "DELIVERED", "READ", "FAILED"}]
    /\ identity \in BOOLEAN /\ linked \in BOOLEAN /\ linking \in BOOLEAN
    /\ backlog \subseteq Ofs("message") /\ overtaken \subseteq Ofs("message")
    /\ reach \in {"UNKNOWN", "PENDING", "AVAILABLE", "UNAVAILABLE"}
    /\ lastInbound \in Nat
    /\ jobs \subseteq Inboxes /\ faults \in 0..MaxFaults
HandlersTyped ==
    /\ pc \in [Workers -> {"idle", "claim", "read", "write", "close"}]
    /\ row \in [Workers -> Inboxes \cup {NoRow}]
    /\ lease \in [Workers -> Nat] /\ ctx \in [Workers -> Ctx]

(* Rows and handlers hold values of their columns. *)
TypeOK == RowsTyped /\ DomainTyped /\ HandlersTyped

(* A notification takes effect once, in the transaction that completes its
   row, however often Meta repeats it, however many handlers pick it up and
   whenever one of them dies or outlives its lease; no late handler touches the
   row again.  A row is completed without effect only for a status or a
   reaction whose message is unknown after the last attempt. *)
OneEffect ==
    \A i \in Inboxes :
        /\ applied[i] > 0 => applied[i] = 1 /\ inbox[i] = "COMPLETED"
        /\ inbox[i] = "COMPLETED" /\ applied[i] = 0 =>
              Kind[i] # "message" /\ attempts[i] >= MaxAttempts

(* The service window is that of the customer's latest message, in whatever
   order his messages are applied. *)
WindowIsLatest ==
    LET heard == event \cap Ofs("message") IN
    /\ \A i \in heard : Time[i] <= lastInbound
    /\ lastInbound # 0 => \E i \in heard : Time[i] = lastInbound

(* A recipient shows the status of its message, also when statuses race each
   other; a deleted message leaves it what it was. *)
RecipientMirrors ==
    \A m \in Recipients :
        /\ message[m] \notin {"QUEUED", "DELETED"} => recipient[m] = message[m]
        /\ recipient[m] = "PROCESSING" <=> message[m] = "QUEUED"

(* An applied message of the customer is handed to Cyber Pulse by itself, or
   waits behind the bootstrap of a contact that is not linked yet.  The link
   takes every waiting message along, and none is lost but one whose handler
   had read the contact unlinked before the link's transaction read the
   messages: nothing ever forwards that one (processor 963). *)
MissedIsOvertaken ==
    \A i \in event \cap Ofs("message") :
        \/ <<"history", i>> \in crm
        \/ ~linked /\ <<"bootstrap">> \in crm
        \/ i \in overtaken

(* Statuses may come in any order: one that is lower than what is known does
   not take effect, except by a handler that had read the message before. *)
Lowers(old, new) == \/ old = "DELETED" /\ new # "DELETED"
                    \/ old \in {"DELIVERED", "READ"} /\ Rank[new] < Rank[old]
DowngradesAreStale ==
    [][\A m \in Messages : Lowers(message[m], message'[m]) =>
          \E w \in Workers : At(w, "write") /\ About[row[w]] = m /\ ctx[w].status # message[m]]_vars

(* The same for what is known of a message besides its status: a status
   loses a reaction only by a handler that had read the message before. *)
LossesAreStale ==
    [][\A i \in Ofs("status") : i \in event' \ event =>
          \/ meta[About[i]] \subseteq meta'[About[i]]
          \/ \E w \in Workers : row[w] = i /\ ctx[w].meta # meta[About[i]]]_vars

(* Every notification Meta has delivered is worked off. *)
EveryInboxSettles == \A i \in Inboxes : inbox[i] # "NONE" ~> inbox[i] \in Settled

(* The inbox table follows the protocol of OutboxLease too: COMPLETED is its
   SUCCEEDED, DEAD_LETTER its FAILED, and a row not yet received waits. *)
LeaseStatus == [i \in Inboxes |-> CASE inbox[i] = "NONE" -> "PENDING"
                                    [] inbox[i] = "COMPLETED" -> "SUCCEEDED"
                                    [] inbox[i] = "DEAD_LETTER" -> "FAILED"
                                    [] OTHER -> inbox[i]]
Lease == INSTANCE OutboxLease WITH Outboxes <- Inboxes, status <- LeaseStatus,
                                   leases <- attempts, Reopenable <- {}
InboxLeaseSpec == Lease!Spec
-----------------------------------------------------------------------------
(* Statements of the repository's documents that the code refutes. *)

(* WHATSAPP_CLOUD_API.md: notifications out of order cannot downgrade READ. *)
ReadStays ==
    [][\A m \in Messages : message[m] = "READ" =>
          message'[m] \notin {"SENT", "DELIVERED", "FAILED"}]_vars

(* CRM_INTEGRATION.md: a linked contact's messages are all forwarded, each by
   itself or by the backfill. *)
HistoryHandedOver ==
    linked => \A i \in event \cap Ofs("message") : <<"history", i>> \in crm
=============================================================================
