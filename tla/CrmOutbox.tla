------------------------------ MODULE CrmOutbox ------------------------------
(***************************************************************************)
(* The Omnicus side of Cyber Pulse: contacts, their inbound messages, the  *)
(* CRM rows of the outbox and the scan that works on them, with what moves *)
(* contacts about: merges, the repair of old merges, edits, and the        *)
(* snapshots Cyber Pulse sends of its leads.                               *)
(*                                                                         *)
(* A row is claimed under a lease, but what its answer changes besides the *)
(* row (the contact's lead, the queued history) is written whether or not  *)
(* the lease is still held.  A transaction that reads and then writes by   *)
(* id is two steps.  Cyber Pulse applies a row once and afterwards repeats *)
(* the answer: the row's id is its idempotency key.                        *)
(***************************************************************************)
EXTENDS Naturals

CONSTANTS Contacts,     \* contacts that can come to be
          Known,        \* those with a channel identity, which is named after them
          Messages,     \* inbound messages
          Sender,       \* of each: the identity it comes from
          Leads,        \* leads Cyber Pulse can make
          Workers,      \* processes that scan the CRM outbox
          Requests,     \* API and command-line transactions in flight at once
          Nobody,
          MaxRequests,  \* bound: merges, repairs, edits, snapshots, manual retries
          MaxFaults     \* bound: crashes, failed statements, leases outlived, late answers

ASSUME CrmAssumption ==
    /\ Known \subseteq Contacts
    /\ Sender \in [Messages -> Known]
    /\ Nobody \notin Contacts \cup Leads \cup Workers
    /\ MaxRequests \in Nat /\ MaxFaults \in Nat

(* An outbox row, by its idempotency key; of the syncs, one per edit, each
   contact has one here. *)
Bootstrap(c) == <<"bootstrap", c>>
Sync(c) == <<"sync", c>>
History(m) == <<"history", m>>
MergeOf(p, s) == <<"merge", p, s>>
RepairOf(p, s) == <<"repair", p, s>>

Pairs == {pair \in Contacts \X Contacts : pair[1] # pair[2]}
LeadRows == {Bootstrap(c) : c \in Contacts} \cup {Sync(c) : c \in Contacts}
MergeRows == {MergeOf(x[1], x[2]) : x \in Pairs} \cup {RepairOf(x[1], x[2]) : x \in Pairs}
HistoryRows == {History(m) : m \in Messages}

VARIABLES
  contact, into,    \* Contact.status ("NONE": no such contact), mergedIntoContactId
  lead,             \* Contact.crmLeadId
  owner,            \* ChannelIdentity.contactId
  stored,           \* Message.contactId; Nobody: no such message
  outbox,           \* by row that is there: status, lockedBy, CrmOperation.contactId
  reading,          \* inbound transactions that have read the sender
  req,              \* requests between their reads and their writes
  call,             \* process() in progress, from its read of the contact
  link, gone, done, \* Cyber Pulse: leads of contacts, removed leads, answers by row
  overlapped,       \* history: messages whose contact changed before they were written
  uneven,           \* history: contacts a merge linked, unlinked or left half linked
  outdated,         \* history: contacts given a removed lead, or that missed an answer
  kin,              \* history: contacts that merges have joined have one kin
  doubled,          \* history: contacts whose kin share a lead with others by a race
  disturbed,        \* history: contacts merged away while somebody was using them
  requests, faults  \* used up so far

contactVars == <<contact, into, lead, owner>>
crmVars == <<link, gone, done>>
historyVars == <<overlapped, uneven, outdated, kin, doubled, disturbed>>
countVars == <<requests, faults>>
vars == <<contactVars, stored, outbox, reading, req, call, crmVars, historyVars, countVars>>

NoTx == [contact |-> Nobody, linked |-> FALSE]
NoReq == [kind |-> "none", to |-> Nobody, from |-> Nobody, toLead |-> Nobody, fromLead |-> Nobody]
NoCall == [step |-> "idle", row |-> Nobody, contact |-> Nobody, lead |-> Nobody, answer |-> Nobody]

NewRow(c) == [status |-> "PENDING", holder |-> Nobody, contact |-> c]

Exists(r) == r \in DOMAIN outbox
Status(r) == outbox[r].status
Unsettled(r) == Exists(r) /\ Status(r) # "SUCCEEDED"
Holders(l) == {c \in Contacts : link[c] = l}
Kin(c) == {d \in Contacts : kin[d] = kin[c]}

(* In use: there, and never merged away, even if an overlapping request that had
   read it before has revived its status. *)
InUse(c) == contact[c] = "ACTIVE" /\ into[c] = Nobody

(* Contacts may be linked already, by a sync of long ago; some of the bounds may
   be used up. *)
Init ==
    /\ contact = [c \in Contacts |-> IF c \in Known THEN "ACTIVE" ELSE "NONE"]
    /\ into = [c \in Contacts |-> Nobody]
    /\ lead \in [Contacts -> Leads \cup {Nobody}]
    /\ \A c \in Contacts \ Known : lead[c] = Nobody
    /\ \A c, d \in Known : c # d /\ lead[c] # Nobody => lead[c] # lead[d]
    /\ owner = [c \in Known |-> c]
    /\ stored = [m \in Messages |-> Nobody]
    /\ outbox = <<>>
    /\ reading = [m \in Messages |-> NoTx]
    /\ req = [q \in Requests |-> NoReq]
    /\ call = [w \in Workers |-> NoCall]
    /\ link = lead /\ gone = {} /\ done = <<>> /\ kin = [c \in Contacts |-> c]
    /\ overlapped = {} /\ uneven = {} /\ outdated = {} /\ doubled = {} /\ disturbed = {}
    /\ requests \in 0..MaxRequests /\ faults \in 0..MaxFaults
-----------------------------------------------------------------------------
(* Inbound messages.  resolveContact() reads identity and contact; it then
   writes the identity, which waits for a merge that moves it, and goes on with
   the contact it read. *)
ReadSender(m) ==
    /\ stored[m] = Nobody /\ reading[m] = NoTx
    /\ LET c == owner[Sender[m]] IN
       reading' = [reading EXCEPT ![m] = [contact |-> c, linked |-> lead[c] # Nobody]]
    /\ UNCHANGED <<contactVars, stored, outbox, req, call, crmVars, historyVars, countVars>>

(* New rows; a row that is there stays what it is (skipDuplicates). *)
WithNew(rows, c) ==
    [r \in DOMAIN outbox \cup rows |-> IF Exists(r) THEN outbox[r] ELSE NewRow(c)]

(* queueInboundForCrm(): by what was read, the message is forwarded, or the one
   bootstrap of its contact is queued. *)
Intent(m) == IF reading[m].linked THEN History(m) ELSE Bootstrap(reading[m].contact)

StoreMessage(m) ==
    LET c == reading[m].contact
        same == reading[m].linked = (lead[c] # Nobody) /\ into[c] = Nobody IN
    /\ reading[m] # NoTx
    /\ stored' = [stored EXCEPT ![m] = c]
    /\ outbox' = WithNew({Intent(m)}, c)
    /\ reading' = [reading EXCEPT ![m] = NoTx]
    /\ overlapped' = IF same THEN overlapped ELSE overlapped \cup {m}
    /\ UNCHANGED <<contactVars, req, call, crmVars, uneven, outdated, kin, doubled,
                   disturbed, countVars>>
-----------------------------------------------------------------------------
(* Requests: each reads, takes a slot, and writes by what it read. *)
Ask(q, r) == /\ req[q] = NoReq /\ requests < MaxRequests
             /\ requests' = requests + 1
             /\ req' = [req EXCEPT ![q] = r]
             /\ UNCHANGED <<contactVars, stored, outbox, reading, call, crmVars, overlapped,
                            uneven, outdated, kin, doubled, disturbed, faults>>
Answered(q) == req' = [req EXCEPT ![q] = NoReq]

(* merge(): both contacts are read, MERGED ones refused. *)
AskMerge(q, p, s) ==
    /\ p # s /\ contact[p] = "ACTIVE" /\ contact[s] = "ACTIVE"
    /\ Ask(q, [kind |-> "merge", to |-> p, from |-> s, toLead |-> lead[p], fromLead |-> lead[s]])

(* resolvePrimary(): along mergedIntoContactId to the end; a cycle has none. *)
Closed(cs) == \A c \in cs : into[c] \in cs \cup {Nobody}
Way(c) == {d \in Contacts : \A cs \in SUBSET Contacts : c \in cs /\ Closed(cs) => d \in cs}
Ends(c) == {d \in Way(c) : into[d] = Nobody}
Primary(c) == IF Ends(c) = {} THEN Nobody ELSE CHOOSE d \in Ends(c) : TRUE

(* A run of the repair finds the primaries of all merged contacts first. *)
PlanRepair(q, p, s) ==
    /\ contact[s] = "MERGED" /\ contact[p] = "ACTIVE" /\ Primary(s) = p
    /\ Ask(q, [NoReq EXCEPT !.kind = "plan", !.to = p, !.from = s])

(* repair() of one of the pairs, which may be out of date: its transaction reads
   both contacts again, and checks their statuses alone. *)
ReadPair(q) ==
    LET p == req[q].to
        s == req[q].from IN
    /\ req[q].kind = "plan"
    /\ IF contact[s] = "MERGED" /\ contact[p] = "ACTIVE"
       THEN req' = [req EXCEPT ![q] = [kind |-> "repair", to |-> p, from |-> s,
                                       toLead |-> lead[p], fromLead |-> lead[s]]]
       ELSE Answered(q)
    /\ UNCHANGED <<contactVars, stored, outbox, reading, call, crmVars, historyVars, countVars>>

(* Others that have read s and have not written yet. *)
Awaited(s, q) ==
    \/ \E m \in Messages : reading[m].contact = s
    \/ \E other \in Requests \ {q} :
          req[other].kind # "plan" /\ s \in {req[other].to, req[other].from}

(* Does a merge join a linked and an unlinked contact, undo a link, or come
   while one is being made for the contact it takes away? *)
Uneven(q) ==
    LET p == req[q].to
        s == req[q].from
        leads == {req[q].toLead, req[q].fromLead, lead[p], lead[s]} IN
    \/ Nobody \in leads /\ leads # {Nobody}
    \/ {p, s} \cap uneven # {}
    \/ \E w \in Workers : call[w].contact = s /\ call[w].row \notin HistoryRows

(* Had one of the two been merged away by another merge? *)
Crossed(q) == \/ into[req[q].to] # Nobody
              \/ req[q].kind = "merge" /\ into[req[q].from] # Nobody

(* Mutant: a merge leaves its CRM operations with the contact merged away. *)
Mutant_OperationsStay(p, s) == outbox

(* crmOperation.updateMany() *)
MovedRows(p, s) ==
    [r \in DOMAIN outbox |-> [outbox[r] EXCEPT !.contact = IF @ = s THEN p ELSE @]]

(* What both do: all that the one contact has moves to the other, whose lead is
   `primary.crmLeadId ?? secondary.crmLeadId`, as read; Cyber Pulse is told. *)
Join(q, row, status) ==
    LET p == req[q].to
        s == req[q].from
        Moved(c) == IF c = s THEN p ELSE c
        joint == IF req[q].toLead # Nobody THEN req[q].toLead ELSE req[q].fromLead IN
    /\ owner' = [i \in Known |-> Moved(owner[i])]
    /\ stored' = [m \in Messages |-> Moved(stored[m])]
    /\ outbox' = [r \in DOMAIN outbox \cup {row} |->
                    LET moved == IF Exists(r) THEN MovedRows(p, s)[r] ELSE NewRow(p) IN
                    IF r = row THEN [moved EXCEPT !.status = status] ELSE moved]
    /\ lead' = [lead EXCEPT ![p] = joint]
    /\ into' = [into EXCEPT ![s] = p]
    /\ uneven' = IF Uneven(q) THEN uneven \cup {p} ELSE uneven
    /\ kin' = [c \in Contacts |-> IF kin[c] = kin[s] THEN kin[p] ELSE kin[c]]
    /\ doubled' = IF Crossed(q) \/ {p, s} \cap doubled # {}
                  THEN doubled \cup Kin(p) \cup Kin(s) ELSE doubled
    /\ outdated' = IF joint \in gone THEN outdated \cup {p} ELSE outdated
    /\ Answered(q)
    /\ UNCHANGED <<reading, call, crmVars, overlapped, countVars>>

(* merge(), its writes: a pair is merged once, the row's key is unique. *)
Merge(q) ==
    LET p == req[q].to
        s == req[q].from IN
    /\ req[q].kind = "merge"
    /\ IF Exists(MergeOf(p, s))
       THEN /\ Answered(q)
            /\ UNCHANGED <<contactVars, stored, outbox, reading, call, crmVars, historyVars,
                           countVars>>
       ELSE /\ Join(q, MergeOf(p, s), "PENDING")
            /\ contact' = [contact EXCEPT ![s] = "MERGED"]
            /\ disturbed' = disturbed \cup (IF Awaited(s, q) THEN {s} ELSE {})
                                      \cup (IF into[p] # Nobody THEN {p} ELSE {})

(* ensureCrmOperation(): made, or put back to RETRY, or left alone. *)
RepairStatus(r) == CASE ~Exists(r) -> "PENDING"
                     [] Exists(r) /\ Status(r) \in {"FAILED", "UNKNOWN"} -> "RETRY"
                     [] OTHER -> Status(r)

Repair(q) ==
    LET p == req[q].to
        s == req[q].from IN
    /\ req[q].kind = "repair"
    /\ Join(q, RepairOf(p, s), RepairStatus(RepairOf(p, s)))
    /\ disturbed' = (IF Awaited(s, q) THEN disturbed ELSE disturbed \ {s})
                    \cup (IF into[p] # Nobody THEN {p} ELSE {})
    /\ UNCHANGED contact

(* update(): MERGED contacts are refused, as read outside the transaction; a
   status given is written, and a sync queued. *)
AskEdit(q, c) ==
    /\ contact[c] = "ACTIVE" /\ ~Exists(Sync(c))
    /\ Ask(q, [NoReq EXCEPT !.kind = "edit", !.to = c])

Edit(q) ==
    /\ req[q].kind = "edit"
    /\ contact' \in {contact, [contact EXCEPT ![req[q].to] = "ACTIVE"]}
    /\ outbox' = WithNew({Sync(req[q].to)}, req[q].to)
    /\ Answered(q)
    /\ UNCHANGED <<into, lead, owner, stored, reading, call, crmVars, historyVars, countVars>>

(* Mutant: a snapshot inserts where it should look for its contact first. *)
Mutant_AlwaysInserts(l) == {}

(* upsert(), of a lead Cyber Pulse has or has just made: the contact is found by
   its lead alone; one found gets back the status it was read with.  An advisory
   lock keeps the snapshots of a lead apart, and nothing else. *)
FoundBy(l) == {c \in Contacts : contact[c] = "ACTIVE" /\ lead[c] = l}

Locked(l) == \E q \in Requests : req[q].kind = "snapshot" /\ req[q].toLead = l

AskSnapshot(q, c) ==
    /\ ~Locked(lead[c])
    /\ contact[c] = "ACTIVE" /\ lead[c] \notin gone \cup {Nobody} /\ c \in FoundBy(lead[c])
    /\ Ask(q, [NoReq EXCEPT !.kind = "snapshot", !.to = c, !.toLead = lead[c]])

Snapshot(q) ==
    /\ req[q].kind = "snapshot"
    /\ contact' = [contact EXCEPT ![req[q].to] = "ACTIVE"]
    /\ Answered(q)
    /\ UNCHANGED <<into, lead, owner, stored, outbox, reading, call, crmVars, historyVars,
                   countVars>>

(* If none is found, one is made, whether or not Cyber Pulse has the lead for
   another: its answer may be on the way. *)
Announce(c, l) ==
    /\ ~Locked(l)
    /\ contact[c] = "NONE" /\ l \notin gone /\ FoundBy(l) = {} /\ requests < MaxRequests
    /\ contact' = [contact EXCEPT ![c] = "ACTIVE"]
    /\ lead' = [lead EXCEPT ![c] = l]
    /\ link' = [link EXCEPT ![c] = l]
    /\ doubled' = IF Holders(l) = {} \/ \E d \in Contacts : InUse(d) /\ lead[d] = l
                  THEN doubled ELSE doubled \cup {c} \cup UNION {Kin(d) : d \in Holders(l)}
    /\ requests' = requests + 1
    /\ UNCHANGED <<into, owner, stored, outbox, reading, req, call, gone, done, overlapped, uneven,
                   outdated, kin, disturbed, faults>>

(* retryOperation(): FAILED, or UNKNOWN if the operator confirms. *)
OperatorRetry(r) ==
    /\ Status(r) \in {"FAILED", "UNKNOWN"} /\ requests < MaxRequests
    /\ outbox' = [outbox EXCEPT ![r].status = "PENDING"]
    /\ requests' = requests + 1
    /\ UNCHANGED <<contactVars, stored, reading, req, call, crmVars, historyVars, faults>>
-----------------------------------------------------------------------------
(* process(): the claim.  A lapsed row is taken over; that its worker still
   lives, the lease having begun with the scan, is a fault. *)
Attended(r) == \E w \in Workers : call[w].row = r /\ outbox[r].holder = w

(* The claim and the read of the operation, its contact and identities, which
   nothing between them can tell apart.  What names a channel needs an identity. *)
Claim(w, r) ==
    LET c == outbox[r].contact
        stolen == Status(r) = "PROCESSING" /\ Attended(r)
        bare == r \in HistoryRows /\ \A i \in Known : owner[i] # c IN
    /\ call[w] = NoCall /\ Status(r) \in {"PENDING", "RETRY", "PROCESSING"}
    /\ stolen => faults < MaxFaults
    /\ faults' = IF stolen THEN faults + 1 ELSE faults
    /\ outbox' = [outbox EXCEPT ![r].status = IF bare THEN "FAILED" ELSE "PROCESSING",
                                 ![r].holder = IF bare THEN Nobody ELSE w]
    /\ call' = IF bare THEN call
               ELSE [call EXCEPT ![w] = [step |-> "loaded", row |-> r, contact |-> c,
                                         lead |-> lead[c], answer |-> Nobody]]
    /\ UNCHANGED <<contactVars, stored, reading, req, crmVars, historyVars, requests>>

Holds(w, r) == outbox[r].holder = w /\ Status(r) = "PROCESSING"

(* The row is settled by its lease: if it is still held. *)
Settle(w, status) ==
    LET r == call[w].row IN
    outbox' = IF Holds(w, r)
              THEN [outbox EXCEPT ![r].status = status, ![r].holder = Nobody] ELSE outbox
-----------------------------------------------------------------------------
(* Cyber Pulse.  A lead is found by the contact's link, or made for a contact
   that names none; a merge keeps one lead of the two and removes the other. *)
Fresh == {l \in Leads : l \notin gone /\ Holders(l) = {}}

FindsLead(c, known, l) ==
    /\ IF link[c] # Nobody THEN l = link[c] ELSE known = Nobody /\ l \in Fresh
    /\ link' = [link EXCEPT ![c] = l]
    /\ UNCHANGED gone

MergesLeads(p, s, l) ==
    LET both == {link[p], link[s]} \ {Nobody} IN
    /\ l \in IF both = {} THEN {Nobody} ELSE both
    /\ link' = [c \in Contacts |-> IF c \in {p, s} \/ link[c] \in both THEN l ELSE link[c]]
    /\ gone' = gone \cup (both \ {l})

Applied(r, c, known, l) ==
    CASE r \in LeadRows -> FindsLead(c, known, l)
      [] r \in MergeRows -> MergesLeads(r[2], r[3], l)
      [] OTHER -> l = Nobody /\ UNCHANGED <<link, gone>>

(* What a row asks for is done, or its answer repeated; the answer arrives, or it
   is lost and resolveUnknown() does not find it: the row is not known.  Or it
   finds it still in progress, which counts as a fault here: it is retried.  FAILED
   and UNKNOWN rows fare the same, so one of them stands for both. *)
Answers(w) ==
    LET r == call[w].row IN
    /\ call[w].step = "loaded"
    /\ \E l \in Leads \cup {Nobody} :
          /\ IF r \in DOMAIN done
             THEN l = done[r] /\ UNCHANGED crmVars
             ELSE /\ Applied(r, call[w].contact, call[w].lead, l)
                  /\ done' = [x \in DOMAIN done \cup {r} |-> IF x = r THEN l ELSE done[x]]
          /\ \/ /\ call' = [call EXCEPT ![w].step = "answered", ![w].answer = l]
                /\ UNCHANGED <<outbox, faults>>
             \/ /\ Settle(w, "UNKNOWN")
                /\ call' = [call EXCEPT ![w] = NoCall]
                /\ UNCHANGED faults
             \/ /\ Settle(w, "RETRY") /\ faults < MaxFaults
                /\ call' = [call EXCEPT ![w] = NoCall]
                /\ faults' = faults + 1
    /\ UNCHANGED <<contactVars, stored, reading, req, historyVars, requests>>

(* Nothing is done: retried, attempts permitting, or given up. *)
Refuses(w) ==
    /\ call[w].step = "loaded"
    /\ \E status \in {"RETRY", "FAILED"} : Settle(w, status)
    /\ call' = [call EXCEPT ![w] = NoCall]
    /\ UNCHANGED <<contactVars, stored, reading, req, crmVars, historyVars, countVars>>
-----------------------------------------------------------------------------
(* Mutant: only the bootstrap of a contact queues its history, not an edit's sync. *)
Mutant_BootstrapOnly(w) ==
    call[w].row \in {Bootstrap(c) : c \in Contacts} /\ call[w].lead = Nobody

(* Mutant: the answer of a merge is not written to its contact. *)
Mutant_MergeAnswerDropped(r) == r \in LeadRows

(* finishSuccess(): the contact read at the start gets the lead, and if it was
   unlinked then and this was a lead row, all its messages are queued; only the
   row's own status asks for the lease. *)
CarriesLead(r) == r \in LeadRows \cup MergeRows
Linking(w) == call[w].row \in LeadRows /\ call[w].lead = Nobody
Backfill(w) == {History(m) : m \in {x \in Messages : stored[x] = call[w].contact}}

FinishSuccess(w) ==
    LET r == call[w].row
        c == call[w].contact
        l == call[w].answer
        links == CarriesLead(r) /\ l # Nobody
        all == IF Linking(w) THEN WithNew(Backfill(w), c) ELSE outbox IN
    /\ call[w].step = "answered"
    /\ lead' = IF links THEN [lead EXCEPT ![c] = l] ELSE lead
    /\ outbox' = IF Holds(w, r) THEN [all EXCEPT ![r].status = "SUCCEEDED", ![r].holder = Nobody]
                                ELSE all
    /\ call' = [call EXCEPT ![w] = NoCall]
    /\ uneven' = IF r \in MergeRows /\ links /\ lead[c] = Nobody THEN uneven \cup {c} ELSE uneven
    /\ outdated' = outdated \cup (IF links /\ l \in gone THEN {c} ELSE {})
                            \cup (IF links /\ into[c] # Nobody THEN Kin(c) ELSE {})
    /\ UNCHANGED <<contact, into, owner, stored, reading, req, crmVars, overlapped, kin,
                   doubled, disturbed, countVars>>

(* The transaction of finishSuccess() fails: it stands inside the try block. *)
FinishFails(w) ==
    /\ call[w].step = "answered" /\ faults < MaxFaults
    /\ \E status \in {"RETRY", "FAILED"} : Settle(w, status)
    /\ call' = [call EXCEPT ![w] = NoCall]
    /\ faults' = faults + 1
    /\ UNCHANGED <<contactVars, stored, reading, req, crmVars, historyVars, requests>>

(* A crash, or an exception outside the try block: the row waits for its lease. *)
Crash(w) ==
    /\ call[w] # NoCall /\ faults < MaxFaults
    /\ call' = [call EXCEPT ![w] = NoCall]
    /\ faults' = faults + 1
    /\ UNCHANGED <<contactVars, stored, outbox, reading, req, crmVars, historyVars, requests>>
-----------------------------------------------------------------------------
RequestStep ==
    \/ \E q \in Requests :
          \/ \E p, s \in Contacts : AskMerge(q, p, s) \/ PlanRepair(q, p, s)
          \/ \E c \in Contacts : AskEdit(q, c) \/ AskSnapshot(q, c)
          \/ Merge(q) \/ ReadPair(q) \/ Repair(q) \/ Edit(q) \/ Snapshot(q)
    \/ \E c \in Contacts, l \in Leads : Announce(c, l)
    \/ \E r \in DOMAIN outbox : OperatorRetry(r)

ScanStep ==
    \E w \in Workers :
        \/ \E r \in DOMAIN outbox : Claim(w, r)
        \/ Answers(w) \/ Refuses(w) \/ FinishSuccess(w) \/ FinishFails(w) \/ Crash(w)

Next == \/ \E m \in Messages : ReadSender(m) \/ StoreMessage(m)
        \/ RequestStep
        \/ ScanStep

Spec == Init /\ [][Next]_vars
-----------------------------------------------------------------------------
(* A message of an unlinked contact is not forgotten: it is queued for Cyber
   Pulse, or its contact is unlinked and a lead row of it still stands to queue
   it (finishSuccess(), queueInboundForCrm()).  Left out are messages whose
   transaction overlapped a change of their contact, and contacts a merge left
   half linked. *)
StillLinks(c) == lead[c] = Nobody /\ \E r \in LeadRows : Unsettled(r) /\ outbox[r].contact = c

HistoryIsQueued ==
    \A m \in Messages : stored[m] # Nobody =>
        Exists(History(m)) \/ StillLinks(stored[m]) \/ m \in overlapped \/ stored[m] \in uneven

(* A contact in use does not keep a lead that Cyber Pulse has removed, unless the
   row of the merge that removed it still stands to replace it.  Left out are
   contacts that got it late, or whose answer went to a contact merged into them
   meanwhile, and those that shared it. *)
DeadLeadIsMended ==
    \A c \in Contacts : InUse(c) /\ lead[c] \in gone =>
        \/ \E r \in MergeRows : Unsettled(r) /\ outbox[r].contact = c
        \/ c \in outdated \/ c \in doubled

(* No two contacts in use stand for one lead, unless Cyber Pulse announced
   the lead before the answer that made it was recorded, or merges overlapped. *)
OneContactPerLead ==
    \A c, d \in Contacts : c # d /\ InUse(c) /\ InUse(d) /\ lead[c] # Nobody =>
        lead[c] # lead[d] \/ {c, d} \cap doubled # {}

(* Nothing is left with a contact that was merged away: no channel, no message,
   no operation; and mergedIntoContactId leads to a contact that is there.  Left
   out are contacts merged while somebody was using them. *)
HasNothing(c) ==
    /\ \A i \in Known : owner[i] # c
    /\ \A m \in Messages : stored[m] # c
    /\ \A r \in DOMAIN outbox : outbox[r].contact # c

NothingLeftBehind ==
    \A c \in Contacts : contact[c] = "MERGED" =>
        /\ HasNothing(c) \/ c \in disturbed
        /\ Primary(c) # Nobody \/ Way(c) \cap disturbed # {}
=============================================================================
