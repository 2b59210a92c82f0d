-------------------------------- MODULE Email --------------------------------
(***************************************************************************)
(* E-mail: one campaign, its letters and the letters outside it, worked on *)
(* by the drain loops of the workers, with what the API's controls,        *)
(* suppressions and Resend's events change under them.                     *)
(*                                                                         *)
(* A letter has no token of its own: lockedBy names the worker, which does *)
(* one thing at a time, and only the lease check before the call and       *)
(* failDelivery() look at it.  A second call for a letter is harmless as   *)
(* long as Resend remembers its idempotency key, the letter's id.          *)
(***************************************************************************)
EXTENDS Naturals, FiniteSets

CONSTANTS Letters,      \* EmailDelivery rows that can come to be
          Source,         \* of each: "CAMPAIGN", "MANUAL" or "TEST"
          Address,        \* of each: normalizedEmail
          Workers, Nobody,
          Events,         \* kinds of Resend events that occur
          MaxAttempts,    \* EmailDelivery.maxAttempts
          MaxRequests,    \* bound: requests of the API's users
          MaxFaults       \* bound: crashes, failed statements, frozen owners

(* STATUS_PRIORITY of the webhook; UNKNOWN has no entry. *)
Priority == [PENDING |-> 0, PROCESSING |-> 10, RETRY |-> 10, UNKNOWN |-> 0, SENT |-> 40,
             DELIVERY_DELAYED |-> 45, DELIVERED |-> 50, OPENED |-> 60, CLICKED |-> 70,
             BOUNCED |-> 90, FAILED |-> 90, COMPLAINED |-> 100, SUPPRESSED |-> 100,
             CANCELLED |-> 100]

EventKinds == {"SENT", "DELIVERY_DELAYED", "DELIVERED", "OPENED", "CLICKED",
               "BOUNCED", "FAILED", "COMPLAINED", "SUPPRESSED"}
Statuses == DOMAIN Priority
Waiting == {"PENDING", "RETRY"}
Unfinished == {"PENDING", "PROCESSING", "RETRY"}

ASSUME EmailAssumption ==
    /\ IsFiniteSet(Letters) /\ IsFiniteSet(Workers) /\ Nobody \notin Workers
    /\ "NONE" \notin Letters \cup Workers /\ "WEBHOOK" \notin Workers
    /\ \A l \in Letters : Source[l] \in {"CAMPAIGN", "MANUAL", "TEST"} /\ l \in DOMAIN Address
    /\ Events \subseteq EventKinds
    /\ MaxAttempts \in Nat \ {0} /\ MaxRequests \in Nat /\ MaxFaults \in Nat

Members == {l \in Letters : Source[l] = "CAMPAIGN"}
Addresses == {Address[l] : l \in Letters}

VARIABLES
  campaign,           \* EmailCampaign.status
  preparation,        \* preparationLockedAt, or if that is null updatedAt: older than the lease?
  status, attempts,   \* EmailDelivery ("NONE": no such row)
  holder, old,        \* lockedBy; lockedAt is older than the lease
  age,                \* firstAttemptAt: 0 null, 1 within 23 hours, 2 longer ago
  key,                \* Resend and the letter's idempotency key: "NEW", "KEPT", "FORGOTTEN"
  mailed,             \* Resend: how often it sent this letter
  events, local,      \* EmailEvent: kinds stored from Resend; local:sent is stored
  told,               \* CRM operations that announce the letter as sent
  open,               \* the transaction that holds the letter's advisory lock
  suppressed,         \* EmailSuppression: addresses
  work,               \* drain() in progress
  asked,              \* requests between their check and their write
  slipped, begun,     \* history: workers past their check when the address was suppressed;
                      \* workers with a letter in hand when the campaign was cancelled
  outdated,           \* history: workers about to complete the campaign when letters were
                      \* added to it or retried
  slow,               \* history: letters whose key was forgotten under a worker, or whose
                      \* first attempt was stamped twice
  requests, faults    \* used up so far

campaignVars == <<campaign, preparation>>
leaseVars == <<attempts, holder, old>>
resendVars == <<age, key, mailed, slow>>
eventVars == <<events, local, told, open>>
raceVars == <<slipped, begun, outdated>>
vars == <<campaignVars, status, leaseVars, resendVars, eventVars, suppressed, work,
          asked, raceVars, requests, faults>>

NoTx == [by |-> "NONE", kind |-> "NONE", seen |-> "NONE"]
Idle == [step |-> "idle", letter |-> "NONE", seen |-> "NONE", first |-> FALSE,
         why |-> "NONE", rows |-> {}]

Init ==
    /\ campaign = "DRAFT" /\ preparation = "FREE"
    /\ status = [l \in Letters |-> "NONE"]
    /\ attempts = [l \in Letters |-> 0]
    /\ holder = [l \in Letters |-> Nobody]
    /\ old = [l \in Letters |-> FALSE]
    /\ age = [l \in Letters |-> 0]
    /\ key = [l \in Letters |-> "NEW"]
    /\ mailed = [l \in Letters |-> 0]
    /\ events = [l \in Letters |-> {}]
    /\ local = [l \in Letters |-> FALSE]
    /\ told = [l \in Letters |-> 0]
    /\ open = [l \in Letters |-> NoTx]
    /\ suppressed = {}
    /\ work = [w \in Workers |-> Idle]
    /\ asked = [launch |-> 0, cancel |-> 0, revive |-> 0]
    /\ slipped = {} /\ begun = {} /\ outdated = {} /\ slow = {}
    /\ requests = 0 /\ faults = 0

Fault == faults < MaxFaults /\ faults' = faults + 1
Ask == requests < MaxRequests /\ requests' = requests + 1

(* Any write of the campaign row renews updatedAt, but not preparationLockedAt. *)
Touched == IF preparation = "QUIET" THEN "FREE" ELSE preparation
Calls == {"checked", "stamping", "calling"}
At(w, s) == work[w].step = s
Goes(w, s) == work' = [work EXCEPT ![w].step = s]
Fails(w, why) == work' = [work EXCEPT ![w].step = "fail", ![w].why = why]
Rests(w) ==
    /\ work' = [work EXCEPT ![w] = Idle]
    /\ begun' = begun \ {w}
    /\ outdated' = outdated \ {w}
Completing == {w \in Workers : At(w, "complete")}
NoneOf(S) == \A l \in Members : status[l] \notin S
-----------------------------------------------------------------------------
(* The campaign: promotion, preparation, completion. *)

Promote ==
    /\ campaign = "SCHEDULED"
    /\ campaign' = "PREPARING"
    /\ preparation' = Touched
    /\ UNCHANGED <<status, leaseVars, resendVars, eventVars, suppressed, work, asked,
                   raceVars, requests, faults>>

ClaimCampaign(w) ==
    /\ At(w, "idle")
    /\ campaign = "PREPARING"
    /\ campaign' = "RUNNING"
    /\ preparation' = "LOCKED"
    /\ Goes(w, "snapshot")
    /\ UNCHANGED <<status, leaseVars, resendVars, eventVars, suppressed, asked, raceVars,
                   requests, faults>>

(* One contact for each address that is not suppressed; the query has no order,
   so of two contacts with one address either may come first. *)
ReadAudience(w) ==
    /\ At(w, "snapshot")
    /\ \E rows \in SUBSET {l \in Members : Address[l] \notin suppressed} :
          /\ \A l \in Members : Address[l] \notin suppressed =>
                Cardinality({r \in rows : Address[r] = Address[l]}) = 1
          /\ work' = [work EXCEPT ![w].step = "create", ![w].rows = rows]
    /\ UNCHANGED <<campaignVars, status, leaseVars, resendVars, eventVars, suppressed, asked,
                   raceVars, requests, faults>>

(* createMany with skipDuplicates: a contact has one row in a campaign. *)
CreateRows(w) ==
    /\ At(w, "create")
    /\ status' = [l \in Letters |->
          IF l \in work[w].rows /\ status[l] = "NONE" THEN "PENDING" ELSE status[l]]
    /\ Goes(w, "unlock")
    /\ outdated' = outdated \cup Completing
    /\ UNCHANGED <<campaignVars, leaseVars, resendVars, eventVars, suppressed, asked,
                   slipped, begun, requests, faults>>

Unlock(w) ==
    /\ At(w, "unlock")
    /\ preparation' = "FREE"
    /\ work' = [work EXCEPT ![w] = [Idle EXCEPT !.step = "finish"]]
    /\ UNCHANGED <<campaign, status, leaseVars, resendVars, eventVars, suppressed, asked,
                   raceVars, requests, faults>>

Prepares(w) == ~At(w, "idle") /\ work[w].letter = "NONE"

(* The catch clause of prepareCampaigns(): a segment that is gone, or the
   database.  It writes by id, whatever the campaign has become. *)
PrepareFails(w) ==
    /\ Prepares(w)
    /\ IF At(w, "snapshot") THEN UNCHANGED faults ELSE Fault
    /\ campaign' = "FAILED"
    /\ preparation' = "FREE"
    /\ Rests(w)
    /\ UNCHANGED <<status, leaseVars, resendVars, eventVars, suppressed, asked, slipped, requests>>

(* finishCampaignIfComplete(): three statements of their own. *)
FinishReads(w) ==
    /\ At(w, "finish")
    /\ IF campaign = "RUNNING" /\ work[w].letter \in Members \cup {"NONE"}
       THEN Goes(w, "count") /\ UNCHANGED <<begun, outdated>>
       ELSE Rests(w)
    /\ UNCHANGED <<campaignVars, status, leaseVars, resendVars, eventVars, suppressed, asked,
                   slipped, requests, faults>>

(* Bug: a letter that waits for its next attempt is not counted. *)
Mutant_CountsNoRetry(w) ==
    /\ At(w, "count")
    /\ IF NoneOf({"PENDING", "PROCESSING"})
       THEN Goes(w, "complete") /\ UNCHANGED <<begun, outdated>>
       ELSE Rests(w)
    /\ UNCHANGED <<campaignVars, status, leaseVars, resendVars, eventVars, suppressed, asked,
                   slipped, requests, faults>>

FinishCounts(w) ==
    /\ At(w, "count")
    /\ IF NoneOf(Unfinished)
       THEN Goes(w, "complete") /\ UNCHANGED <<begun, outdated>>
       ELSE Rests(w)
    /\ UNCHANGED <<campaignVars, status, leaseVars, resendVars, eventVars, suppressed, asked,
                   slipped, requests, faults>>

Complete(w) ==
    /\ At(w, "complete")
    /\ campaign' = "COMPLETED"
    /\ preparation' = Touched
    /\ Rests(w)
    /\ UNCHANGED <<status, leaseVars, resendVars, eventVars, suppressed, asked, slipped,
                   requests, faults>>
-----------------------------------------------------------------------------
(* A letter on its way: drain(), processDelivery(). *)

(* A test or a manual or automated letter joins the queue; for the latter two
   the API has looked at the suppressions. *)
QueueLetter(l) ==
    /\ status[l] = "NONE" /\ l \notin Members
    /\ Source[l] = "MANUAL" => Address[l] \notin suppressed
    /\ status' = [status EXCEPT ![l] = "PENDING"]
    /\ UNCHANGED <<campaignVars, leaseVars, resendVars, eventVars, suppressed, work, asked,
                   raceVars, requests, faults>>

(* Bug: the claim does not look at the campaign. *)
Mutant_ChooseAnyCampaign(w, l) ==
    /\ At(w, "idle")
    /\ status[l] \in Waiting
    /\ work' = [work EXCEPT ![w] = [Idle EXCEPT !.step = "chosen", !.letter = l, !.seen = status[l]]]
    /\ UNCHANGED <<campaignVars, status, leaseVars, resendVars, eventVars, suppressed, asked,
                   raceVars, requests, faults>>

(* claimDelivery(): findFirst ... *)
Choose(w, l) ==
    /\ At(w, "idle")
    /\ status[l] \in Waiting
    /\ l \in Members => campaign = "RUNNING"
    /\ work' = [work EXCEPT ![w] = [Idle EXCEPT !.step = "chosen", !.letter = l, !.seen = status[l]]]
    /\ UNCHANGED <<campaignVars, status, leaseVars, resendVars, eventVars, suppressed, asked,
                   raceVars, requests, faults>>

(* ... and the UPDATE, which only compares the status. *)
Take(w) ==
    /\ At(w, "chosen")
    /\ LET l == work[w].letter IN
       IF status[l] = work[w].seen
       THEN /\ status' = [status EXCEPT ![l] = "PROCESSING"]
            /\ attempts' = [attempts EXCEPT ![l] = IF @ < MaxAttempts THEN @ + 1 ELSE @]
            /\ holder' = [holder EXCEPT ![l] = w]
            /\ old' = [old EXCEPT ![l] = FALSE]
            /\ Goes(w, "taken")
            /\ UNCHANGED <<begun, outdated>>
       ELSE Rests(w) /\ UNCHANGED <<status, leaseVars>>
    /\ UNCHANGED <<campaignVars, resendVars, eventVars, suppressed, asked, slipped, requests, faults>>

(* Bug: trusts the snapshot of the audience. *)
Mutant_EligibleAnyone(l) == status[l] # "SUPPRESSED"

Eligible(l) == Source[l] = "TEST" \/ Address[l] \notin suppressed

(* Bug: sends again after any time. *)
Mutant_InspectIgnoresAge(w) ==
    /\ At(w, "taken")
    /\ LET l == work[w].letter IN
       CASE ~Eligible(l) -> Fails(w, "suppressed")
         [] OTHER -> work' = [work EXCEPT ![w].step = "checked", ![w].first = (age[l] = 0)]
    /\ slipped' = slipped \ {w}
    /\ UNCHANGED <<campaignVars, status, leaseVars, resendVars, eventVars, suppressed, asked,
                   begun, outdated, requests, faults>>

(* The reads up to the rendered letter: the 23 hours, the mailbox, the project,
   assertEligible(), the attachments.  Any of the last may fail for good or for now. *)
Inspect(w) ==
    /\ At(w, "taken")
    /\ LET l == work[w].letter IN
       CASE age[l] = 2 -> Fails(w, "unknown")
         [] age[l] < 2 /\ ~Eligible(l) -> Fails(w, "suppressed")
         [] OTHER -> \/ work' = [work EXCEPT ![w].step = "checked", ![w].first = (age[l] = 0)]
                     \/ \E why \in {"refused", "retry"} : Fails(w, why)
                     \/ l \in Members /\ Fails(w, "suppressed")
    /\ slipped' = slipped \ {w}
    /\ UNCHANGED <<campaignVars, status, leaseVars, resendVars, eventVars, suppressed, asked,
                   begun, outdated, requests, faults>>

Holds(w, l) == status[l] = "PROCESSING" /\ holder[l] = w

(* The lease check just before the call. *)
RenewLease(w) ==
    /\ At(w, "checked")
    /\ LET l == work[w].letter IN
       IF Holds(w, l)
       THEN /\ old' = [old EXCEPT ![l] = FALSE]
            /\ Goes(w, IF work[w].first THEN "stamping" ELSE "calling")
       ELSE Goes(w, "finish") /\ UNCHANGED old
    /\ UNCHANGED <<campaignVars, status, attempts, holder, resendVars, eventVars, suppressed,
                   asked, raceVars, requests, faults>>

(* firstAttemptAt and the snapshot of the letter, by id. *)
StampFirst(w) ==
    /\ At(w, "stamping")
    /\ LET l == work[w].letter IN
       /\ age' = [age EXCEPT ![l] = 1]
       /\ slow' = IF age[l] # 0 THEN slow \cup {l} ELSE slow
    /\ Goes(w, "calling")
    /\ UNCHANGED <<campaignVars, status, leaseVars, key, mailed, eventVars, suppressed, asked,
                   raceVars, requests, faults>>

(* Resend: a key it remembers gets the answer of the first call and no second mail. *)
Delivers(l) ==
    /\ mailed' = [mailed EXCEPT ![l] = IF key[l] = "KEPT" THEN @ ELSE @ + 1]
    /\ key' = [key EXCEPT ![l] = "KEPT"]

SendAccepted(w) ==
    /\ At(w, "calling")
    /\ Delivers(work[w].letter)
    /\ Goes(w, "sent")
    /\ UNCHANGED <<campaignVars, status, leaseVars, age, slow, eventVars, suppressed, asked,
                   raceVars, requests, faults>>

SendUnanswered(w) ==
    /\ At(w, "calling")
    /\ Fault
    /\ Delivers(work[w].letter)
    /\ Fails(w, "retry")
    /\ UNCHANGED <<campaignVars, status, leaseVars, age, slow, eventVars, suppressed, asked,
                   raceVars, requests>>

SendRefused(w) ==
    /\ At(w, "calling")
    /\ \/ Fails(w, "retry")
       \/ key[work[w].letter] # "KEPT" /\ Fails(w, "refused")
    /\ UNCHANGED <<campaignVars, status, leaseVars, resendVars, eventVars, suppressed, asked,
                   raceVars, requests, faults>>

(* markSent(): under the advisory lock, but others write the row without it. *)
MarkReads(w) ==
    /\ At(w, "sent")
    /\ LET l == work[w].letter IN
       /\ open[l] = NoTx
       /\ open' = [open EXCEPT ![l] = [by |-> w, kind |-> "local", seen |-> status[l]]]
    /\ Goes(w, "marking")
    /\ UNCHANGED <<campaignVars, status, leaseVars, resendVars, events, local, told, suppressed,
                   asked, raceVars, requests, faults>>

(* The CRM row of local:sent has a fixed idempotency key: a second one breaks it,
   and the transaction with it. *)
AnnouncedBefore(l) == local[l] /\ "SENT" \notin events[l]

MarkWrites(w) ==
    /\ At(w, "marking")
    /\ LET l == work[w].letter
           seen == open[l].seen
       IN /\ ~AnnouncedBefore(l)
          /\ status' = [status EXCEPT ![l] = IF seen \in Unfinished \cup {"UNKNOWN"} THEN "SENT" ELSE seen]
          /\ holder' = [holder EXCEPT ![l] = Nobody]
          /\ local' = [local EXCEPT ![l] = TRUE]
          /\ told' = [told EXCEPT ![l] = IF "SENT" \in events[l] THEN @ ELSE @ + 1]
          /\ open' = [open EXCEPT ![l] = NoTx]
    /\ Goes(w, "finish")
    /\ UNCHANGED <<campaignVars, attempts, old, resendVars, events, suppressed, asked, raceVars,
                   requests, faults>>

MarkThrows(w) ==
    /\ At(w, "marking")
    /\ \/ AnnouncedBefore(work[w].letter) /\ UNCHANGED faults
       \/ Fault
    /\ open' = [open EXCEPT ![work[w].letter] = NoTx]
    /\ Fails(w, "retry")
    /\ UNCHANGED <<campaignVars, status, leaseVars, resendVars, events, local, told, suppressed,
                   asked, raceVars, requests>>

(* failDelivery(): an attempt that may have reached Resend ends in UNKNOWN. *)
FailedStatus(l, why) ==
    CASE why = "unknown" -> "UNKNOWN"
      [] why = "suppressed" -> "SUPPRESSED"
      [] why = "refused" -> "FAILED"
      [] attempts[l] < MaxAttempts -> "RETRY"
      [] OTHER -> IF age[l] # 0 THEN "UNKNOWN" ELSE "FAILED"

FailLetter(w) ==
    /\ At(w, "fail")
    /\ LET l == work[w].letter IN
       IF Holds(w, l)
       THEN /\ status' = [status EXCEPT ![l] = FailedStatus(l, work[w].why)]
            /\ holder' = [holder EXCEPT ![l] = Nobody]
       ELSE UNCHANGED <<status, holder>>
    /\ work' = [work EXCEPT ![w].step = "finish", ![w].why = "NONE"]
    /\ UNCHANGED <<campaignVars, attempts, old, resendVars, eventVars, suppressed, asked, raceVars,
                   requests, faults>>
-----------------------------------------------------------------------------
(* Recovery, time, faults. *)

Heartbeat(w) ==
    /\ work[w].step \notin {"idle", "chosen", "snapshot", "create", "unlock", "finish"}
    /\ work[w].letter # "NONE"
    /\ Holds(w, work[w].letter) /\ old[work[w].letter]
    /\ old' = [old EXCEPT ![work[w].letter] = FALSE]
    /\ UNCHANGED <<campaignVars, status, attempts, holder, resendVars, eventVars, suppressed, work,
                   asked, raceVars, requests, faults>>

(* Bug: only the letters of campaigns are recovered. *)
Mutant_RecoverCampaigns ==
    /\ \E w \in Workers : At(w, "idle")
    /\ LET stale == {l \in Members : status[l] = "PROCESSING" /\ old[l]} IN
       /\ stale # {}
       /\ status' = [l \in Letters |-> IF l \in stale THEN "RETRY" ELSE status[l]]
       /\ holder' = [l \in Letters |-> IF l \in stale THEN Nobody ELSE holder[l]]
       /\ old' = [l \in Letters |-> old[l] /\ l \notin stale]
    /\ UNCHANGED <<campaignVars, attempts, resendVars, eventVars, suppressed, work, asked,
                   raceVars, requests, faults>>

(* recoverStaleWork(), at the start of a drain. *)
RecoverLetters ==
    /\ \E w \in Workers : At(w, "idle")
    /\ LET stale == {l \in Letters : status[l] = "PROCESSING" /\ old[l]} IN
       /\ stale # {}
       /\ status' = [l \in Letters |-> IF l \in stale THEN "RETRY" ELSE status[l]]
       /\ holder' = [l \in Letters |-> IF l \in stale THEN Nobody ELSE holder[l]]
       /\ old' = [l \in Letters |-> old[l] /\ l \notin stale]
    /\ UNCHANGED <<campaignVars, attempts, resendVars, eventVars, suppressed, work, asked,
                   raceVars, requests, faults>>

(* Bug: misses a campaign whose lock was released. *)
Mutant_AbandonedLocked ==
    campaign = "RUNNING" /\ preparation = "LAPSED" /\ NoneOf(Statuses)

Abandoned ==
    campaign = "RUNNING" /\ preparation \in {"LAPSED", "QUIET"} /\ NoneOf(Statuses)

RecoverCampaign ==
    /\ \E w \in Workers : At(w, "idle")
    /\ Abandoned
    /\ campaign' = "PREPARING"
    /\ preparation' = "FREE"
    /\ UNCHANGED <<status, leaseVars, resendVars, eventVars, suppressed, work, asked, raceVars,
                   requests, faults>>

Attended(l) == \E w \in Workers : Holds(w, l) /\ work[w].letter = l

(* A lease runs out when its worker is gone; under a living one only if that is
   frozen, as the heartbeat renews it. *)
LeaseLapses(l) ==
    /\ status[l] = "PROCESSING" /\ ~old[l]
    /\ IF Attended(l) THEN Fault ELSE UNCHANGED faults
    /\ old' = [old EXCEPT ![l] = TRUE]
    /\ UNCHANGED <<campaignVars, status, attempts, holder, resendVars, eventVars, suppressed, work,
                   asked, raceVars, requests>>

(* The lease is minutes long: only a frozen worker lets it run out. *)
PreparationAges ==
    /\ campaign = "RUNNING"
    /\ \/ preparation = "LOCKED" /\ preparation' = "LAPSED"
       \/ preparation = "FREE" /\ preparation' = "QUIET"
    /\ IF \E w \in Workers : Prepares(w) THEN Fault ELSE UNCHANGED faults
    /\ UNCHANGED <<campaign, status, leaseVars, resendVars, eventVars, suppressed, work, asked,
                   raceVars, requests>>

HoursPass(l) ==
    /\ age[l] = 1
    /\ age' = [age EXCEPT ![l] = 2]
    /\ UNCHANGED <<campaignVars, status, leaseVars, key, mailed, slow, eventVars, suppressed, work,
                   asked, raceVars, requests, faults>>

(* Resend keeps a key for 24 hours, one more than firstAttemptAt may be old. *)
KeyForgotten(l) ==
    /\ key[l] = "KEPT"
    /\ age[l] = 2 \/ l \in slow
    /\ key' = [key EXCEPT ![l] = "FORGOTTEN"]
    /\ slow' = IF \E w \in Workers : work[w].letter = l /\ work[w].step \in Calls
               THEN slow \cup {l} ELSE slow
    /\ UNCHANGED <<campaignVars, status, leaseVars, age, mailed, eventVars, suppressed, work,
                   asked, raceVars, requests, faults>>

(* The process dies; the one that follows has another lockedBy. *)
Crash(w) ==
    /\ ~At(w, "idle")
    /\ Fault
    /\ open' = [l \in Letters |-> IF open[l].by = w THEN NoTx ELSE open[l]]
    /\ Rests(w)
    /\ UNCHANGED <<campaignVars, status, leaseVars, resendVars, events, local, told, suppressed,
                   asked, slipped, requests>>
-----------------------------------------------------------------------------
(* The API: requests of its users.  A request that reads before it writes is in
   `asked' between the two. *)

Requested(op) == asked' = [asked EXCEPT ![op] = @ + 1]
Writes(op) == asked[op] > 0 /\ asked' = [asked EXCEPT ![op] = @ - 1]

ReadLaunch ==
    /\ Ask
    /\ campaign \in {"DRAFT", "FAILED"}
    /\ Requested("launch")
    /\ UNCHANGED <<campaignVars, status, leaseVars, resendVars, eventVars, suppressed, work,
                   raceVars, faults>>

Launch ==
    /\ Writes("launch")
    /\ campaign' \in {"SCHEDULED", "PREPARING"}
    /\ preparation' = Touched
    /\ UNCHANGED <<status, leaseVars, resendVars, eventVars, suppressed, work, raceVars,
                   requests, faults>>

(* pauseCampaign(), resumeCampaign(): conditional, in one statement. *)
Transition(from, to) ==
    /\ campaign = from /\ campaign' = to
    /\ preparation' = Touched
    /\ UNCHANGED <<status, leaseVars, resendVars, eventVars, suppressed, work, asked, raceVars, faults>>

Pause == Ask /\ Transition("RUNNING", "PAUSED")
Resume == Transition("PAUSED", "RUNNING") /\ UNCHANGED requests

ReadCancel ==
    /\ Ask
    /\ campaign \in {"DRAFT", "SCHEDULED", "PREPARING", "RUNNING", "PAUSED"}
    /\ Requested("cancel")
    /\ UNCHANGED <<campaignVars, status, leaseVars, resendVars, eventVars, suppressed, work,
                   raceVars, faults>>

Cancel ==
    /\ Writes("cancel")
    /\ status' = [l \in Letters |->
          IF l \in Members /\ status[l] \in Waiting THEN "CANCELLED" ELSE status[l]]
    /\ campaign' = "CANCELLED"
    /\ preparation' = Touched
    /\ begun' = {w \in Workers : work[w].letter # "NONE"}
    /\ UNCHANGED <<leaseVars, resendVars, eventVars, suppressed, work, slipped, outdated, requests, faults>>

(* retryFailed(): the letters, whatever the campaign is, then the campaign. *)
RetryFailed ==
    LET failed == {l \in Members : status[l] \in {"FAILED", "BOUNCED", "SUPPRESSED"}} IN
    /\ Ask
    /\ failed # {}
    /\ status' = [l \in Letters |-> IF l \in failed THEN "PENDING" ELSE status[l]]
    /\ attempts' = [l \in Letters |-> IF l \in failed THEN 0 ELSE attempts[l]]
    /\ outdated' = outdated \cup Completing
    /\ Requested("revive")
    /\ UNCHANGED <<campaignVars, holder, old, resendVars, eventVars, suppressed, work, slipped,
                   begun, faults>>

Revive ==
    /\ Writes("revive")
    /\ campaign' = "RUNNING"
    /\ preparation' = Touched
    /\ UNCHANGED <<status, leaseVars, resendVars, eventVars, suppressed, work, raceVars,
                   requests, faults>>

PastCheck(A) ==
    {w \in Workers : work[w].step \in Calls /\ Address[work[w].letter] \in A}

(* addSuppression(), unsubscribe(). *)
Suppress(a) ==
    /\ Ask
    /\ suppressed' = suppressed \cup {a}
    /\ status' = [l \in Letters |->
          IF Address[l] = a /\ status[l] \in Waiting THEN "SUPPRESSED" ELSE status[l]]
    /\ slipped' = slipped \cup PastCheck({a})
    /\ UNCHANGED <<campaignVars, leaseVars, resendVars, eventVars, work, asked, begun, outdated, faults>>

RemoveSuppression(a) ==
    /\ Ask
    /\ a \in suppressed /\ suppressed' = suppressed \ {a}
    /\ UNCHANGED <<campaignVars, status, leaseVars, resendVars, eventVars, work, asked, raceVars, faults>>
-----------------------------------------------------------------------------
(* Resend's webhook: a new event of a letter it has, under the advisory lock. *)

EventReads(l, kind) ==
    /\ mailed[l] > 0
    /\ kind \in Events \ events[l]
    /\ open[l] = NoTx
    /\ open' = [open EXCEPT ![l] = [by |-> "WEBHOOK", kind |-> kind, seen |-> status[l]]]
    /\ UNCHANGED <<campaignVars, status, leaseVars, resendVars, events, local, told, suppressed,
                   work, asked, raceVars, requests, faults>>

(* Bug: the last event to arrive wins. *)
Mutant_AdvancesAlways(kind, seen) == Priority[kind] >= 0

Advances(kind, seen) == Priority[kind] >= Priority[seen]

(* Bug: the webhook does not look for local:sent. *)
Mutant_IsNewsAlways(l, kind) == kind = "SENT"

(* local:sent has told the CRM already. *)
IsNews(l, kind) == kind = "SENT" /\ ~local[l]
Suppresses(kind) == kind \in {"BOUNCED", "COMPLAINED", "SUPPRESSED"}

EventWrites(l) ==
    LET kind == open[l].kind
        new == IF Suppresses(kind) THEN {Address[l]} ELSE {}
    IN
    /\ open[l].by = "WEBHOOK"
    /\ events' = [events EXCEPT ![l] = @ \cup {kind}]
    /\ status' = [status EXCEPT ![l] = IF Advances(kind, open[l].seen) THEN kind ELSE @]
    /\ told' = [told EXCEPT ![l] = IF IsNews(l, kind) THEN @ + 1 ELSE @]
    /\ suppressed' = suppressed \cup new
    /\ slipped' = slipped \cup PastCheck(new)
    /\ open' = [open EXCEPT ![l] = NoTx]
    /\ UNCHANGED <<campaignVars, leaseVars, resendVars, local, work, asked, begun, outdated,
                   requests, faults>>

(* The transaction is rolled back; Resend sends the event again. *)
EventLost(l) ==
    /\ open[l].by = "WEBHOOK"
    /\ Fault
    /\ open' = [open EXCEPT ![l] = NoTx]
    /\ UNCHANGED <<campaignVars, status, leaseVars, resendVars, events, local, told, suppressed,
                   work, asked, raceVars, requests>>
-----------------------------------------------------------------------------
Preparation(w) ==
    \/ ReadAudience(w) \/ CreateRows(w) \/ Unlock(w) \/ PrepareFails(w)
    \/ FinishReads(w) \/ FinishCounts(w) \/ Complete(w)
Processes(w) ==
    \/ Take(w) \/ Inspect(w) \/ RenewLease(w) \/ StampFirst(w)
    \/ SendAccepted(w) \/ SendUnanswered(w) \/ SendRefused(w)
    \/ MarkReads(w) \/ MarkWrites(w) \/ MarkThrows(w) \/ FailLetter(w)
Drains == \E w \in Workers : ClaimCampaign(w) \/ \E l \in Letters : Choose(w, l)
Request ==
    \/ ReadLaunch \/ Launch \/ Pause \/ Resume
    \/ ReadCancel \/ Cancel \/ RetryFailed \/ Revive
    \/ \E a \in Addresses : Suppress(a) \/ RemoveSuppression(a)
    \/ \E l \in Letters : QueueLetter(l)
Resend == \E l \in Letters : EventWrites(l) \/ EventLost(l) \/ \E kind \in Events : EventReads(l, kind)
Recovers == RecoverLetters \/ RecoverCampaign
Ages == PreparationAges \/ \E l \in Letters : LeaseLapses(l) \/ HoursPass(l) \/ KeyForgotten(l)

Next ==
    \/ Promote \/ Drains \/ Request \/ Resend \/ Recovers \/ Ages
    \/ \E w \in Workers : Preparation(w) \/ Processes(w) \/ Heartbeat(w) \/ Crash(w)

Spec == Init /\ [][Next]_vars

(* drain() runs on a timer in every worker, its statements return, time passes,
   and a transaction that is open ends. *)
Fairness ==
    /\ WF_vars(Promote) /\ WF_vars(Drains) /\ WF_vars(Recovers)
    /\ \A w \in Workers : WF_vars(Preparation(w) \/ Processes(w))
    /\ \A l \in Letters : WF_vars(LeaseLapses(l) /\ ~Attended(l)) /\ WF_vars(EventWrites(l))
    /\ WF_vars(PreparationAges /\ faults' = faults)
FairSpec == Spec /\ Fairness
-----------------------------------------------------------------------------
(* Resend sends a letter twice only if its key was forgotten while a worker was
   between the look at the 23 hours and the call, or if two workers have stamped
   its first attempt (processDelivery, the idempotency key). *)
MailedOnce == \A l \in Letters : mailed[l] > 1 => l \in slow

Mailed(l) == mailed'[l] > mailed[l]
MailedBy(l, S) == \E w \in S : At(w, "calling") /\ work[w].letter = l

(* No mail goes to a suppressed address, except by a worker whose check came before
   the suppression; test letters are not checked (assertEligible). *)
SuppressionWins ==
    [][\A l \in Letters :
          Mailed(l) /\ Source[l] # "TEST" /\ Address[l] \in suppressed => MailedBy(l, slipped)]_vars

(* While a campaign is cancelled, only a letter some worker had in hand when it was
   cancelled is still mailed, whatever becomes of statuses in between (cancelCampaign,
   claimDelivery). *)
CancelStops ==
    [][\A l \in Members : Mailed(l) /\ campaign = "CANCELLED" => MailedBy(l, begun)]_vars

Evidence == {"SENT", "DELIVERY_DELAYED", "DELIVERED", "OPENED", "CLICKED", "BOUNCED", "COMPLAINED"}

(* What Resend said of a letter is only replaced by something that ranks as high,
   unless an operator retries it: not by an older event, a late worker, a recovery,
   a cancellation or a suppression. *)
EvidenceStays ==
    [][\A l \in Letters : status[l] \in Evidence =>
          \/ status'[l] \in Statuses /\ Priority[status'[l]] >= Priority[status[l]]
          \/ asked'.revive > asked.revive]_vars

(* Whether the worker or the webhook is first, the CRM is told once that a letter is
   sent, and always if either has recorded it (markSent, receive). *)
SentToldOnce ==
    \A l \in Letters : told[l] = IF local[l] \/ "SENT" \in events[l] THEN 1 ELSE 0

(* A campaign is completed over letters still to be sent only if they were added or
   retried since that worker counted; whatever recoveries, late answers and requests
   come between its three statements (finishCampaignIfComplete). *)
CompletedIsFinished ==
    [][\A w \in Workers : Complete(w) => NoneOf(Unfinished) \/ w \in outdated]_vars

(* Every letter is finished in the end, or its campaign is not running. *)
LettersSettle ==
    \A l \in Letters :
       []<>(status[l] \notin Unfinished \/ (l \in Members /\ campaign # "RUNNING"))

(* A campaign does not stay without its recipients: a preparation that dies or comes
   to nothing is taken up again (recoverStaleWork). *)
SnapshotTaken == []<>~(campaign = "PREPARING" \/ (campaign = "RUNNING" /\ NoneOf(Statuses)))
=============================================================================
