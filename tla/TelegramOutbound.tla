-------------------------- MODULE TelegramOutbound --------------------------
(***************************************************************************)
(* The Telegram outbox rows that are not a broadcast's: the occurrences of *)
(* a schedule, an album, the actions on a message already sent, and the    *)
(* bot's menu, with the requests of the CRM and the operator that change   *)
(* them (Broadcasts.tla has the rows of a broadcast).                      *)
(*                                                                         *)
(* Nothing is journalled before the provider is called and Telegram knows  *)
(* no idempotency key, so a row whose answer is lost is sent again.  The   *)
(* worker reads schedule, message and configuration once, after its claim, *)
(* and writes from those copies after the call.                            *)
(***************************************************************************)
EXTENDS Naturals, FiniteSets

CONSTANTS Last,         \* bound: occurrences of the series (recurrence.count)
          Actions,      \* actions queued for one message
          Menus,        \* bound: settings of the bot's menu
          Workers,      \* handlers of Telegram outbox signals
          Nobody,
          MaxAttempts,  \* OutboxRecord.maxAttempts
          MaxRequests,  \* bound: requests of the CRM and the operator
          MaxFaults     \* bound: crashes, lost answers, slow owners

ASSUME TelegramAssumption ==
    /\ Last \in Nat \ {0} /\ Menus \in Nat /\ MaxAttempts \in Nat \ {0}
    /\ MaxRequests \in Nat /\ MaxFaults \in Nat
    /\ Nobody \notin Workers

Occurrences == 1..Last
Album == 0                          \* the album, as a message
Messages == {Album} \cup Occurrences

(* An outbox row: the one a message was created with, the one a CRM retry
   made for the same message, an action's, a menu setting's. *)
First(n) == [kind |-> "first", of |-> n]
Again(n) == [kind |-> "again", of |-> n]
Act(a) == [kind |-> "action", of |-> a]
Menu(n) == [kind |-> "menu", of |-> n]
Rows == {First(n) : n \in Messages} \cup {Again(n) : n \in Occurrences}
        \cup {Act(a) : a \in Actions} \cup {Menu(n) : n \in 1..Menus}

VARIABLES
  topic,              \* the part of the connection's traffic this behaviour follows
  outbox, attempts,   \* OutboxRecord.status ("NONE": no such row), attempts
  holder, old,        \* lockedBy; lockedAt is older than the lease
  record, message,    \* ScheduledMessage or TelegramMediaGroup.status; Message.status
  at, repeats,        \* is scheduledAt still ahead; is there a recurrence
  stored,             \* actions whose effect content and metadata show
  config, shown,      \* TelegramBotInterface.revision; the setting Telegram has
  call,               \* process() in progress
  sent, lost,         \* Telegram: messages accepted; acceptances nobody recorded
  late,               \* history: schedules changed or retried after their first claim
  raced,              \* history: what was changed under a worker that had read it
  slow,               \* history: rows whose lease ran out under a call
  requests, faults    \* used up so far

rowVars == <<outbox, attempts, holder, old>>
scheduleVars == <<record, message, at, repeats>>
targetVars == <<stored, config, shown>>
historyVars == <<sent, lost, late, raced, slow>>
vars == <<topic, rowVars, scheduleVars, targetVars, call, historyVars, requests, faults>>

Live == {"PENDING", "RETRY", "PROCESSING"}
Open == {"QUEUED", "PROCESSING"}
Exists(r) == outbox[r] # "NONE"
IsMessage(r) == r.kind \in {"first", "again"} /\ r.of # Album
Scheduled(r) == r.kind = "first" /\ r.of # Album
HasRecord(r) == r.kind = "first"
Past(n) == at[n] = "past"

NoCall == [step |-> "idle", row |-> First(Album), last |-> FALSE,
           repeats |-> FALSE, copy |-> {}]

(* A schedule or an album has been created; actions and menus come later. *)
Init ==
    /\ topic \in {"series", "album", "actions", "menu"}
    /\ LET first == CASE topic = "series" -> {1} [] topic = "album" -> {Album} [] OTHER -> {}
       IN /\ outbox = [r \in Rows |->
                 IF \E n \in first : r = First(n) THEN "PENDING" ELSE "NONE"]
          /\ record = [n \in Messages |-> IF n \in first THEN "QUEUED" ELSE "NONE"]
          /\ message = [n \in Messages |-> IF n \in first THEN "QUEUED" ELSE "NONE"]
    /\ attempts = [r \in Rows |-> 0]
    /\ holder = [r \in Rows |-> Nobody]
    /\ old = [r \in Rows |-> FALSE]
    /\ at = [n \in Messages |-> IF n = Album THEN "past" ELSE "ahead"]
    /\ repeats \in [Messages -> BOOLEAN]
    /\ \A n \in Messages \ {1} : ~repeats[n]
    /\ stored = {}
    /\ config = 0 /\ shown = 0
    /\ call = [w \in Workers |-> NoCall]
    /\ sent = [n \in Messages |-> 0]
    /\ lost = [n \in Messages |-> 0]
    /\ late = {} /\ raced = {} /\ slow = {}
    /\ requests = 0 /\ faults = 0

Fault == faults < MaxFaults /\ faults' = faults + 1
Ask == requests < MaxRequests /\ requests' = requests + 1
Calls(r) == {w \in Workers : call[w].step # "idle" /\ call[w].row = r}
HasRead(r) == \E w \in Calls(r) : call[w].step # "claimed"
-----------------------------------------------------------------------------
(* The processor. *)

Step(w, s) == call' = [call EXCEPT ![w].step = s]
Done(w) == call' = [call EXCEPT ![w] = NoCall]

(* Only a PENDING row waits for scheduledAt: its nextAttemptAt is the time the
   schedule asks for.  A RETRY row waits for its backoff, any time here. *)
Due(r) == CASE outbox[r] = "PENDING" -> Scheduled(r) => Past(r.of)
            [] outbox[r] = "RETRY" -> TRUE
            [] outbox[r] = "PROCESSING" -> old[r]
            [] OTHER -> FALSE

Claim(w, r) ==
    /\ call[w].step = "idle"
    /\ Due(r)
    /\ outbox' = [outbox EXCEPT ![r] = "PROCESSING"]
    /\ holder' = [holder EXCEPT ![r] = w]
    /\ old' = [old EXCEPT ![r] = FALSE]
    /\ attempts' = [attempts EXCEPT ![r] = IF @ < MaxAttempts THEN @ + 1 ELSE @]
    /\ call' = [call EXCEPT ![w] = [NoCall EXCEPT !.step = "claimed", !.row = r,
                                      !.last = attempts'[r] = MaxAttempts]]
    /\ UNCHANGED <<topic, scheduleVars, targetVars, historyVars, requests, faults>>

(* The reads before the call.  The schedule's status is not looked at. *)
ReadMessage(w) ==
    LET r == call[w].row IN
    /\ call[w].step = "claimed"
    /\ IsMessage(r)
    /\ IF message[r.of] = "SENT"
       THEN Step(w, "skip")
       ELSE call' = [call EXCEPT ![w].step = "read",
                                 ![w].repeats = Scheduled(r) /\ repeats[r.of]]
    /\ UNCHANGED <<topic, rowVars, scheduleVars, targetVars, historyVars, requests, faults>>

ReadAlbum(w) ==
    /\ call[w].step = "claimed"
    /\ call[w].row = First(Album)
    /\ Step(w, IF record[Album] = "SENT" THEN "skip" ELSE "read")
    /\ UNCHANGED <<topic, rowVars, scheduleVars, targetVars, historyVars, requests, faults>>

ReadTarget(w) ==
    LET r == call[w].row
        others == {Act(a) : a \in Actions} \ {r}
    IN
    /\ call[w].step = "claimed"
    /\ r.kind = "action"
    /\ call' = [call EXCEPT ![w].step = "ready", ![w].copy = stored]
    /\ raced' = raced \cup (IF \E b \in others : HasRead(b)
                            THEN {r} \cup {b \in others : HasRead(b)} ELSE {})
    /\ UNCHANGED <<topic, rowVars, scheduleVars, targetVars, sent, lost, late, slow,
                   requests, faults>>

(* Mutant of ReadConfig: a replaced setting is configured all the same. *)
Mutant_ReadAnyConfig(w) ==
    /\ call[w].step = "claimed"
    /\ call[w].row.kind = "menu"
    /\ Step(w, "ready")
    /\ UNCHANGED <<topic, rowVars, scheduleVars, targetVars, historyVars, requests, faults>>

(* A setting that a newer one replaced is refused for good. *)
ReadConfig(w) ==
    /\ call[w].step = "claimed"
    /\ call[w].row.kind = "menu"
    /\ Step(w, IF config = call[w].row.of THEN "ready" ELSE "final")
    /\ UNCHANGED <<topic, rowVars, scheduleVars, targetVars, historyVars, requests, faults>>

(* The schedule or album becomes PROCESSING, if it is still QUEUED; if not,
   the call goes on all the same. *)
MarkProcessing(w) ==
    LET r == call[w].row IN
    /\ call[w].step = "read"
    /\ record' = IF HasRecord(r) /\ record[r.of] = "QUEUED"
                 THEN [record EXCEPT ![r.of] = "PROCESSING"] ELSE record
    /\ Step(w, "ready")
    /\ UNCHANGED <<topic, rowVars, message, at, repeats, targetVars, historyVars,
                   requests, faults>>

(* Telegram does what the call asks. *)
Applied(r) ==
    /\ sent' = IF r.kind \in {"first", "again"} THEN [sent EXCEPT ![r.of] = @ + 1] ELSE sent
    /\ shown' = IF r.kind = "menu" THEN r.of ELSE shown

Lost(r) == IF r.kind \in {"first", "again"} THEN [lost EXCEPT ![r.of] = @ + 1] ELSE lost

Accepted(w) ==
    /\ call[w].step = "ready"
    /\ Applied(call[w].row)
    /\ Step(w, "answered")
    /\ UNCHANGED <<topic, rowVars, scheduleVars, stored, config, lost, late, raced, slow,
                   requests, faults>>

(* Applied, but the connection fails before the answer. *)
AnswerLost(w) ==
    /\ Fault
    /\ call[w].step = "ready"
    /\ Applied(call[w].row)
    /\ lost' = Lost(call[w].row)
    /\ Step(w, "retry")
    /\ UNCHANGED <<topic, rowVars, scheduleVars, stored, config, late, raced, slow, requests>>

(* 400, 401, 403 or unusable media; 429, 5xx or a failure on our side. *)
Refused(w, why) ==
    /\ call[w].step = "ready"
    /\ Step(w, why)
    /\ UNCHANGED <<topic, rowVars, scheduleVars, targetVars, historyVars, requests, faults>>

(* Every write to the row is conditional on the lease. *)
Holds(w) == holder[call[w].row] = w /\ outbox[call[w].row] = "PROCESSING"
Release(w, s) ==
    IF Holds(w)
    THEN /\ outbox' = [outbox EXCEPT ![call[w].row] = s]
         /\ holder' = [holder EXCEPT ![call[w].row] = Nobody]
         /\ old' = [old EXCEPT ![call[w].row] = FALSE]
    ELSE UNCHANGED <<outbox, holder, old>>

(* Mutant of MakesNext: the recurrence is not looked at. *)
Mutant_AlwaysNext(w) == /\ Scheduled(call[w].row)
                        /\ call[w].row.of < Last
                        /\ ~Exists(First(call[w].row.of + 1))

(* createNextScheduledOccurrence(): from the copy read before the call. *)
MakesNext(w) == /\ Scheduled(call[w].row)
                /\ call[w].repeats
                /\ call[w].row.of < Last
                /\ ~Exists(First(call[w].row.of + 1))

RecordMessage(w) ==
    LET n == call[w].row.of
        next == IF MakesNext(w) THEN {n + 1} ELSE {}
        Put(f, v) == [m \in Messages |-> IF m \in next THEN v ELSE f[m]]
    IN
    /\ call[w].step = "answered"
    /\ IsMessage(call[w].row)
    /\ Holds(w)
    /\ outbox' = [r \in Rows |-> IF r = call[w].row THEN "SUCCEEDED"
                                 ELSE IF r.kind = "first" /\ r.of \in next THEN "PENDING"
                                 ELSE outbox[r]]
    /\ holder' = [holder EXCEPT ![call[w].row] = Nobody]
    /\ old' = [old EXCEPT ![call[w].row] = FALSE]
    /\ message' = Put([message EXCEPT ![n] = "SENT"], "QUEUED")
    /\ record' = Put(IF Scheduled(call[w].row) /\ record[n] \in Open
                     THEN [record EXCEPT ![n] = "SENT"] ELSE record, "QUEUED")
    /\ repeats' = Put(repeats, TRUE)
    /\ Done(w)
    /\ UNCHANGED <<topic, attempts, at, targetVars, historyVars, requests, faults>>

RecordAlbum(w) ==
    /\ call[w].step = "answered"
    /\ call[w].row = First(Album)
    /\ Holds(w)
    /\ Release(w, "SUCCEEDED")
    /\ record' = [record EXCEPT ![Album] = "SENT"]
    /\ message' = [message EXCEPT ![Album] = "SENT"]
    /\ Done(w)
    /\ UNCHANGED <<topic, attempts, at, repeats, targetVars, historyVars, requests, faults>>

(* Mutant of RecordAction: the copy is left out. *)
Mutant_RecordOnlyOwn(w) ==
    /\ call[w].step = "answered"
    /\ call[w].row.kind = "action"
    /\ Holds(w)
    /\ Release(w, "SUCCEEDED")
    /\ stored' = {call[w].row.of}
    /\ Done(w)
    /\ UNCHANGED <<topic, attempts, scheduleVars, config, shown, historyVars, requests, faults>>

(* Content and metadata are written whole, from the copy. *)
RecordAction(w) ==
    /\ call[w].step = "answered"
    /\ call[w].row.kind = "action"
    /\ Holds(w)
    /\ Release(w, "SUCCEEDED")
    /\ stored' = call[w].copy \cup {call[w].row.of}
    /\ Done(w)
    /\ UNCHANGED <<topic, attempts, scheduleVars, config, shown, historyVars, requests, faults>>

(* finish(SUCCEEDED): a menu that was set, or a message found SENT. *)
Finish(w) ==
    /\ \/ call[w].step = "skip"
       \/ call[w].step = "answered" /\ call[w].row.kind = "menu"
    /\ Release(w, "SUCCEEDED")
    /\ Done(w)
    /\ UNCHANGED <<topic, attempts, scheduleVars, targetVars, historyVars, requests, faults>>

(* The lease is gone: the transaction does nothing. *)
RecordTooLate(w) ==
    /\ call[w].step = "answered"
    /\ call[w].row.kind # "menu"
    /\ ~Holds(w)
    /\ lost' = Lost(call[w].row)
    /\ Done(w)
    /\ UNCHANGED <<topic, rowVars, scheduleVars, targetVars, sent, late, raced, slow,
                   requests, faults>>

(* Mutant of Fail: schedule, album and messages are written by id. *)
Mutant_FailById(w) ==
    LET r == call[w].row
        again == call[w].step = "retry" /\ ~call[w].last
        verdict == IF again THEN "QUEUED" ELSE "FAILED"
    IN
    /\ call[w].step \in {"retry", "final"}
    /\ Release(w, IF again THEN "RETRY" ELSE "FAILED")
    /\ message' = IF IsMessage(r) \/ HasRecord(r)
                  THEN [message EXCEPT ![r.of] = verdict] ELSE message
    /\ record' = IF HasRecord(r) THEN [record EXCEPT ![r.of] = verdict] ELSE record
    /\ Done(w)
    /\ UNCHANGED <<topic, attempts, at, repeats, targetVars, historyVars, requests, faults>>

(* fail(): the row only under the lease, the message of a plain row whatever
   its status, a schedule, an album and its messages while they are open. *)
Fail(w) ==
    LET r == call[w].row
        again == call[w].step = "retry" /\ ~call[w].last
        verdict == IF again THEN "QUEUED" ELSE "FAILED"
    IN
    /\ call[w].step \in {"retry", "final"}
    /\ Release(w, IF again THEN "RETRY" ELSE "FAILED")
    /\ message' = IF IsMessage(r) \/ (HasRecord(r) /\ message[r.of] \in Open)
                  THEN [message EXCEPT ![r.of] = verdict] ELSE message
    /\ record' = IF HasRecord(r) /\ record[r.of] \in Open
                 THEN [record EXCEPT ![r.of] = verdict] ELSE record
    /\ Done(w)
    /\ UNCHANGED <<topic, attempts, at, repeats, targetVars, historyVars, requests, faults>>
-----------------------------------------------------------------------------
(* The recovery scan, and what happens to workers and clocks. *)

RecoverRow(r) ==
    /\ outbox[r] = "PROCESSING"
    /\ old[r]
    /\ outbox' = [outbox EXCEPT ![r] = "RETRY"]
    /\ holder' = [holder EXCEPT ![r] = Nobody]
    /\ old' = [old EXCEPT ![r] = FALSE]
    /\ UNCHANGED <<topic, attempts, scheduleVars, targetVars, call, historyVars,
                   requests, faults>>

(* A lease grows old: the owner died, or (a fault) is slower than the lease. *)
Lapse(r) ==
    /\ outbox[r] = "PROCESSING"
    /\ ~old[r]
    /\ old' = [old EXCEPT ![r] = TRUE]
    /\ IF holder[r] \in Calls(r)
       THEN Fault /\ slow' = slow \cup {r}
       ELSE UNCHANGED <<slow, faults>>
    /\ UNCHANGED <<topic, outbox, attempts, holder, scheduleVars, targetVars, call,
                   sent, lost, late, raced, requests>>

Crash(w) ==
    /\ Fault
    /\ call[w].step # "idle"
    /\ lost' = IF call[w].step = "answered" THEN Lost(call[w].row) ELSE lost
    /\ Done(w)
    /\ UNCHANGED <<topic, rowVars, scheduleVars, targetVars, sent, late, raced, slow, requests>>

TimePasses(n) ==
    /\ Exists(First(n))
    /\ ~Past(n)
    /\ at' = [at EXCEPT ![n] = "past"]
    /\ UNCHANGED <<topic, rowVars, record, message, repeats, targetVars, call, historyVars,
                   requests, faults>>
-----------------------------------------------------------------------------
(* The CRM and the operator. *)

TooLate(n) == IF outbox[First(n)] = "PENDING" THEN late ELSE late \cup {n}

(* Mutant of Cancel: the row is left to run. *)
Mutant_CancelLeavesRow(n) ==
    /\ Ask
    /\ record[n] = "QUEUED"
    /\ record' = [record EXCEPT ![n] = "CANCELLED"]
    /\ message' = [message EXCEPT ![n] = IF @ = "QUEUED" THEN "FAILED" ELSE @]
    /\ late' = TooLate(n)
    /\ UNCHANGED <<topic, rowVars, at, repeats, targetVars, call, sent, lost, raced, slow,
                   faults>>

(* cancelScheduled(): only a PENDING row is stopped. *)
Cancel(n) ==
    /\ Ask
    /\ record[n] = "QUEUED"
    /\ record' = [record EXCEPT ![n] = "CANCELLED"]
    /\ outbox' = [outbox EXCEPT ![First(n)] = IF @ = "PENDING" THEN "FAILED" ELSE @]
    /\ message' = [message EXCEPT ![n] = IF @ = "QUEUED" THEN "FAILED" ELSE @]
    /\ late' = TooLate(n)
    /\ UNCHANGED <<topic, attempts, holder, old, at, repeats, targetVars, call, sent, lost,
                   raced, slow, faults>>

(* updateScheduled(): accepted while the schedule is QUEUED, whatever its row
   is; the row's time follows only while it is PENDING. *)
Update(n, rule, time) ==
    /\ Ask
    /\ record[n] = "QUEUED"
    /\ repeats' = [repeats EXCEPT ![n] = rule]
    /\ at' = [at EXCEPT ![n] = time]
    /\ late' = IF time = at[n] THEN late ELSE TooLate(n)
    /\ raced' = IF HasRead(First(n)) THEN raced \cup {First(n)} ELSE raced
    /\ UNCHANGED <<topic, rowVars, record, message, targetVars, call, sent, lost, slow, faults>>

(* Mutant of OperatorRetry: any row that has ended. *)
Mutant_RetryAnyRow(r) ==
    /\ Ask
    /\ outbox[r] \in {"FAILED", "SUCCEEDED"}
    /\ outbox' = [outbox EXCEPT ![r] = "RETRY"]
    /\ attempts' = [attempts EXCEPT ![r] = 0]
    /\ record' = IF HasRecord(r) THEN [record EXCEPT ![r.of] = "QUEUED"] ELSE record
    /\ message' = IF Scheduled(r) THEN [message EXCEPT ![r.of] = "QUEUED"] ELSE message
    /\ late' = IF Scheduled(r) THEN late \cup {r.of} ELSE late
    /\ UNCHANGED <<topic, holder, old, at, repeats, targetVars, call, sent, lost, raced, slow,
                   faults>>

(* retryOutbox(): the row, and by its id the schedule or album; the message
   only through the schedule. *)
OperatorRetry(r) ==
    /\ Ask
    /\ outbox[r] = "FAILED"
    /\ outbox' = [outbox EXCEPT ![r] = "RETRY"]
    /\ attempts' = [attempts EXCEPT ![r] = 0]
    /\ record' = IF HasRecord(r) THEN [record EXCEPT ![r.of] = "QUEUED"] ELSE record
    /\ message' = IF Scheduled(r) THEN [message EXCEPT ![r.of] = "QUEUED"] ELSE message
    /\ late' = IF Scheduled(r) THEN late \cup {r.of} ELSE late
    /\ UNCHANGED <<topic, holder, old, at, repeats, targetVars, call, sent, lost, raced, slow,
                   faults>>

(* retry() of the CRM: a second row for the message of a FAILED one. *)
CrmRetry(n) ==
    /\ Ask
    /\ outbox[First(n)] = "FAILED"
    /\ ~Exists(Again(n))
    /\ outbox' = [outbox EXCEPT ![Again(n)] = "PENDING"]
    /\ late' = late \cup {n}
    /\ UNCHANGED <<topic, attempts, holder, old, scheduleVars, targetVars, call, sent, lost,
                   raced, slow, faults>>

QueueAction(a) ==
    /\ Ask
    /\ topic = "actions"
    /\ ~Exists(Act(a))
    /\ outbox' = [outbox EXCEPT ![Act(a)] = "PENDING"]
    /\ UNCHANGED <<topic, attempts, holder, old, scheduleVars, targetVars, call, historyVars,
                   faults>>

(* setBotInterface(): revision and current row of the one configuration. *)
SetMenu ==
    /\ Ask
    /\ topic = "menu"
    /\ config < Menus
    /\ config' = config + 1
    /\ outbox' = [outbox EXCEPT ![Menu(config + 1)] = "PENDING"]
    /\ raced' = IF config > 0 /\ (\E w \in Calls(Menu(config)) : call[w].step = "ready")
                THEN raced \cup {Menu(config)} ELSE raced
    /\ UNCHANGED <<topic, attempts, holder, old, scheduleVars, stored, shown, call, sent, lost,
                   late, slow, faults>>
-----------------------------------------------------------------------------
Next ==
    \/ \E w \in Workers :
          \/ \E r \in Rows : Claim(w, r)
          \/ ReadMessage(w) \/ ReadAlbum(w) \/ ReadTarget(w) \/ ReadConfig(w)
          \/ MarkProcessing(w)
          \/ Accepted(w) \/ AnswerLost(w)
          \/ \E why \in {"retry", "final"} : Refused(w, why)
          \/ RecordMessage(w) \/ RecordAlbum(w) \/ RecordAction(w)
          \/ Finish(w) \/ RecordTooLate(w) \/ Fail(w)
          \/ Crash(w)
    \/ \E r \in Rows : RecoverRow(r) \/ Lapse(r) \/ OperatorRetry(r)
    \/ \E n \in Occurrences :
          \/ TimePasses(n) \/ Cancel(n) \/ CrmRetry(n)
          \/ \E rule \in BOOLEAN, time \in {at[n], "ahead"} : Update(n, rule, time)
    \/ \E a \in Actions : QueueAction(a)
    \/ SetMenu

Spec == Init /\ [][Next]_vars
-----------------------------------------------------------------------------
TypeOK ==
    /\ topic \in {"series", "album", "actions", "menu"}
    /\ outbox \in [Rows -> Live \cup {"NONE", "SUCCEEDED", "FAILED"}]
    /\ attempts \in [Rows -> 0..MaxAttempts]
    /\ holder \in [Rows -> Workers \cup {Nobody}]
    /\ old \in [Rows -> BOOLEAN]
    /\ record \in [Messages -> Open \cup {"NONE", "SENT", "FAILED", "CANCELLED"}]
    /\ message \in [Messages -> Open \cup {"NONE", "SENT", "FAILED"}]
    /\ at \in [Messages -> {"ahead", "past"}]
    /\ repeats \in [Messages -> BOOLEAN]
    /\ stored \subseteq Actions
    /\ config \in 0..Menus /\ shown \in 0..Menus
    /\ call \in [Workers ->
          [step : {"idle", "claimed", "read", "ready", "answered", "retry", "final", "skip"},
           row : Rows, last : BOOLEAN, repeats : BOOLEAN, copy : SUBSET Actions]]
    /\ sent \in [Messages -> Nat] /\ lost \in [Messages -> Nat]
    /\ late \subseteq Messages /\ raced \subseteq Rows /\ slow \subseteq Rows
    /\ requests \in 0..MaxRequests /\ faults \in 0..MaxFaults

(* A series has one open occurrence: the next one exists only once the row of
   the one before SUCCEEDED, whatever crashes, retries and second workers did. *)
SeriesAdvances ==
    \A n \in Occurrences : n > 1 /\ Exists(First(n)) => outbox[First(n - 1)] = "SUCCEEDED"

(* A cancellation or a new time accepted before the first claim is honoured:
   the row does not run, or not before that time, unless a retry is asked. *)
EarlyRequestsHonoured ==
    \A n \in Occurrences \ late :
        /\ record[n] = "CANCELLED" => outbox[First(n)] = "FAILED" /\ sent[n] = 0
        /\ outbox[First(n)] \in {"RETRY", "PROCESSING", "SUCCEEDED"} => Past(n)

(* The series goes on after a delivered occurrence exactly when its schedule
   has a recurrence, unless that was changed under a worker that had read it or
   a CRM retry delivered the message outside the series. *)
SeriesFollowsRule ==
    \A n \in Occurrences \ {Last} :
        outbox[First(n)] = "SUCCEEDED" /\ First(n) \notin raced /\ ~Exists(Again(n))
            => (repeats[n] <=> Exists(First(n + 1)))

(* What the CRM is told agrees with the row: a delivered row has its message
   SENT and its schedule SENT or CANCELLED.  Only a call that went on after its
   lease ran out, or a second row for the message, can undo that; an
   album is safe from both. *)
DeliveredIsShown ==
    /\ outbox[First(Album)] = "SUCCEEDED" => record[Album] = "SENT" /\ message[Album] = "SENT"
    /\ \A n \in Occurrences :
          outbox[First(n)] = "SUCCEEDED" /\ First(n) \notin slow /\ ~Exists(Again(n))
              => message[n] = "SENT" /\ record[n] \in {"SENT", "CANCELLED"}

(* Telegram has a message twice only if an acceptance was lost, a call outlived
   its lease, or a CRM retry made a second row for the message. *)
OneMessage ==
    \A n \in Messages :
        sent[n] > 1 => \/ lost[n] > 0
                       \/ First(n) \in slow
                       \/ n # Album /\ Exists(Again(n))

(* The effect of an action that SUCCEEDED stays in the stored message, unless
   two actions on it overlapped. *)
ActionsKept ==
    \A a \in Actions : outbox[Act(a)] = "SUCCEEDED" /\ Act(a) \notin raced => a \in stored

(* Once the newest menu setting SUCCEEDED Telegram shows it, unless an older
   one was being sent when the newer was accepted. *)
NewestMenuShown ==
    config > 0 /\ outbox[Menu(config)] = "SUCCEEDED" /\ (\A n \in 1..Menus : Menu(n) \notin raced)
        => shown = config
=============================================================================
