--------------------------- MODULE BroadcastsProofs ---------------------------
(***************************************************************************)
(* What is proved of Broadcasts for every value of its constants.          *)
(***************************************************************************)
EXTENDS Broadcasts, FiniteSetTheorems, TLAPS

LEMMA Idle ==
    /\ NoPrep \in PrepType /\ NoPrep.pc = "idle" /\ NoPrep.todo = {} /\ NoPrep.audience = {}
    /\ NoPrep.cur = Nobody
    /\ NoWork \in WorkType /\ NoWork.pc = "idle" /\ NoWork.result = "NONE" /\ NoWork.cur = Nobody
    /\ NoReq \in ReqType /\ NoReq.ids = {} /\ NoReq.op = "none"
BY DEF NoPrep, PrepType, NoWork, WorkType, NoReq, ReqType

LEMMA TypeInit == Init => TypeOK
<1> SUFFICES ASSUME Init PROVE TypeOK
  OBVIOUS
<1>1. prep \in [Preparers -> PrepType] /\ work \in [Workers -> WorkType] /\ req \in [Requests -> ReqType]
  BY Idle DEF Init
<1>2. faults \in Nat /\ requests \in Nat
  BY BroadcastsAssumption DEF Init
<1>3. /\ recipient \in [Recipients -> RecipientStatuses] /\ outbox \in [Recipients -> RowStatuses]
      /\ holder \in [Recipients -> Workers \cup {Nobody}] /\ leaseOld \in [Recipients -> BOOLEAN]
      /\ message \in [Recipients -> {"NONE", "QUEUED", "SENT", "FAILED"}]
      /\ sent \in [Recipients -> Nat] /\ lost \in [Recipients -> Nat]
  BY DEF Init, RecipientStatuses, RowStatuses
<1> QED
  BY <1>1, <1>2, <1>3 DEF Init, TypeOK, BroadcastStatuses

(* How a record of one process changes and the others' do not. *)
LEMMA PrepSet ==
    ASSUME TypeOK, NEW p \in Preparers, NEW new \in PrepType, prep' = [prep EXCEPT ![p] = new]
    PROVE  /\ prep' \in [Preparers -> PrepType] /\ prep'[p] = new
           /\ \A q \in Preparers \ {p} : prep'[q] = prep[q]
BY DEF TypeOK

LEMMA WorkSet ==
    ASSUME TypeOK, NEW w \in Workers, NEW new \in WorkType, work' = [work EXCEPT ![w] = new]
    PROVE  /\ work' \in [Workers -> WorkType] /\ work'[w] = new
           /\ \A v \in Workers \ {w} : work'[v] = work[v]
BY DEF TypeOK

LEMMA ReqSet ==
    ASSUME TypeOK, NEW a \in Requests, NEW new \in ReqType, req' = [req EXCEPT ![a] = new]
    PROVE  /\ req' \in [Requests -> ReqType] /\ req'[a] = new
           /\ \A b \in Requests \ {a} : req'[b] = req[b]
BY DEF TypeOK

LEMMA PrepGotoFacts ==
    ASSUME TypeOK, NEW p \in Preparers, NEW s \in {"read", "pending", "complete"}, PrepGoto(p, s)
    PROVE  /\ prep' \in [Preparers -> PrepType]
           /\ prep'[p].pc = s /\ prep'[p].audience = prep[p].audience
           /\ \A q \in Preparers \ {p} : prep'[q] = prep[q]
<1> DEFINE new == [prep[p] EXCEPT !.pc = s]
<1>1. prep[p] \in PrepType
  BY DEF TypeOK
<1>2. new \in PrepType /\ new.pc = s /\ new.audience = prep[p].audience
  BY <1>1 DEF PrepType
<1>3. prep' = [prep EXCEPT ![p] = new]
  BY DEF PrepGoto
<1> HIDE DEF new
<1> QED
  BY <1>2, <1>3, PrepSet

LEMMA PrepDoneFacts ==
    ASSUME TypeOK, NEW p \in Preparers, prep' = [prep EXCEPT ![p] = NoPrep]
    PROVE  /\ prep' \in [Preparers -> PrepType]
           /\ prep'[p].pc = "idle" /\ prep'[p].todo = {}
           /\ \A q \in Preparers \ {p} : prep'[q] = prep[q]
BY Idle, PrepSet

LEMMA PrepDropFacts ==
    ASSUME TypeOK, NEW p \in Preparers, NEW r \in Recipients,
           prep' = [prep EXCEPT ![p].todo = @ \ {r}]
    PROVE  /\ prep' \in [Preparers -> PrepType]
           /\ prep'[p].pc = prep[p].pc /\ prep'[p].todo = prep[p].todo \ {r}
           /\ prep'[p].audience = prep[p].audience /\ prep'[p].cur = prep[p].cur
           /\ \A q \in Preparers \ {p} : prep'[q] = prep[q]
<1> DEFINE new == [prep[p] EXCEPT !.todo = @ \ {r}]
<1>1. prep[p] \in PrepType
  BY DEF TypeOK
<1>2. new \in PrepType /\ new.pc = prep[p].pc /\ new.todo = prep[p].todo \ {r}
      /\ new.audience = prep[p].audience /\ new.cur = prep[p].cur
  BY <1>1 DEF PrepType
<1>3. prep' = [prep EXCEPT ![p] = new]
  OBVIOUS
<1> HIDE DEF new
<1> QED
  BY <1>2, <1>3, PrepSet

LEMMA ResolveFacts ==
    ASSUME TypeOK, NEW p \in Preparers, ResolveAudience(p)
    PROVE  /\ prep' \in [Preparers -> PrepType]
           /\ prep'[p].pc \in {"idle", "insert"} /\ prep[p].pc = "read"
           /\ \A q \in Preparers \ {p} : prep'[q] = prep[q]
<1>1. prep[p] \in PrepType /\ prep[p].pc = "read" /\ eligible \subseteq Recipients
  BY DEF TypeOK, ResolveAudience, InPrep
<1>2. CASE prep' = [prep EXCEPT ![p] = NoPrep]
  BY <1>1, <1>2, PrepDoneFacts
<1>3. ASSUME NEW audience \in SUBSET eligible,
             prep' = [prep EXCEPT ![p] = [@ EXCEPT !.pc = "insert", !.audience = audience]]
      PROVE  /\ prep' \in [Preparers -> PrepType] /\ prep'[p].pc = "insert"
             /\ \A q \in Preparers \ {p} : prep'[q] = prep[q]
  <2> DEFINE new == [prep[p] EXCEPT !.pc = "insert", !.audience = audience]
  <2>1. new \in PrepType /\ new.pc = "insert"
    BY <1>1 DEF PrepType
  <2>2. prep' = [prep EXCEPT ![p] = new]
    BY <1>3
  <2> HIDE DEF new
  <2> QED
    BY <2>1, <2>2, PrepSet
<1> QED
  BY <1>1, <1>2, <1>3 DEF ResolveAudience

LEMMA PendingFacts ==
    ASSUME TypeOK, NEW p \in Preparers, ReadPending(p)
    PROVE  /\ prep' \in [Preparers -> PrepType]
           /\ prep'[p].pc = "loop" /\ prep[p].pc = "pending"
           /\ prep'[p].todo = {r \in Recipients : recipient[r] = "PENDING"} \cap prep[p].audience
           /\ \A q \in Preparers \ {p} : prep'[q] = prep[q]
<1> DEFINE rest == {r \in Recipients : recipient[r] = "PENDING"} \cap prep[p].audience
           new == [NoPrep EXCEPT !.pc = "loop", !.todo = rest]
<1>1. new \in PrepType /\ new.pc = "loop" /\ new.todo = rest
  BY Idle DEF PrepType
<1>2. prep' = [prep EXCEPT ![p] = new] /\ prep[p].pc = "pending"
  BY DEF ReadPending, InPrep
<1> HIDE DEF new
<1> QED
  BY <1>1, <1>2, PrepSet

LEMMA RunningFacts ==
    ASSUME TypeOK, NEW p \in Preparers, NEW r \in Recipients, ReadRunning(p, r)
    PROVE  /\ prep' \in [Preparers -> PrepType]
           /\ prep[p].pc = "loop" /\ r \in prep[p].todo
           /\ \/ /\ prep'[p].pc = "link" /\ prep'[p].todo = prep[p].todo /\ prep'[p].cur = r
                 /\ dropped' = dropped
              \/ /\ prep'[p].pc = "loop" /\ prep'[p].todo = prep[p].todo \ {r}
                 /\ dropped' = dropped \cup {s \in {r} : recipient[s] = "PENDING"}
           /\ \A q \in Preparers \ {p} : prep'[q] = prep[q]
<1>1. prep[p] \in PrepType /\ prep[p].pc = "loop" /\ r \in prep[p].todo
  BY DEF TypeOK, ReadRunning, InPrep
<1>2. CASE status = "RUNNING"
  <2> DEFINE new == [prep[p] EXCEPT !.pc = "link", !.cur = r]
  <2>1. new \in PrepType /\ new.pc = "link" /\ new.todo = prep[p].todo /\ new.cur = r
    BY <1>1 DEF PrepType
  <2>2. prep' = [prep EXCEPT ![p] = new] /\ dropped' = dropped
    BY <1>2 DEF ReadRunning
  <2> HIDE DEF new
  <2> QED
    BY <1>1, <2>1, <2>2, PrepSet
<1>3. CASE status # "RUNNING"
  BY <1>1, <1>3, PrepDropFacts DEF ReadRunning
<1> QED
  BY <1>2, <1>3

LEMMA LinkFacts ==
    ASSUME TypeOK, NEW p \in Preparers, LinkRecipient(p)
    PROVE  /\ prep' \in [Preparers -> PrepType]
           /\ prep[p].pc = "link"
           /\ \/ /\ outbox[prep[p].cur] = "NONE"
                 /\ prep'[p].pc = "loop" /\ prep'[p].todo = prep[p].todo \ {prep[p].cur}
                 /\ dropped' = dropped
              \/ /\ outbox[prep[p].cur] # "NONE"
                 /\ prep'[p].pc = "idle" /\ prep'[p].todo = {}
                 /\ dropped' = dropped \cup Abandoned(p)
                 /\ UNCHANGED <<recipient, linked, outbox, message>>
           /\ \A q \in Preparers \ {p} : prep'[q] = prep[q]
<1>1. prep[p] \in PrepType /\ prep[p].pc = "link"
  BY DEF TypeOK, LinkRecipient, InPrep
<1>2. CASE outbox[prep[p].cur] = "NONE"
  <2> DEFINE rest == prep[p].todo \ {prep[p].cur}
             new == [prep[p] EXCEPT !.pc = "loop", !.todo = rest, !.cur = Nobody]
  <2>1. new \in PrepType /\ new.pc = "loop" /\ new.todo = rest
    BY <1>1 DEF PrepType
  <2>2. dropped' = dropped
    BY <1>2 DEF LinkRecipient
  <2>4. prep' = [prep EXCEPT ![p] = new]
    BY <1>2 DEF LinkRecipient
  <2> HIDE DEF new
  <2> QED
    BY <1>1, <1>2, <2>1, <2>2, <2>4, PrepSet DEF rest
<1>3. CASE outbox[prep[p].cur] # "NONE"
  BY <1>1, <1>3, PrepDoneFacts DEF LinkRecipient
<1> QED
  BY <1>2, <1>3
-----------------------------------------------------------------------------
LEMMA DoneFacts ==
    ASSUME TypeOK, NEW w \in Workers, Done(w)
    PROVE  /\ work' \in [Workers -> WorkType]
           /\ work'[w].pc = "idle" /\ work'[w].result = "NONE" /\ work'[w].cur = Nobody
           /\ \A v \in Workers \ {w} : work'[v] = work[v]
BY Idle, WorkSet DEF Done

LEMMA ClaimFacts ==
    ASSUME TypeOK, NEW w \in Workers, NEW r \in Recipients, Claim(w, r)
    PROVE  /\ work' \in [Workers -> WorkType]
           /\ work[w].pc = "idle" /\ work'[w].pc = "read" /\ work'[w].cur = r /\ work'[w].result = "NONE"
           /\ \A v \in Workers \ {w} : work'[v] = work[v]
<1> DEFINE new == [NoWork EXCEPT !.pc = "read", !.cur = r]
<1>1. new \in WorkType /\ new.pc = "read" /\ new.cur = r /\ new.result = "NONE"
  BY Idle DEF WorkType
<1>2. work' = [work EXCEPT ![w] = new] /\ work[w].pc = "idle"
  BY DEF Claim, InWork
<1> HIDE DEF new
<1> QED
  BY <1>1, <1>2, WorkSet

LEMMA ReadFacts ==
    ASSUME TypeOK, NEW w \in Workers, ReadRow(w)
    PROVE  /\ work' \in [Workers -> WorkType]
           /\ work[w].pc = "read" /\ work'[w].pc = Turn(work[w].cur)
           /\ work'[w].cur = work[w].cur /\ work'[w].result = work[w].result
           /\ work'[w].known = (work[w].cur \in linked)
           /\ \A v \in Workers \ {w} : work'[v] = work[v]
<1> DEFINE turn == Turn(work[w].cur)
           here == work[w].cur \in linked
           new == [work[w] EXCEPT !.pc = turn, !.known = here]
<1>1. work[w] \in WorkType /\ work[w].pc = "read"
  BY DEF TypeOK, ReadRow, InWork
<1>2. turn \in {"cancelled", "defer", "finish", "start", "send"} /\ here \in BOOLEAN
  BY DEF Turn
<1>3. work' = [work EXCEPT ![w] = new]
  BY DEF ReadRow
<1> HIDE DEF turn, here
<1>4. new \in WorkType /\ new.pc = turn /\ new.cur = work[w].cur /\ new.result = work[w].result
      /\ new.known = here
  BY <1>1, <1>2 DEF WorkType
<1> HIDE DEF new
<1>5. /\ work' \in [Workers -> WorkType] /\ work'[w] = new
      /\ \A v \in Workers \ {w} : work'[v] = work[v]
  BY <1>3, <1>4, WorkSet
<1> QED
  BY <1>1, <1>4, <1>5 DEF turn, here

LEMMA StartFacts ==
    ASSUME TypeOK, NEW w \in Workers, StartRecipient(w)
    PROVE  /\ work' \in [Workers -> WorkType]
           /\ work[w].pc = "start" /\ work'[w].pc = "send"
           /\ work'[w].cur = work[w].cur /\ work'[w].result = work[w].result
           /\ work'[w].known = work[w].known
           /\ \A v \in Workers \ {w} : work'[v] = work[v]
<1> DEFINE new == [work[w] EXCEPT !.pc = "send"]
<1>1. work[w] \in WorkType /\ work[w].pc = "start"
  BY DEF TypeOK, StartRecipient, InWork
<1>2. new \in WorkType /\ new.pc = "send" /\ new.cur = work[w].cur /\ new.result = work[w].result
      /\ new.known = work[w].known
  BY <1>1 DEF WorkType
<1>3. work' = [work EXCEPT ![w] = new]
  BY DEF StartRecipient, WorkGoto
<1> HIDE DEF new
<1> QED
  BY <1>1, <1>2, <1>3, WorkSet

LEMMA SendFacts ==
    ASSUME TypeOK, NEW w \in Workers, Send(w)
    PROVE  /\ work' \in [Workers -> WorkType]
           /\ work[w].pc = "send" /\ work'[w].pc = "count" /\ work'[w].result # "NONE"
           /\ work'[w].cur = work[w].cur /\ work'[w].known = work[w].known
           /\ \/ /\ work'[w].result = "SENT" /\ lost' = lost
                 /\ sent' = [sent EXCEPT ![work[w].cur] = @ + 1]
              \/ /\ work'[w].result # "SENT"
                 /\ sent' = [sent EXCEPT ![work[w].cur] = @ + 1]
                 /\ lost' = [lost EXCEPT ![work[w].cur] = @ + 1]
              \/ work'[w].result # "SENT" /\ lost' = lost /\ sent' = sent
           /\ faults' \in Nat
           /\ \A v \in Workers \ {w} : work'[v] = work[v]
<1>1. work[w] \in WorkType /\ work[w].pc = "send"
  BY DEF TypeOK, Send, InWork
<1>2. ASSUME NEW o \in {"SENT", "RETRY", "FAILED"},
             work' = [work EXCEPT ![w] = [@ EXCEPT !.pc = "count", !.result = o]]
      PROVE  /\ work' \in [Workers -> WorkType]
             /\ work'[w].pc = "count" /\ work'[w].result = o
             /\ work'[w].cur = work[w].cur /\ work'[w].known = work[w].known
             /\ \A v \in Workers \ {w} : work'[v] = work[v]
  <2> DEFINE new == [work[w] EXCEPT !.pc = "count", !.result = o]
  <2>1. new \in WorkType /\ new.pc = "count" /\ new.cur = work[w].cur /\ new.result = o
        /\ new.known = work[w].known
    BY <1>1 DEF WorkType
  <2>2. work' = [work EXCEPT ![w] = new]
    BY <1>2
  <2> HIDE DEF new
  <2> QED
    BY <2>1, <2>2, WorkSet
<1>3. faults' \in Nat
  BY DEF Send, Fault, TypeOK
<1> QED
  BY <1>1, <1>2, <1>3 DEF Send

LEMMA CountFacts ==
    ASSUME TypeOK, NEW w \in Workers, CountRecipients(w)
    PROVE  /\ work' \in [Workers -> WorkType]
           /\ work[w].pc = "count" /\ work'[w].pc = "commit"
           /\ work'[w].cur = work[w].cur /\ work'[w].result = work[w].result
           /\ work'[w].known = work[w].known
           /\ \A v \in Workers \ {w} : work'[v] = work[v]
<1> DEFINE yes == /\ OwnIsFinished(w)
                  /\ \A q \in Recipients \ {work[w].cur} : recipient[q] \notin Unfinished
           new == [work[w] EXCEPT !.pc = "commit", !.alone = yes]
<1>1. work[w] \in WorkType /\ work[w].pc = "count"
  BY DEF TypeOK, CountRecipients, InWork
<1>2. yes \in BOOLEAN
  BY DEF OwnIsFinished
<1>3. work' = [work EXCEPT ![w] = new]
  BY DEF CountRecipients
<1> HIDE DEF yes
<1>4. new \in WorkType /\ new.pc = "commit" /\ new.cur = work[w].cur /\ new.result = work[w].result
      /\ new.known = work[w].known
  BY <1>1, <1>2 DEF WorkType
<1> HIDE DEF new
<1> QED
  BY <1>1, <1>3, <1>4, WorkSet
-----------------------------------------------------------------------------
LEMMA ReadControlFacts ==
    ASSUME TypeOK, NEW a \in Requests, NEW op \in {"update", "cancel", "retryFailed", "archive", "restore"},
           ReadControl(a, op)
    PROVE  /\ req' \in [Requests -> ReqType] /\ requests' \in Nat
           /\ req'[a].ids \subseteq linked
           /\ \A b \in Requests \ {a} : req'[b] = req[b]
<1> DEFINE found == IF op = "retryFailed" THEN {r \in linked : recipient[r] = "FAILED"} ELSE {}
           goal == IF op = "restore" THEN RestoredStatus ELSE "DRAFT"
           new == [op |-> op, ids |-> found, to |-> goal]
<1>1. found \subseteq linked /\ linked \subseteq Recipients
  BY DEF TypeOK
<1>2. goal \in {"COMPLETED", "CANCELLED", "FAILED", "DRAFT"}
  BY DEF RestoredStatus
<1>3. req' = [req EXCEPT ![a] = new] /\ requests' \in Nat
  BY DEF ReadControl, Ask, TypeOK
<1> HIDE DEF found, goal
<1>4. new \in ReqType /\ new.ids = found
  BY <1>1, <1>2 DEF ReqType
<1> HIDE DEF new
<1> QED
  BY <1>1, <1>3, <1>4, ReqSet

LEMMA OpenCancelFacts ==
    ASSUME TypeOK, NEW a \in Requests, OpenCancel(a)
    PROVE  /\ req' \in [Requests -> ReqType]
           /\ req'[a].ids \subseteq linked
           /\ \A b \in Requests \ {a} : req'[b] = req[b]
<1> DEFINE found == {r \in linked : recipient[r] \in {"PENDING", "QUEUED"}}
           new == [req[a] EXCEPT !.op = "cancelling", !.ids = found]
<1>1. found \subseteq linked /\ linked \subseteq Recipients /\ req[a] \in ReqType
  BY DEF TypeOK
<1>2. req' = [req EXCEPT ![a] = new]
  BY DEF OpenCancel
<1> HIDE DEF found
<1>3. new \in ReqType /\ new.ids = found
  BY <1>1 DEF ReqType
<1> HIDE DEF new
<1> QED
  BY <1>1, <1>2, <1>3, ReqSet

LEMMA ReqDoneFacts ==
    ASSUME TypeOK, NEW a \in Requests, req' = [req EXCEPT ![a] = NoReq]
    PROVE  /\ req' \in [Requests -> ReqType]
           /\ req'[a].ids = {}
           /\ \A b \in Requests \ {a} : req'[b] = req[b]
BY Idle, ReqSet
-----------------------------------------------------------------------------
(* The parts of the state that the controls, the preparation and the handlers
   write, each with its type. *)
ProcType == /\ prep' \in [Preparers -> PrepType] /\ work' \in [Workers -> WorkType]
            /\ req' \in [Requests -> ReqType]
CampaignType == /\ status' \in BroadcastStatuses
                /\ stamps' \subseteq {"completed", "cancelled", "failed"}
                /\ lock' \in Preparers \cup {Nobody} /\ lockOld' \in BOOLEAN
RowsType == /\ recipient' \in [Recipients -> RecipientStatuses]
            /\ linked' \subseteq Recipients
            /\ outbox' \in [Recipients -> RowStatuses]
            /\ holder' \in [Recipients -> Workers \cup {Nobody}]
            /\ leaseOld' \in [Recipients -> BOOLEAN]
            /\ message' \in [Recipients -> {"NONE", "QUEUED", "SENT", "FAILED"}]
PastType == /\ sent' \in [Recipients -> Nat] /\ lost' \in [Recipients -> Nat]
            /\ dropped' \subseteq Recipients /\ disturbed' \subseteq Recipients
            /\ eligible' \subseteq Recipients
            /\ requests' \in Nat /\ faults' \in Nat

LEMMA TypeParts ==
    ASSUME ProcType, CampaignType, RowsType, PastType PROVE TypeOK'
BY DEF ProcType, CampaignType, RowsType, PastType, TypeOK

LEMMA TypeControl == ASSUME TypeOK, Control PROVE TypeOK'
<1> USE DEF campaignVars, deliveryVars, historyVars
<1>1. ASSUME Launch \/ Pause \/ Resume PROVE TypeOK'
  <2>1. CampaignType
    BY <1>1 DEF Launch, Pause, Resume, Move, TypeOK, CampaignType, BroadcastStatuses
  <2>2. ProcType /\ RowsType
    BY <1>1 DEF Launch, Pause, Resume, TypeOK, ProcType, RowsType
  <2>3. PastType
    BY <1>1 DEF Launch, Pause, Resume, Ask, TypeOK, PastType
  <2> QED
    BY <2>1, <2>2, <2>3, TypeParts
<1>2. ASSUME NEW a \in Requests, NEW op \in {"update", "cancel", "retryFailed", "archive", "restore"},
             ReadControl(a, op)
      PROVE  TypeOK'
  BY <1>2, ReadControlFacts DEF TypeOK, ReadControl
<1>3. ASSUME NEW a \in Requests, OpenCancel(a) PROVE TypeOK'
  BY <1>3, OpenCancelFacts DEF TypeOK, OpenCancel
<1>4. ASSUME NEW a \in Requests, Update(a) \/ Archive(a) \/ Restore(a) PROVE TypeOK'
  <2>1. req[a].to \in {"COMPLETED", "CANCELLED", "FAILED", "DRAFT"}
    BY DEF TypeOK, ReqType
  <2>2. req' \in [Requests -> ReqType]
    BY <1>4, ReqDoneFacts DEF Update, Archive, Restore
  <2>3. ProcType /\ RowsType /\ PastType
    BY <1>4, <2>2 DEF Update, Archive, Restore, TypeOK, ProcType, RowsType, PastType
  <2>4. CampaignType
    <3>1. CASE Update(a)
      BY <3>1 DEF Update, Move, TypeOK, CampaignType, BroadcastStatuses
    <3>2. CASE Archive(a)
      BY <3>2 DEF Archive, Move, TypeOK, CampaignType, BroadcastStatuses
    <3>3. CASE Restore(a)
      BY <3>3, <2>1 DEF Restore, Move, TypeOK, CampaignType, BroadcastStatuses
    <3> QED
      BY <1>4, <3>1, <3>2, <3>3
  <2> QED
    BY <2>3, <2>4, TypeParts
<1>5. ASSUME NEW a \in Requests, Cancel(a) \/ RetryFailed(a) PROVE TypeOK'
  <2>1. req[a].ids \subseteq Recipients
    BY DEF TypeOK, ReqType
  <2>2. req' \in [Requests -> ReqType]
    BY <1>5, ReqDoneFacts DEF Cancel, RetryFailed
  <2>3. recipient' \in [Recipients -> RecipientStatuses] /\ outbox' \in [Recipients -> RowStatuses]
    BY <1>5 DEF Cancel, RetryFailed, TypeOK, RecipientStatuses, RowStatuses
  <2>4. message' \in [Recipients -> {"NONE", "QUEUED", "SENT", "FAILED"}] /\ disturbed' \subseteq Recipients
    BY <1>5, <2>1 DEF Cancel, RetryFailed, TypeOK
  <2>5. CampaignType
    BY <1>5 DEF Cancel, RetryFailed, TypeOK, CampaignType, BroadcastStatuses
  <2>6. ProcType /\ RowsType /\ PastType
    BY <1>5, <2>2, <2>3, <2>4 DEF Cancel, RetryFailed, TypeOK, ProcType, RowsType, PastType
  <2> QED
    BY <2>5, <2>6, TypeParts
<1>6. ASSUME NEW r \in Recipients, OperatorRetry(r) PROVE TypeOK'
  <2>1. RowsType
    BY <1>6, BroadcastsAssumption DEF OperatorRetry, TypeOK, RowsType, RecipientStatuses, RowStatuses
  <2>2. ProcType /\ CampaignType
    BY <1>6 DEF OperatorRetry, TypeOK, ProcType, CampaignType
  <2>3. PastType
    BY <1>6 DEF OperatorRetry, Ask, TypeOK, PastType
  <2> QED
    BY <2>1, <2>2, <2>3, TypeParts
<1> QED
  BY <1>1, <1>2, <1>3, <1>4, <1>5, <1>6 DEF Control
(* Whoever is at work on a recipient names one. *)
Busy == /\ \A p \in Preparers : prep[p].pc = "link" => prep[p].cur \in prep[p].todo
        /\ \A w \in Workers : /\ work[w].pc # "idle" => work[w].cur \in Recipients
                              /\ work[w].result # "NONE" => work[w].pc \in {"count", "commit"}

LEMMA TypePrepare ==
    ASSUME TypeOK, Busy, NEW p \in Preparers, Prepare(p) \/ PrepareFails(p) \/ PreparerDies(p)
    PROVE  TypeOK'
<1> USE DEF campaignVars, deliveryVars, historyVars
<1>0. prep[p] \in PrepType
  BY DEF TypeOK
<1>1. CASE LockBroadcast(p)
  <2>1. prep' \in [Preparers -> PrepType]
    BY <1>1, PrepGotoFacts DEF LockBroadcast
  <2> QED
    BY <1>1, <2>1 DEF LockBroadcast, TypeOK
<1>2. CASE ResolveAudience(p)
  BY <1>2, ResolveFacts DEF ResolveAudience, TypeOK
<1>3. CASE RefuseChannel(p)
  <2>1. prep' \in [Preparers -> PrepType]
    BY <1>3, PrepGotoFacts, PrepDoneFacts DEF RefuseChannel
  <2>2. CampaignType
    BY <1>3 DEF RefuseChannel, TypeOK, CampaignType, BroadcastStatuses, Move
  <2>3. ProcType /\ RowsType /\ PastType
    BY <1>3, <2>1 DEF RefuseChannel, TypeOK, ProcType, RowsType, PastType
  <2> QED
    BY <2>2, <2>3, TypeParts
<1>4. CASE InsertRecipients(p)
  <2>1. prep' \in [Preparers -> PrepType]
    BY <1>4, PrepGotoFacts DEF InsertRecipients
  <2>2. CampaignType
    BY <1>4 DEF InsertRecipients, TypeOK, CampaignType, BroadcastStatuses, Move
  <2>3. recipient' \in [Recipients -> RecipientStatuses]
    BY <1>4 DEF InsertRecipients, TypeOK, RecipientStatuses
  <2>4. ProcType /\ RowsType /\ PastType
    BY <1>4, <2>1, <2>3 DEF InsertRecipients, TypeOK, ProcType, RowsType, PastType
  <2> QED
    BY <2>2, <2>4, TypeParts
<1>5. CASE ReadPending(p)
  BY <1>5, PendingFacts DEF ReadPending, TypeOK
<1>6. CASE CountUnfinished(p)
  <2>1. prep' \in [Preparers -> PrepType]
    BY <1>6, PrepGotoFacts, PrepDoneFacts DEF CountUnfinished
  <2> QED
    BY <1>6, <2>1 DEF CountUnfinished, TypeOK
<1>7. CASE CompleteAfterLoop(p)
  <2>1. prep' \in [Preparers -> PrepType]
    BY <1>7, PrepDoneFacts DEF CompleteAfterLoop
  <2>2. CampaignType
    BY <1>7 DEF CompleteAfterLoop, TypeOK, CampaignType, BroadcastStatuses, Move
  <2>3. ProcType /\ RowsType /\ PastType
    BY <1>7, <2>1 DEF CompleteAfterLoop, TypeOK, ProcType, RowsType, PastType
  <2> QED
    BY <2>2, <2>3, TypeParts
<1>8. ASSUME NEW r \in Recipients, RefuseTemplate(p, r) PROVE TypeOK'
  <2>1. prep' \in [Preparers -> PrepType]
    BY <1>8, PrepDropFacts DEF RefuseTemplate
  <2>2. recipient' \in [Recipients -> RecipientStatuses]
    BY <1>8 DEF RefuseTemplate, TypeOK, RecipientStatuses
  <2> QED
    BY <1>8, <2>1, <2>2 DEF RefuseTemplate, TypeOK
<1>9. ASSUME NEW r \in Recipients, ReadRunning(p, r) PROVE TypeOK'
  <2>1. prep' \in [Preparers -> PrepType] /\ dropped' \subseteq Recipients
    BY <1>9, RunningFacts DEF TypeOK
  <2> QED
    BY <1>9, <2>1 DEF ReadRunning, TypeOK
<1>10. Abandoned(p) \subseteq Recipients
  BY <1>0 DEF Abandoned, PrepType
<1>11. CASE LinkRecipient(p)
  <2>1. prep' \in [Preparers -> PrepType] /\ dropped' \subseteq Recipients
    BY <1>10, <1>11, LinkFacts DEF TypeOK
  <2>2. CASE outbox[prep[p].cur] = "NONE"
    <3>1. recipient' \in [Recipients -> RecipientStatuses] /\ outbox' \in [Recipients -> RowStatuses]
          /\ message' \in [Recipients -> {"NONE", "QUEUED", "SENT", "FAILED"}]
      BY <1>11, <2>2 DEF LinkRecipient, TypeOK, RecipientStatuses, RowStatuses
    <3>2. linked' \subseteq Recipients
      BY <1>0, <1>11, <2>2 DEF LinkRecipient, TypeOK, Busy, InPrep, PrepType
    <3> QED
      BY <1>11, <2>1, <2>2, <3>1, <3>2 DEF LinkRecipient, TypeOK
  <2>3. CASE outbox[prep[p].cur] # "NONE"
    BY <1>11, <2>1, <2>3, LinkFacts DEF LinkRecipient, TypeOK
  <2> QED
    BY <2>2, <2>3
<1>12. CASE PrepareFails(p) \/ PreparerDies(p)
  <2>1. prep' \in [Preparers -> PrepType] /\ dropped' \subseteq Recipients
    BY <1>10, <1>12, PrepDoneFacts DEF PrepareFails, PreparerDies, TypeOK
  <2>2. CampaignType
    BY <1>12 DEF PrepareFails, PreparerDies, CampaignType, TypeOK
  <2>3. ProcType /\ RowsType /\ PastType
    BY <1>12, <2>1 DEF PrepareFails, PreparerDies, Fault, TypeOK, ProcType, RowsType, PastType
  <2> QED
    BY <2>2, <2>3, TypeParts
<1> QED
  BY <1>1, <1>2, <1>3, <1>4, <1>5, <1>6, <1>7, <1>8, <1>9, <1>11, <1>12 DEF Prepare

LEMMA TypeHandle ==
    ASSUME TypeOK, Busy, NEW w \in Workers, Handle(w) \/ HandlerDies(w)
    PROVE  TypeOK'
<1> USE DEF campaignVars, deliveryVars, historyVars
<1>0. work[w] \in WorkType /\ (work[w].pc # "idle" => work[w].cur \in Recipients)
  BY DEF TypeOK, Busy
<1>1. ASSUME NEW r \in Recipients, Claim(w, r) PROVE TypeOK'
  <2>1. work' \in [Workers -> WorkType]
    BY <1>1, ClaimFacts
  <2>2. outbox' \in [Recipients -> RowStatuses] /\ holder' \in [Recipients -> Workers \cup {Nobody}]
        /\ leaseOld' \in [Recipients -> BOOLEAN]
    BY <1>1 DEF Claim, TypeOK, RowStatuses
  <2> QED
    BY <1>1, <2>1, <2>2 DEF Claim, TypeOK
<1>2. CASE ReadRow(w)
  BY <1>2, ReadFacts DEF ReadRow, TypeOK
<1>3. CASE CancelRecipient(w) \/ DeferRecipient(w) \/ FinishSent(w)
  <2>1. work' \in [Workers -> WorkType]
    BY <1>3, DoneFacts DEF CancelRecipient, DeferRecipient, FinishSent
  <2>2. outbox' \in [Recipients -> RowStatuses] /\ holder' \in [Recipients -> Workers \cup {Nobody}]
    BY <1>3 DEF CancelRecipient, DeferRecipient, FinishSent, TypeOK, RowStatuses
  <2>3. message' \in [Recipients -> {"NONE", "QUEUED", "SENT", "FAILED"}]
        /\ recipient' \in [Recipients -> RecipientStatuses]
    BY <1>3 DEF CancelRecipient, DeferRecipient, FinishSent, TypeOK, RecipientStatuses
  <2> QED
    BY <1>3, <2>1, <2>2, <2>3 DEF CancelRecipient, DeferRecipient, FinishSent, TypeOK
<1>4. CASE StartRecipient(w)
  <2>1. work' \in [Workers -> WorkType]
    BY <1>4, StartFacts
  <2>2. recipient' \in [Recipients -> RecipientStatuses]
    BY <1>4 DEF StartRecipient, TypeOK, RecipientStatuses
  <2> QED
    BY <1>4, <2>1, <2>2 DEF StartRecipient, TypeOK
<1>5. CASE Send(w)
  <2>1. work' \in [Workers -> WorkType] /\ faults' \in Nat
    BY <1>5, SendFacts
  <2>2. sent' \in [Recipients -> Nat] /\ lost' \in [Recipients -> Nat]
    BY <1>5, SendFacts DEF TypeOK
  <2> QED
    BY <1>5, <2>1, <2>2 DEF Send, TypeOK
<1>6. CASE CountRecipients(w)
  BY <1>6, CountFacts DEF CountRecipients, TypeOK
<1>7. ASSUME NEW yes, CompleteIf(yes) PROVE status' \in BroadcastStatuses /\ stamps' \subseteq {"completed", "cancelled", "failed"}
  BY <1>7 DEF CompleteIf, Move, TypeOK, BroadcastStatuses
<1>8. CASE RecordSent(w)
  <2>1. work' \in [Workers -> WorkType]
    BY <1>8, DoneFacts DEF RecordSent
  <2>2. CampaignType
    BY <1>7, <1>8 DEF RecordSent, CampaignType, TypeOK
  <2>3. outbox' \in [Recipients -> RowStatuses] /\ recipient' \in [Recipients -> RecipientStatuses]
    BY <1>8 DEF RecordSent, TypeOK, RecipientStatuses, RowStatuses
  <2>4. holder' \in [Recipients -> Workers \cup {Nobody}] /\ lost' \in [Recipients -> Nat]
        /\ message' \in [Recipients -> {"NONE", "QUEUED", "SENT", "FAILED"}]
    BY <1>8 DEF RecordSent, TypeOK
  <2>5. ProcType /\ RowsType /\ PastType
    BY <1>8, <2>1, <2>3, <2>4 DEF RecordSent, TypeOK, ProcType, RowsType, PastType
  <2> QED
    BY <2>2, <2>5, TypeParts
<1>9. CASE RecordFailure(w)
  <2>1. work' \in [Workers -> WorkType]
    BY <1>9, DoneFacts DEF RecordFailure
  <2>2. CampaignType
    BY <1>7, <1>9 DEF RecordFailure, CampaignType, TypeOK
  <2>3. recipient' \in [Recipients -> RecipientStatuses]
    BY <1>9 DEF RecordFailure, TypeOK, RecipientStatuses
  <2>4. work[w].result \in RowStatuses \/ work[w].result = "NONE"
    BY <1>0, <1>9 DEF RecordFailure, WorkType, RowStatuses
  <2>5. outbox' \in [Recipients -> RowStatuses]
    BY <1>9, <2>4 DEF RecordFailure, TypeOK, RowStatuses
  <2>6. holder' \in [Recipients -> Workers \cup {Nobody}]
        /\ message' \in [Recipients -> {"NONE", "QUEUED", "SENT", "FAILED"}]
    BY <1>9 DEF RecordFailure, TypeOK
  <2>7. disturbed' \subseteq Recipients
    <3>1. work[w].cur \in Recipients
      BY <1>0, <1>9 DEF RecordFailure, InWork
    <3>2. disturbed' = disturbed \/ disturbed' = disturbed \cup {work[w].cur}
      BY <1>9 DEF RecordFailure
    <3> QED
      BY <3>1, <3>2 DEF TypeOK
  <2>8. ProcType /\ RowsType /\ PastType
    BY <1>9, <2>1, <2>3, <2>5, <2>6, <2>7 DEF RecordFailure, TypeOK, ProcType, RowsType, PastType
  <2> QED
    BY <2>2, <2>8, TypeParts
<1>10. CASE HandlerDies(w)
  <2>1. work' \in [Workers -> WorkType]
    BY <1>10, DoneFacts DEF HandlerDies
  <2>2. lost' \in [Recipients -> Nat]
    <3>1. work[w].cur \in Recipients
      BY <1>0, <1>10 DEF HandlerDies, InWork
    <3>2. lost' = lost \/ lost' = [lost EXCEPT ![work[w].cur] = lost[work[w].cur] + 1]
      BY <1>10 DEF HandlerDies
    <3> QED
      BY <3>1, <3>2 DEF TypeOK
  <2> QED
    BY <1>10, <2>1, <2>2 DEF HandlerDies, Fault, TypeOK
<1> QED
  BY <1>1, <1>2, <1>3, <1>4, <1>5, <1>6, <1>8, <1>9, <1>10 DEF Handle

LEMMA TypeNext == ASSUME TypeOK, Busy, [Next]_vars PROVE TypeOK'
<1> USE DEF campaignVars, deliveryVars, historyVars
<1>1. CASE ScheduleDue
  BY <1>1 DEF ScheduleDue, Move, TypeOK, BroadcastStatuses
<1>2. CASE LockAges
  BY <1>2 DEF LockAges, Fault, TypeOK
<1>3. ASSUME NEW r \in Recipients, RowAges(r) \/ RecoverRow(r) PROVE TypeOK'
  <2>1. RowsType
    BY <1>3 DEF RowAges, RecoverRow, TypeOK, RowStatuses, RowsType
  <2>2. faults' \in Nat
    BY <1>3 DEF RowAges, RecoverRow, Fault, TypeOK
  <2>3. ProcType /\ CampaignType /\ PastType
    BY <1>3, <2>2 DEF RowAges, RecoverRow, TypeOK, ProcType, CampaignType, PastType
  <2> QED
    BY <2>1, <2>3, TypeParts
<1>4. CASE UNCHANGED vars
  BY <1>4 DEF vars, TypeOK
<1> QED
  BY <1>1, <1>2, <1>3, <1>4, TypeControl, TypePrepare, TypeHandle DEF Next

LEMMA BusyInit == Init => Busy
BY Idle DEF Init, Busy

LEMMA BusyPrepare ==
    ASSUME TypeOK, Busy, NEW p \in Preparers, Prepare(p) \/ PrepareFails(p) \/ PreparerDies(p)
    PROVE  Busy'
<1>1. work' = work
  BY DEF Prepare, LockBroadcast, ResolveAudience, RefuseChannel, InsertRecipients, ReadPending,
         CountUnfinished, CompleteAfterLoop, RefuseTemplate, ReadRunning, LinkRecipient,
         PrepareFails, PreparerDies
<1>2. SUFFICES /\ \A q \in Preparers \ {p} : prep'[q] = prep[q]
               /\ prep'[p].pc = "link" => prep'[p].cur \in prep'[p].todo
  BY <1>1 DEF Busy
<1>3. CASE LockBroadcast(p)
  BY <1>3, PrepGotoFacts DEF LockBroadcast
<1>4. CASE ResolveAudience(p)
  BY <1>4, ResolveFacts
<1>5. CASE RefuseChannel(p)
  BY <1>5, PrepGotoFacts, PrepDoneFacts DEF RefuseChannel
<1>6. CASE InsertRecipients(p)
  BY <1>6, PrepGotoFacts DEF InsertRecipients
<1>7. CASE ReadPending(p)
  BY <1>7, PendingFacts
<1>8. CASE CountUnfinished(p) \/ CompleteAfterLoop(p)
  BY <1>8, PrepGotoFacts, PrepDoneFacts DEF CountUnfinished, CompleteAfterLoop
<1>9. ASSUME NEW r \in Recipients, RefuseTemplate(p, r)
      PROVE  /\ \A q \in Preparers \ {p} : prep'[q] = prep[q]
             /\ prep'[p].pc = "link" => prep'[p].cur \in prep'[p].todo
  BY <1>9, PrepDropFacts DEF RefuseTemplate, InPrep
<1>10. ASSUME NEW r \in Recipients, ReadRunning(p, r)
       PROVE  /\ \A q \in Preparers \ {p} : prep'[q] = prep[q]
              /\ prep'[p].pc = "link" => prep'[p].cur \in prep'[p].todo
  BY <1>10, RunningFacts
<1>11. CASE LinkRecipient(p)
  BY <1>11, LinkFacts
<1>12. CASE PrepareFails(p) \/ PreparerDies(p)
  BY <1>12, PrepDoneFacts DEF PrepareFails, PreparerDies
<1> QED
  BY <1>3, <1>4, <1>5, <1>6, <1>7, <1>8, <1>9, <1>10, <1>11, <1>12 DEF Prepare

LEMMA BusyHandle ==
    ASSUME TypeOK, Busy, NEW w \in Workers, Handle(w) \/ HandlerDies(w)
    PROVE  Busy'
<1>0. /\ work[w].pc # "idle" => work[w].cur \in Recipients
      /\ work[w].result # "NONE" => work[w].pc \in {"count", "commit"}
  BY DEF Busy
<1>1. prep' = prep
  BY DEF Handle, HandlerDies, Claim, ReadRow, CancelRecipient, DeferRecipient, FinishSent,
         StartRecipient, Send, CountRecipients, RecordSent, RecordFailure
<1>2. SUFFICES /\ \A v \in Workers \ {w} : work'[v] = work[v]
               /\ work'[w].pc # "idle" => work'[w].cur \in Recipients
               /\ work'[w].result # "NONE" => work'[w].pc \in {"count", "commit"}
  BY <1>1 DEF Busy
<1>3. ASSUME NEW r \in Recipients, Claim(w, r)
      PROVE  /\ \A v \in Workers \ {w} : work'[v] = work[v]
             /\ work'[w].pc # "idle" => work'[w].cur \in Recipients
             /\ work'[w].result # "NONE" => work'[w].pc \in {"count", "commit"}
  BY <1>3, ClaimFacts
<1>4. CASE ReadRow(w)
  BY <1>0, <1>4, ReadFacts
<1>5. CASE StartRecipient(w)
  BY <1>0, <1>5, StartFacts
<1>6. CASE Send(w)
  BY <1>0, <1>6, SendFacts
<1>7. CASE CountRecipients(w)
  BY <1>0, <1>7, CountFacts
<1>8. CASE Done(w)
  BY <1>8, DoneFacts
<1> QED
  BY <1>3, <1>4, <1>5, <1>6, <1>7, <1>8
  DEF Handle, CancelRecipient, DeferRecipient, FinishSent, RecordSent, RecordFailure, HandlerDies

LEMMA BusyNext == ASSUME TypeOK, Busy, [Next]_vars PROVE Busy'
<1>1. CASE Control
  BY <1>1, ZenonT(60) DEF Control, Launch, Pause, Resume, ReadControl, Update, OpenCancel, Cancel, RetryFailed,
              Archive, Restore, OperatorRetry, Busy
<1>2. CASE UNCHANGED <<prep, work>>
  BY <1>2 DEF Busy
<1> QED
  BY <1>1, <1>2, BusyPrepare, BusyHandle
  DEF Next, ScheduleDue, LockAges, RowAges, RecoverRow, vars

(* Every variable has its type, whatever controls, loops and handlers do. *)
THEOREM BroadcastTypeCorrect == Spec => []TypeOK
<1>1. Init => TypeOK /\ Busy
  BY TypeInit, BusyInit
<1>2. TypeOK /\ Busy /\ [Next]_vars => (TypeOK /\ Busy)'
  BY TypeNext, BusyNext
<1> QED
  BY <1>1, <1>2, PTL DEF Spec
-----------------------------------------------------------------------------
(* What holds of one recipient and its row, of a handler at a row, of a loop and
   of a control request between its read and its write. *)
Row(r) ==
    /\ recipient[r] \in {"QUEUED", "PROCESSING", "SENT"} => r \in linked
    /\ r \in linked => outbox[r] # "NONE" /\ recipient[r] \notin {"NONE", "PENDING"}
    /\ outbox[r] # "NONE" /\ r \notin linked => recipient[r] \in {"CANCELLED", "FAILED"}
    /\ recipient[r] \in {"QUEUED", "PROCESSING"} /\ r \notin disturbed => outbox[r] \in Live
    /\ r \in linked /\ recipient[r] = "FAILED" /\ r \notin disturbed => outbox[r] = "FAILED"
    /\ message[r] = "SENT" => outbox[r] = "SUCCEEDED"
    /\ recipient[r] = "SENT" => outbox[r] = "SUCCEEDED"

AtRow(w) ==
    /\ work[w].pc # "idle" => outbox[work[w].cur] # "NONE"
    /\ work[w].pc \notin {"idle", "read"} => work[w].known = (work[w].cur \in linked)
    /\ work[w].pc = "finish" => outbox[work[w].cur] = "SUCCEEDED"
    /\ work[w].pc \in {"count", "commit"} => work[w].result # "NONE"
    /\ work[w].pc \in {"send", "count", "commit"} /\ HoldsRow(w) /\ work[w].cur \notin disturbed
          => recipient[work[w].cur] # "QUEUED"

OnList(p) == prep[p].pc \in {"loop", "link"} => \A r \in prep[p].todo : recipient[r] # "NONE"
Asked(a) == req[a].ids \subseteq linked

RowsInv == /\ \A r \in Recipients : Row(r)
           /\ \A w \in Workers : AtRow(w)
           /\ \A p \in Preparers : OnList(p)
           /\ \A a \in Requests : Asked(a)

LEMMA RowsInit == Init => RowsInv
<1> SUFFICES ASSUME Init PROVE RowsInv
  OBVIOUS
<1>1. \A r \in Recipients : Row(r)
  BY DEF Init, Row
<1>2. \A w \in Workers : AtRow(w)
  BY Idle DEF Init, AtRow
<1>3. (\A p \in Preparers : OnList(p)) /\ (\A a \in Requests : Asked(a))
  BY Idle DEF Init, OnList, Asked
<1> QED
  BY <1>1, <1>2, <1>3 DEF RowsInv

(* Rows and recipients come into being and stay. *)
Grows == /\ \A r \in Recipients : /\ recipient[r] # "NONE" => recipient'[r] # "NONE"
                                  /\ outbox[r] # "NONE" => outbox'[r] # "NONE"
         /\ linked \subseteq linked'

LEMMA StepGrows == ASSUME TypeOK, RowsInv, [Next]_vars PROVE Grows
<1> USE DEF campaignVars, deliveryVars, historyVars, Grows
<1>0. recipient \in [Recipients -> RecipientStatuses] /\ outbox \in [Recipients -> RowStatuses]
  BY DEF TypeOK
<1>1. CASE UNCHANGED <<recipient, linked, outbox>>
  BY <1>1
<1>2. ASSUME NEW a \in Requests, Cancel(a) \/ RetryFailed(a) PROVE Grows
  BY <1>0, <1>2 DEF Cancel, RetryFailed
<1>3. ASSUME NEW p \in Preparers, InsertRecipients(p) PROVE Grows
  BY <1>0, <1>3 DEF InsertRecipients
<1>4. ASSUME NEW p \in Preparers, NEW r \in Recipients, RefuseTemplate(p, r) PROVE Grows
  BY <1>0, <1>4 DEF RefuseTemplate
<1>5. ASSUME NEW p \in Preparers, LinkRecipient(p) PROVE Grows
  BY <1>0, <1>5 DEF LinkRecipient
<1>6. ASSUME NEW r \in Recipients, RecoverRow(r) PROVE Grows
  BY <1>0, <1>6 DEF RecoverRow
<1>7. ASSUME NEW w \in Workers, NEW r \in Recipients, Claim(w, r) PROVE Grows
  BY <1>0, <1>7 DEF Claim
<1>8. ASSUME NEW w \in Workers, CancelRecipient(w) \/ DeferRecipient(w) \/ FinishSent(w) PROVE Grows
  BY <1>0, <1>8 DEF CancelRecipient, DeferRecipient, FinishSent
<1>9. ASSUME NEW w \in Workers, StartRecipient(w) PROVE Grows
  BY <1>0, <1>9 DEF StartRecipient
<1>10. ASSUME NEW w \in Workers, RecordSent(w) PROVE Grows
  BY <1>0, <1>10 DEF RecordSent
<1>11. ASSUME NEW w \in Workers, RecordFailure(w) PROVE Grows
  <2>1. work[w].result # "NONE"
    BY <1>11 DEF RecordFailure, InWork, RowsInv, AtRow
  <2>2. outbox' = outbox \/ outbox' = [outbox EXCEPT ![work[w].cur] = work[w].result]
    BY <1>11 DEF RecordFailure
  <2>3. linked' = linked /\ \A r \in Recipients : recipient[r] # "NONE" => recipient'[r] # "NONE"
    BY <1>0, <1>11 DEF RecordFailure
  <2> QED
    BY <1>0, <2>1, <2>2, <2>3
<1>12. ASSUME NEW r \in Recipients, OperatorRetry(r) PROVE Grows
  BY <1>0, <1>12 DEF OperatorRetry
<1> QED
  BY <1>12, <1>1, <1>2, <1>3, <1>4, <1>5, <1>6, <1>7, <1>8, <1>9, <1>10, <1>11, ZenonT(60)
  DEF Next, Control, Prepare, Handle, vars, Launch, Pause, Resume, ReadControl, Update, OpenCancel,
      Archive, Restore, ScheduleDue, LockAges, LockBroadcast, ResolveAudience, RefuseChannel,
      ReadPending, CountUnfinished, CompleteAfterLoop, ReadRunning, PrepareFails, PreparerDies,
      ReadRow, Send, CountRecipients, HandlerDies, RowAges

(* The lists and the requests follow. *)
LEMMA ListsNext ==
    ASSUME TypeOK, RowsInv, [Next]_vars, Grows
    PROVE  (\A p \in Preparers : OnList(p)') /\ (\A a \in Requests : Asked(a)')
<1>1. \A p \in Preparers : prep[p] \in PrepType
  BY DEF TypeOK
<1>2. ASSUME NEW p \in Preparers, \/ prep'[p] = prep[p]
                                 \/ prep'[p].pc \notin {"loop", "link"}
                                 \/ /\ prep[p].pc \in {"loop", "link"}
                                    /\ prep'[p].todo \subseteq prep[p].todo
      PROVE  OnList(p)'
  <2>1. prep[p].todo \subseteq Recipients /\ OnList(p)
    BY <1>1 DEF RowsInv, PrepType
  <2> QED
    BY <1>2, <2>1 DEF OnList, Grows
<1>3. ASSUME NEW a \in Requests, req'[a] = req[a] \/ req'[a].ids \subseteq linked PROVE Asked(a)'
  BY <1>3 DEF RowsInv, Asked, Grows
<1>4. \A a \in Requests : Asked(a)'
  <2>1. CASE Control
    <3>1. ASSUME NEW a \in Requests, req' = [req EXCEPT ![a] = NoReq] PROVE \A b \in Requests : Asked(b)'
      BY <1>3, <3>1, ReqDoneFacts
    <3>2. ASSUME NEW a \in Requests, NEW op \in {"update", "cancel", "retryFailed", "archive", "restore"},
                 ReadControl(a, op)
          PROVE  \A b \in Requests : Asked(b)'
      BY <1>3, <3>2, ReadControlFacts
    <3>3. ASSUME NEW a \in Requests, OpenCancel(a) PROVE \A b \in Requests : Asked(b)'
      BY <1>3, <3>3, OpenCancelFacts
    <3>4. CASE req' = req
      BY <1>3, <3>4
    <3> QED
      BY <2>1, <3>1, <3>2, <3>3, <3>4
      DEF Control, Launch, Pause, Resume, Update, Cancel, RetryFailed, Archive, Restore,
          OperatorRetry
  <2>2. CASE req' = req
    BY <1>3, <2>2
  <2> QED
    BY <2>1, <2>2, ZenonT(60)
    DEF Next, vars, Prepare, Handle, ScheduleDue, LockAges, LockBroadcast, ResolveAudience,
        RefuseChannel, InsertRecipients, ReadPending, CountUnfinished, CompleteAfterLoop,
        RefuseTemplate, ReadRunning, LinkRecipient, PrepareFails, PreparerDies, Claim, ReadRow,
        CancelRecipient, DeferRecipient, FinishSent, StartRecipient, Send, CountRecipients,
        RecordSent, RecordFailure, HandlerDies, RowAges, RecoverRow
<1>5. ASSUME NEW p \in Preparers, Prepare(p) \/ PrepareFails(p) \/ PreparerDies(p),
             NEW q \in Preparers
      PROVE  OnList(q)'
  <2>1. CASE LockBroadcast(p) \/ InsertRecipients(p)
    BY <1>2, <2>1, PrepGotoFacts DEF LockBroadcast, InsertRecipients
  <2>2. CASE ResolveAudience(p)
    BY <1>2, <2>2, ResolveFacts
  <2>3. CASE RefuseChannel(p) \/ CountUnfinished(p) \/ CompleteAfterLoop(p)
    BY <1>2, <2>3, PrepGotoFacts, PrepDoneFacts DEF RefuseChannel, CountUnfinished, CompleteAfterLoop
  <2>4. CASE ReadPending(p)
    <3>1. CASE q = p
      <4>1. \A r \in prep'[p].todo : r \in Recipients /\ recipient[r] = "PENDING"
        BY <2>4, PendingFacts
      <4>2. recipient' = recipient
        BY <2>4 DEF ReadPending
      <4> QED
        BY <3>1, <4>1, <4>2 DEF OnList
    <3>2. CASE q # p
      BY <1>2, <2>4, <3>2, PendingFacts
    <3> QED
      BY <3>1, <3>2
  <2>5. ASSUME NEW r \in Recipients, RefuseTemplate(p, r) PROVE OnList(q)'
    BY <1>2, <2>5, PrepDropFacts DEF RefuseTemplate, InPrep
  <2>6. ASSUME NEW r \in Recipients, ReadRunning(p, r) PROVE OnList(q)'
    BY <1>2, <2>6, RunningFacts
  <2>7. CASE LinkRecipient(p)
    BY <1>2, <2>7, LinkFacts
  <2>8. CASE PrepareFails(p) \/ PreparerDies(p)
    BY <1>2, <2>8, PrepDoneFacts DEF PrepareFails, PreparerDies
  <2> QED
    BY <1>5, <2>1, <2>2, <2>3, <2>4, <2>5, <2>6, <2>7, <2>8 DEF Prepare
<1>6. CASE prep' = prep
  BY <1>2, <1>4, <1>6
<1> QED
  BY <1>4, <1>5, <1>6, ZenonT(60)
  DEF Next, vars, Control, Handle, Launch, Pause, Resume, ReadControl, Update, OpenCancel, Cancel,
      RetryFailed, Archive, Restore, OperatorRetry, ScheduleDue, LockAges, Claim, ReadRow, CancelRecipient,
      DeferRecipient, FinishSent, StartRecipient, Send, CountRecipients, RecordSent, RecordFailure,
      HandlerDies, RowAges, RecoverRow
LEMMA RowNext ==
    ASSUME TypeOK, Busy, RowsInv, [Next]_vars, NEW r \in Recipients
    PROVE  Row(r)'
<1> USE DEF campaignVars, deliveryVars, historyVars
<1>0. /\ recipient \in [Recipients -> RecipientStatuses] /\ outbox \in [Recipients -> RowStatuses]
      /\ message \in [Recipients -> {"NONE", "QUEUED", "SENT", "FAILED"}]
  BY DEF TypeOK
<1>1. Row(r)
  BY DEF RowsInv
<1>2. CASE UNCHANGED <<recipient, linked, outbox, message, disturbed>>
  BY <1>1, <1>2 DEF Row
<1>3. ASSUME NEW a \in Requests, Cancel(a) PROVE Row(r)'
  BY <1>0, <1>1, <1>3 DEF Cancel, Row, Live
<1>4. ASSUME NEW a \in Requests, RetryFailed(a) PROVE Row(r)'
  <2>1. req[a].ids \subseteq linked
    BY DEF RowsInv, Asked
  <2> QED
    BY <1>0, <1>1, <1>4, <2>1 DEF RetryFailed, Row, Live
<1>5. ASSUME NEW p \in Preparers, InsertRecipients(p) PROVE Row(r)'
  BY <1>0, <1>1, <1>5 DEF InsertRecipients, Row, Live
<1>6. ASSUME NEW p \in Preparers, NEW q \in Recipients, RefuseTemplate(p, q) PROVE Row(r)'
  BY <1>0, <1>1, <1>6 DEF RefuseTemplate, Row, Live
<1>7. ASSUME NEW p \in Preparers, LinkRecipient(p) PROVE Row(r)'
  <2>1. prep[p].pc = "link" /\ prep[p].cur \in prep[p].todo /\ OnList(p)
    BY <1>7 DEF LinkRecipient, InPrep, Busy, RowsInv
  <2>2. recipient[prep[p].cur] # "NONE"
    BY <2>1 DEF OnList
  <2>3. CASE outbox[prep[p].cur] = "NONE"
    <3>1. /\ outbox'[r] = IF r = prep[p].cur THEN "PENDING" ELSE outbox[r]
          /\ message'[r] = IF r = prep[p].cur THEN "QUEUED" ELSE message[r]
          /\ recipient'[r] = IF r = prep[p].cur /\ recipient[r] = "PENDING" THEN "QUEUED" ELSE recipient[r]
          /\ r \in linked' <=> r \in linked \/ (r = prep[p].cur /\ recipient[r] = "PENDING")
          /\ disturbed' = disturbed
      BY <1>0, <1>7, <2>3 DEF LinkRecipient
    <3>2. recipient[r] \in RecipientStatuses
      BY <1>0
    <3> QED
      BY <1>1, <2>2, <2>3, <3>1, <3>2 DEF Row, Live, RecipientStatuses
  <2>4. CASE outbox[prep[p].cur] # "NONE"
    BY <1>1, <1>7, <2>4 DEF LinkRecipient, Row
  <2> QED
    BY <2>3, <2>4
<1>8. ASSUME NEW q \in Recipients, RecoverRow(q) PROVE Row(r)'
  BY <1>0, <1>1, <1>8 DEF RecoverRow, Row, Live
<1>9. ASSUME NEW w \in Workers, NEW q \in Recipients, Claim(w, q) PROVE Row(r)'
  BY <1>0, <1>1, <1>9 DEF Claim, Row, Live
<1>10. ASSUME NEW w \in Workers, CancelRecipient(w) \/ DeferRecipient(w) PROVE Row(r)'
  BY <1>0, <1>1, <1>10 DEF CancelRecipient, DeferRecipient, HoldsRow, Row, Live
<1>11. ASSUME NEW w \in Workers, FinishSent(w) PROVE Row(r)'
  <2>1. outbox[work[w].cur] = "SUCCEEDED"
    BY <1>11 DEF FinishSent, InWork, RowsInv, AtRow
  <2> QED
    BY <1>1, <1>11, <2>1 DEF FinishSent, HoldsRow, Row
<1>12. ASSUME NEW w \in Workers, StartRecipient(w) PROVE Row(r)'
  BY <1>0, <1>1, <1>12 DEF StartRecipient, Row, Live
<1>13. ASSUME NEW w \in Workers, RecordSent(w) PROVE Row(r)'
  <2>1. work[w].pc = "commit" /\ AtRow(w)
    BY <1>13 DEF RecordSent, InWork, RowsInv
  <2>2. /\ work[w].known = (work[w].cur \in linked)
        /\ HoldsRow(w) /\ work[w].cur \notin disturbed => recipient[work[w].cur] # "QUEUED"
    BY <2>1 DEF AtRow
  <2>3. CASE HoldsRow(w)
    BY <1>0, <1>1, <1>13, <2>2, <2>3, ZenonT(60) DEF RecordSent, HoldsRow, Row, Live
  <2>4. CASE ~HoldsRow(w)
    BY <1>1, <1>13, <2>4 DEF RecordSent, Row
  <2> QED
    BY <2>3, <2>4
<1>14. ASSUME NEW w \in Workers, RecordFailure(w) PROVE Row(r)'
  <2>1. work[w].pc = "commit" /\ AtRow(w) /\ work[w] \in WorkType
    BY <1>14 DEF RecordFailure, InWork, RowsInv, TypeOK
  <2>2. work[w].result \in {"RETRY", "FAILED"}
    BY <1>14, <2>1 DEF RecordFailure, AtRow, WorkType
  <2>3. CASE r # work[w].cur
    <3>1. /\ recipient'[r] = recipient[r] /\ outbox'[r] = outbox[r] /\ message'[r] = message[r]
          /\ linked' = linked /\ disturbed \subseteq disturbed'
      BY <1>0, <1>14, <2>3 DEF RecordFailure
    <3> QED
      BY <1>1, <3>1 DEF Row
  <2>4. CASE r = work[w].cur
    <3>1. /\ recipient'[r] = IF r \in linked /\ recipient[r] \in {"QUEUED", "PROCESSING"}
                             THEN IF work[w].result = "RETRY" THEN "QUEUED" ELSE "FAILED"
                             ELSE recipient[r]
          /\ message'[r] # "SENT" /\ linked' = linked
      BY <1>0, <1>14, <2>4 DEF RecordFailure
    <3>2. CASE HoldsRow(w)
      <4>1. outbox[r] = "PROCESSING" /\ outbox'[r] = work[w].result /\ disturbed' = disturbed
        BY <1>0, <1>14, <2>4, <3>2 DEF RecordFailure, HoldsRow
      <4> QED
        BY <1>1, <2>2, <3>1, <4>1 DEF Row, Live
    <3>3. CASE ~HoldsRow(w)
      <4>1. outbox' = outbox /\ r \in disturbed'
        BY <1>14, <2>4, <3>3 DEF RecordFailure
      <4> QED
        BY <1>1, <3>1, <4>1 DEF Row
    <3> QED
      BY <3>2, <3>3
  <2> QED
    BY <2>3, <2>4
<1>15. ASSUME NEW q \in Recipients, OperatorRetry(q) PROVE Row(r)'
  BY <1>0, <1>1, <1>15 DEF OperatorRetry, Row, Live
<1> QED
  BY <1>15, <1>2, <1>3, <1>4, <1>5, <1>6, <1>7, <1>8, <1>9, <1>10, <1>11, <1>12, <1>13, <1>14, ZenonT(60)
  DEF Next, Control, Prepare, Handle, vars, Launch, Pause, Resume, ReadControl, Update, OpenCancel,
      Archive, Restore, ScheduleDue, LockAges, LockBroadcast, ResolveAudience, RefuseChannel,
      ReadPending, CountUnfinished, CompleteAfterLoop, ReadRunning, PrepareFails, PreparerDies,
      ReadRow, Send, CountRecipients, HandlerDies, RowAges
(* A handler that does not move finds its row no worse. *)
LEMMA AtRowKept ==
    ASSUME TypeOK, Busy, RowsInv, [Next]_vars, Grows, NEW v \in Workers, work'[v] = work[v]
    PROVE  AtRow(v)'
<1> USE DEF campaignVars, deliveryVars, historyVars
<1> DEFINE c == work[v].cur
           Same == /\ c \in linked' <=> c \in linked
                   /\ outbox[c] = "SUCCEEDED" => outbox'[c] = "SUCCEEDED"
                   /\ HoldsRow(v)' /\ c \notin disturbed' /\ recipient'[c] = "QUEUED"
                         => HoldsRow(v) /\ c \notin disturbed /\ recipient[c] = "QUEUED"
<1>0. /\ recipient \in [Recipients -> RecipientStatuses] /\ outbox \in [Recipients -> RowStatuses]
      /\ holder \in [Recipients -> Workers \cup {Nobody}] /\ Nobody \notin Workers
  BY BroadcastsAssumption DEF TypeOK
<1>1. AtRow(v)
  BY DEF RowsInv
<1>2. CASE work[v].pc = "idle"
  BY <1>1, <1>2 DEF AtRow
<1>3. ASSUME work[v].pc # "idle", Same PROVE AtRow(v)'
  <2>1. c \in Recipients /\ outbox'[c] # "NONE"
    BY <1>1, <1>3 DEF Busy, AtRow, Grows
  <2> QED
    BY <1>1, <1>3, <2>1 DEF AtRow
<1>4. SUFFICES ASSUME work[v].pc # "idle" PROVE Same
  BY <1>2, <1>3
<1>5. c \in Recipients /\ outbox[c] # "NONE" /\ Row(c) /\ recipient[c] \in RecipientStatuses
  BY <1>0, <1>1, <1>4 DEF Busy, AtRow, RowsInv
<1> HIDE DEF c
<1>6. HoldsRow(v) = (outbox[c] = "PROCESSING" /\ holder[c] = v)
  BY DEF HoldsRow, c
<1>7. HoldsRow(v)' = (outbox'[c] = "PROCESSING" /\ holder'[c] = v)
  BY DEF HoldsRow, c
<1>8. CASE UNCHANGED <<recipient, linked, outbox, holder, disturbed>>
  BY <1>6, <1>7, <1>8
<1>9. ASSUME NEW a \in Requests, Cancel(a) PROVE Same
  BY <1>0, <1>5, <1>6, <1>7, <1>9 DEF Cancel
<1>10. ASSUME NEW a \in Requests, RetryFailed(a) PROVE Same
  <2>1. req[a].ids \subseteq linked
    BY DEF RowsInv, Asked
  <2> QED
    BY <1>0, <1>5, <1>6, <1>7, <1>10, <2>1 DEF RetryFailed, Row
<1>11. ASSUME NEW p \in Preparers, InsertRecipients(p) PROVE Same
  BY <1>0, <1>5, <1>6, <1>7, <1>11 DEF InsertRecipients
<1>12. ASSUME NEW p \in Preparers, NEW q \in Recipients, RefuseTemplate(p, q) PROVE Same
  BY <1>0, <1>5, <1>6, <1>7, <1>12 DEF RefuseTemplate
<1>13. ASSUME NEW p \in Preparers, LinkRecipient(p) PROVE Same
  BY <1>0, <1>5, <1>6, <1>7, <1>13 DEF LinkRecipient
<1>14. ASSUME NEW q \in Recipients, RecoverRow(q) PROVE Same
  BY <1>0, <1>5, <1>6, <1>7, <1>14 DEF RecoverRow
<1>15. ASSUME NEW w \in Workers, NEW q \in Recipients, Claim(w, q) PROVE Same
  <2>1. w # v
    BY <1>15, ClaimFacts
  <2> QED
    BY <1>0, <1>5, <1>6, <1>7, <1>15, <2>1 DEF Claim
<1>16. ASSUME NEW w \in Workers, CancelRecipient(w) \/ DeferRecipient(w) \/ FinishSent(w) PROVE Same
  BY <1>0, <1>5, <1>6, <1>7, <1>16 DEF CancelRecipient, DeferRecipient, FinishSent, HoldsRow
<1>17. ASSUME NEW w \in Workers, StartRecipient(w) PROVE Same
  BY <1>0, <1>5, <1>6, <1>7, <1>17 DEF StartRecipient
<1>18. ASSUME NEW w \in Workers, RecordSent(w) PROVE Same
  BY <1>0, <1>5, <1>6, <1>7, <1>18 DEF RecordSent, HoldsRow
<1>19. ASSUME NEW w \in Workers, RecordFailure(w) PROVE Same
  <2>1. linked' = linked /\ (HoldsRow(w) => outbox[work[w].cur] = "PROCESSING")
    BY <1>19 DEF RecordFailure, HoldsRow
  <2>2. CASE c # work[w].cur
    BY <1>0, <1>5, <1>6, <1>7, <1>19, <2>1, <2>2 DEF RecordFailure
  <2>3. CASE c = work[w].cur /\ HoldsRow(w)
    <3>1. outbox'[c] = work[w].result /\ outbox[c] = "PROCESSING"
      BY <1>0, <1>5, <1>19, <2>1, <2>3 DEF RecordFailure
    <3>2. work[w] \in WorkType
      BY DEF TypeOK
    <3> QED
      BY <1>7, <2>1, <3>1, <3>2 DEF WorkType
  <2>4. CASE c = work[w].cur /\ ~HoldsRow(w)
    BY <1>19, <2>1, <2>4 DEF RecordFailure
  <2> QED
    BY <2>2, <2>3, <2>4
<1>20. ASSUME NEW q \in Recipients, OperatorRetry(q) PROVE Same
  BY <1>0, <1>5, <1>6, <1>7, <1>20 DEF OperatorRetry
<1> HIDE DEF Same
<1> QED
  BY <1>20, <1>8, <1>9, <1>10, <1>11, <1>12, <1>13, <1>14, <1>15, <1>16, <1>17, <1>18, <1>19, ZenonT(60)
  DEF Next, Control, Prepare, Handle, vars, Launch, Pause, Resume, ReadControl, Update, OpenCancel,
      Archive, Restore, ScheduleDue, LockAges, LockBroadcast, ResolveAudience, RefuseChannel,
      ReadPending, CountUnfinished, CompleteAfterLoop, ReadRunning, PrepareFails, PreparerDies,
      ReadRow, Send, CountRecipients, HandlerDies, RowAges

LEMMA AtRowHandle ==
    ASSUME TypeOK, Busy, RowsInv, [Next]_vars, Grows, NEW w \in Workers, Handle(w) \/ HandlerDies(w)
    PROVE  AtRow(w)'
<1> USE DEF campaignVars, deliveryVars, historyVars
<1>0. /\ recipient \in [Recipients -> RecipientStatuses] /\ outbox \in [Recipients -> RowStatuses]
      /\ work[w].pc # "idle" => work[w].cur \in Recipients
      /\ AtRow(w)
  BY DEF TypeOK, Busy, RowsInv
<1>1. ASSUME NEW r \in Recipients, Claim(w, r) PROVE AtRow(w)'
  <2>1. outbox'[r] = "PROCESSING"
    BY <1>0, <1>1 DEF Claim
  <2> QED
    BY <1>1, <2>1, ClaimFacts DEF AtRow
<1>2. CASE ReadRow(w)
  <2>1. Row(work[w].cur) /\ outbox[work[w].cur] # "NONE" /\ work[w].cur \in Recipients
    BY <1>0, <1>2, ReadFacts DEF RowsInv, AtRow
  <2>2. UNCHANGED <<outbox, linked, recipient>>
    BY <1>2 DEF ReadRow
  <2>3. /\ work'[w].cur = work[w].cur /\ work'[w].known = (work[w].cur \in linked)
        /\ work'[w].pc = Turn(work[w].cur)
    BY <1>2, ReadFacts
  <2>4. /\ work'[w].pc \in {"cancelled", "defer", "finish", "start", "send"}
        /\ work'[w].pc = "finish" => message[work[w].cur] = "SENT"
        /\ work'[w].pc = "send" => work[w].cur \notin linked
    BY <2>3 DEF Turn
  <2> QED
    BY <2>1, <2>2, <2>3, <2>4 DEF AtRow, Row
<1>3. CASE StartRecipient(w)
  <2>1. recipient'[work[w].cur] # "QUEUED" /\ UNCHANGED <<outbox, linked>>
    BY <1>0, <1>3, StartFacts DEF StartRecipient
  <2> QED
    BY <1>0, <1>3, <2>1, StartFacts DEF AtRow
<1>4. CASE Send(w)
  <2>1. UNCHANGED <<outbox, linked, recipient, holder, disturbed>>
    BY <1>4 DEF Send
  <2>2. HoldsRow(w)' = HoldsRow(w)
    BY <1>4, <2>1, SendFacts DEF HoldsRow
  <2> QED
    BY <1>0, <1>4, <2>1, <2>2, SendFacts DEF AtRow
<1>5. CASE CountRecipients(w)
  <2>1. UNCHANGED <<outbox, linked, recipient, holder, disturbed>>
    BY <1>5 DEF CountRecipients
  <2>2. HoldsRow(w)' = HoldsRow(w)
    BY <1>5, <2>1, CountFacts DEF HoldsRow
  <2> QED
    BY <1>0, <1>5, <2>1, <2>2, CountFacts DEF AtRow
<1>6. CASE Done(w)
  BY <1>6, DoneFacts DEF AtRow
<1> QED
  BY <1>1, <1>2, <1>3, <1>4, <1>5, <1>6
  DEF Handle, CancelRecipient, DeferRecipient, FinishSent, RecordSent, RecordFailure, HandlerDies

(* A step leaves the handlers that do not take it. *)
LEMMA OthersStay ==
    ASSUME TypeOK, [Next]_vars, NEW v \in Workers
    PROVE  work'[v] = work[v] \/ Handle(v) \/ HandlerDies(v)
<1>1. ASSUME NEW w \in Workers, Handle(w) \/ HandlerDies(w), w # v PROVE work'[v] = work[v]
  BY <1>1, ClaimFacts, ReadFacts, StartFacts, SendFacts, CountFacts, DoneFacts
  DEF Handle, CancelRecipient, DeferRecipient, FinishSent, RecordSent, RecordFailure, HandlerDies
<1>2. CASE work' = work
  BY <1>2
<1> QED
  BY <1>1, <1>2, ZenonT(60)
  DEF Next, Control, Prepare, vars, Launch, Pause, Resume, ReadControl, Update, OpenCancel, Cancel,
      RetryFailed, Archive, Restore, OperatorRetry, ScheduleDue, LockAges, LockBroadcast, ResolveAudience,
      RefuseChannel, InsertRecipients, ReadPending, CountUnfinished, CompleteAfterLoop,
      RefuseTemplate, ReadRunning, LinkRecipient, PrepareFails, PreparerDies, RowAges, RecoverRow

LEMMA RowsNext == ASSUME TypeOK, Busy, RowsInv, [Next]_vars PROVE RowsInv'
<1>1. Grows
  BY StepGrows
<1>2. ASSUME NEW v \in Workers PROVE AtRow(v)'
  BY <1>1, <1>2, OthersStay, AtRowKept, AtRowHandle
<1>3. \A r \in Recipients : Row(r)'
  BY RowNext
<1> QED
  BY <1>1, <1>2, <1>3, ListsNext DEF RowsInv

BroadcastInv == TypeOK /\ Busy /\ RowsInv

LEMMA BroadcastInvariant == Spec => []BroadcastInv
<1>1. Init => BroadcastInv
  BY TypeInit, BusyInit, RowsInit DEF BroadcastInv
<1>2. BroadcastInv /\ [Next]_vars => BroadcastInv'
  BY TypeNext, BusyNext, RowsNext DEF BroadcastInv
<1> QED
  BY <1>1, <1>2, PTL DEF Spec

(* A row without a recipient belongs to one that was refused or cancelled while
   the row was being made. *)
THEOREM BroadcastOrphansWereRefused == Spec => []OrphansWereRefused
<1>1. BroadcastInv => OrphansWereRefused
  BY DEF BroadcastInv, RowsInv, Row, OrphansWereRefused
<1> QED
  BY <1>1, BroadcastInvariant, PTL

(* A recipient that waits or is being sent has a row that brings it to an end. *)
THEOREM BroadcastWaitingHasRow == Spec => []WaitingHasRow
<1>1. BroadcastInv => WaitingHasRow
  BY DEF BroadcastInv, RowsInv, Row, WaitingHasRow
<1> QED
  BY <1>1, BroadcastInvariant, PTL
-----------------------------------------------------------------------------
LEMMA FinalStep ==
    ASSUME TypeOK, [Next]_vars, NEW r \in Recipients,
           Row(r), recipient[r] \in {"SENT", "CANCELLED"}, r \notin disturbed'
    PROVE  \/ recipient'[r] = recipient[r]
           \/ recipient[r] = "CANCELLED" /\ Revived(r)
<1>0. recipient \in [Recipients -> RecipientStatuses] /\ outbox \in [Recipients -> RowStatuses]
  BY DEF TypeOK
<1>1. CASE recipient' = recipient
  BY <1>1
<1>2. ASSUME NEW a \in Requests, Cancel(a) \/ RetryFailed(a) PROVE recipient'[r] = recipient[r]
  BY <1>0, <1>2 DEF Cancel, RetryFailed
<1>3. ASSUME NEW p \in Preparers, InsertRecipients(p) PROVE recipient'[r] = recipient[r]
  BY <1>0, <1>3 DEF InsertRecipients
<1>4. ASSUME NEW p \in Preparers, NEW q \in Recipients, RefuseTemplate(p, q) PROVE recipient'[r] = recipient[r]
  BY <1>0, <1>4 DEF RefuseTemplate
<1>5. ASSUME NEW p \in Preparers, LinkRecipient(p) PROVE recipient'[r] = recipient[r]
  BY <1>0, <1>5 DEF LinkRecipient
<1>6. ASSUME NEW w \in Workers, CancelRecipient(w) PROVE recipient'[r] = recipient[r]
  BY <1>0, <1>6 DEF CancelRecipient
<1>7. ASSUME NEW w \in Workers, StartRecipient(w) PROVE recipient'[r] = recipient[r]
  BY <1>0, <1>7 DEF StartRecipient
<1>8. ASSUME NEW w \in Workers, RecordSent(w) PROVE recipient'[r] = recipient[r]
  BY <1>0, <1>8 DEF RecordSent
<1>9. ASSUME NEW w \in Workers, RecordFailure(w) PROVE recipient'[r] = recipient[r]
  BY <1>0, <1>9 DEF RecordFailure
<1>10. ASSUME NEW q \in Recipients, OperatorRetry(q)
       PROVE  recipient'[r] = recipient[r] \/ (recipient[r] = "CANCELLED" /\ Revived(r))
  <2>1. CASE q # r
    BY <1>0, <1>10, <2>1 DEF OperatorRetry
  <2>2. CASE q = r /\ r \notin linked
    BY <1>0, <1>10, <2>2 DEF OperatorRetry
  <2>3. CASE q = r /\ r \in linked
    <3>1. Revived(r)
      BY <1>0, <1>10, <2>3 DEF OperatorRetry, Revived
    <3> QED
      BY <3>1, <1>10, <2>3 DEF OperatorRetry, Row
  <2> QED
    BY <2>1, <2>2, <2>3
<1> QED
  BY <1>10, <1>1, <1>2, <1>3, <1>4, <1>5, <1>6, <1>7, <1>8, <1>9, ZenonT(60)
  DEF Next, Control, Prepare, Handle, vars, historyVars, Launch, Pause, Resume, ReadControl, Update,
      OpenCancel, Archive, Restore, ScheduleDue, LockAges, LockBroadcast, ResolveAudience,
      RefuseChannel, ReadPending, CountUnfinished, CompleteAfterLoop, ReadRunning, PrepareFails,
      PreparerDies, Claim, ReadRow, DeferRecipient, FinishSent, Send, CountRecipients, HandlerDies,
      RowAges, RecoverRow

(* A recipient that was sent to stays so, and a cancelled one until the operator
   retries its failed row; an answer that was read before may overwrite either,
   and then it is marked. *)
THEOREM BroadcastFinalStays == Spec => FinalStays
<1>1. BroadcastInv /\ [Next]_vars =>
         [\A r \in Recipients : recipient[r] \in {"SENT", "CANCELLED"} /\ r \notin disturbed'
             => \/ recipient'[r] = recipient[r]
                \/ recipient[r] = "CANCELLED" /\ Revived(r)]_vars
  BY FinalStep DEF BroadcastInv, RowsInv
<1> QED
  BY <1>1, BroadcastInvariant, PTL DEF Spec, FinalStays
-----------------------------------------------------------------------------
(* A recipient that waits to be queued is on somebody's list, whatever the status
   of the broadcast: the lists outlive a pause, and what a loop passes over or
   leaves is counted as dropped. *)
Listed(r) == recipient[r] = "PENDING" /\ r \notin dropped => \E p \in Preparers : WillQueue(p, r)

LEMMA ListedPrepare ==
    ASSUME TypeOK, Busy, NEW p \in Preparers, Prepare(p) \/ PrepareFails(p) \/ PreparerDies(p),
           NEW r \in Recipients, Listed(r)
    PROVE  Listed(r)'
<1> USE DEF campaignVars, deliveryVars, historyVars
<1>0. /\ recipient \in [Recipients -> RecipientStatuses]
      /\ prep[p].pc = "link" => prep[p].cur \in prep[p].todo
  BY DEF TypeOK, Busy
<1> DEFINE Others == \A q \in Preparers \ {p} : prep'[q] = prep[q]
           Older == /\ recipient'[r] = "PENDING" => recipient[r] = "PENDING"
                    /\ dropped \subseteq dropped'
           Still == WillQueue(p, r) /\ recipient'[r] = "PENDING" /\ r \notin dropped' => WillQueue(p, r)'
<1>1. ASSUME Others, Older, Still PROVE Listed(r)'
  <2> SUFFICES ASSUME recipient'[r] = "PENDING", r \notin dropped'
               PROVE  \E q \in Preparers : WillQueue(q, r)'
    BY DEF Listed
  <2>1. PICK q \in Preparers : WillQueue(q, r)
    BY <1>1 DEF Listed
  <2>2. CASE q = p
    BY <1>1, <2>1, <2>2
  <2>3. CASE q # p
    BY <1>1, <2>1, <2>3 DEF WillQueue
  <2> QED
    BY <2>2, <2>3
<1>2. CASE LockBroadcast(p)
  <2>1. Others /\ prep[p].pc = "idle"
    BY <1>2, PrepGotoFacts DEF LockBroadcast, InPrep
  <2> QED
    BY <1>1, <1>2, <2>1 DEF LockBroadcast, WillQueue
<1>3. CASE ResolveAudience(p)
  <2>1. Others /\ prep[p].pc = "read"
    BY <1>3, ResolveFacts
  <2> QED
    BY <1>1, <1>3, <2>1 DEF ResolveAudience, WillQueue
<1>4. CASE RefuseChannel(p)
  <2>1. Others
    BY <1>4, PrepGotoFacts, PrepDoneFacts DEF RefuseChannel
  <2> QED
    BY <1>1, <1>4, <2>1 DEF RefuseChannel, WillQueue
<1>5. CASE InsertRecipients(p)
  <2>1. Others /\ prep[p].pc = "insert" /\ prep'[p].pc = "pending" /\ prep'[p].audience = prep[p].audience
    BY <1>5, PrepGotoFacts DEF InsertRecipients, InPrep
  <2>2. CASE r \in prep[p].audience
    BY <2>1, <2>2 DEF Listed, WillQueue
  <2>3. CASE r \notin prep[p].audience
    BY <1>0, <1>1, <1>5, <2>1, <2>3 DEF InsertRecipients, WillQueue
  <2> QED
    BY <2>2, <2>3
<1>6. CASE ReadPending(p)
  <2>1. /\ Others /\ prep[p].pc = "pending" /\ prep'[p].pc = "loop"
        /\ prep'[p].todo = {x \in Recipients : recipient[x] = "PENDING"} \cap prep[p].audience
    BY <1>6, PendingFacts
  <2>2. recipient' = recipient /\ dropped \subseteq dropped'
    BY <1>6 DEF ReadPending
  <2>3. Still
    BY <2>1, <2>2 DEF WillQueue
  <2> QED
    BY <1>1, <2>1, <2>2, <2>3
<1>7. CASE CountUnfinished(p) \/ CompleteAfterLoop(p)
  <2>1. Others
    BY <1>7, PrepGotoFacts, PrepDoneFacts DEF CountUnfinished, CompleteAfterLoop
  <2>2. ~WillQueue(p, r) /\ UNCHANGED <<recipient, dropped>>
    BY <1>7 DEF CountUnfinished, CompleteAfterLoop, InPrep, WillQueue
  <2> QED
    BY <1>1, <2>1, <2>2
<1>8. ASSUME NEW q \in Recipients, RefuseTemplate(p, q) PROVE Listed(r)'
  <2>1. Others /\ prep[p].pc = "loop" /\ prep'[p].pc = "loop" /\ prep'[p].todo = prep[p].todo \ {q}
    BY <1>8, PrepDropFacts DEF RefuseTemplate, InPrep
  <2>2. dropped' = dropped /\ (recipient'[r] = "PENDING" => recipient[r] = "PENDING" /\ r # q)
    BY <1>0, <1>8 DEF RefuseTemplate
  <2>3. Still
    BY <2>1, <2>2 DEF WillQueue
  <2> QED
    BY <1>1, <2>1, <2>2, <2>3
<1>9. ASSUME NEW q \in Recipients, ReadRunning(p, q) PROVE Listed(r)'
  <2>1. recipient' = recipient
    BY <1>9 DEF ReadRunning
  <2>2. Others /\ dropped \subseteq dropped' /\ Still
    BY <1>9, <2>1, RunningFacts DEF WillQueue
  <2> QED
    BY <1>1, <2>1, <2>2
<1>10. CASE LinkRecipient(p)
  <2>1. CASE outbox[prep[p].cur] = "NONE"
    <3>1. /\ Others /\ prep[p].pc = "link" /\ dropped' = dropped
          /\ prep'[p].pc = "loop" /\ prep'[p].todo = prep[p].todo \ {prep[p].cur}
      BY <1>10, <2>1, LinkFacts
    <3>2. recipient'[r] = "PENDING" => recipient[r] = "PENDING" /\ r # prep[p].cur
      BY <1>0, <1>10, <2>1 DEF LinkRecipient
    <3>3. Still
      BY <3>1, <3>2 DEF WillQueue
    <3> QED
      BY <1>1, <3>1, <3>2, <3>3
  <2>2. CASE outbox[prep[p].cur] # "NONE"
    <3>1. Others /\ prep[p].pc = "link" /\ dropped' = dropped \cup Abandoned(p) /\ recipient' = recipient
      BY <1>10, <2>2, LinkFacts
    <3>2. Still
      BY <3>1 DEF WillQueue, Abandoned
    <3> QED
      BY <1>1, <3>1, <3>2
  <2> QED
    BY <2>1, <2>2
<1>11. CASE PrepareFails(p) \/ PreparerDies(p)
  <2>1. Others /\ dropped' = dropped \cup Abandoned(p) /\ recipient' = recipient
    BY <1>11, PrepDoneFacts DEF PrepareFails, PreparerDies
  <2>2. Still
    BY <2>1 DEF WillQueue, Abandoned, InPrep
  <2> QED
    BY <1>1, <2>1, <2>2
<1> QED
  BY <1>2, <1>3, <1>4, <1>5, <1>6, <1>7, <1>8, <1>9, <1>10, <1>11 DEF Prepare

LEMMA ListedNext ==
    ASSUME TypeOK, Busy, [Next]_vars, NEW r \in Recipients, Listed(r)
    PROVE  Listed(r)'
<1>0. recipient \in [Recipients -> RecipientStatuses]
  BY DEF TypeOK
<1>1. ASSUME prep' = prep, dropped' = dropped, recipient'[r] = "PENDING" => recipient[r] = "PENDING"
      PROVE  Listed(r)'
  BY <1>1 DEF Listed, WillQueue
<1>2. CASE UNCHANGED <<prep, dropped, recipient>>
  BY <1>1, <1>2
<1>3. ASSUME NEW a \in Requests, Cancel(a) \/ RetryFailed(a) PROVE Listed(r)'
  BY <1>0, <1>1, <1>3 DEF Cancel, RetryFailed
<1>4. ASSUME NEW w \in Workers, CancelRecipient(w) \/ StartRecipient(w) PROVE Listed(r)'
  BY <1>0, <1>1, <1>4 DEF CancelRecipient, StartRecipient, historyVars
<1>5. ASSUME NEW w \in Workers, RecordSent(w) \/ RecordFailure(w) PROVE Listed(r)'
  BY <1>0, <1>1, <1>5 DEF RecordSent, RecordFailure
<1>6. ASSUME NEW q \in Recipients, OperatorRetry(q) PROVE Listed(r)'
  BY <1>0, <1>1, <1>6 DEF OperatorRetry, historyVars
<1> QED
  BY <1>6, <1>2, <1>3, <1>4, <1>5, ListedPrepare
  DEF Next, Control, Handle, vars, historyVars, Launch, Pause, Resume, ReadControl, Update,
      OpenCancel, Archive, Restore, ScheduleDue, LockAges, Claim, ReadRow, DeferRecipient,
      FinishSent, Send, CountRecipients, HandlerDies, RowAges, RecoverRow

(* While the broadcast runs, a recipient that waits to be queued is on the list of
   a loop, unless one has dropped it. *)
THEOREM BroadcastPendingHasPreparer == Spec => []PendingHasPreparer
<1> DEFINE LInv == BroadcastInv /\ \A r \in Recipients : Listed(r)
<1>1. Init => LInv
  BY TypeInit, BusyInit, RowsInit DEF BroadcastInv, Init, Listed
<1>2. LInv /\ [Next]_vars => LInv'
  BY TypeNext, BusyNext, RowsNext, ListedNext DEF BroadcastInv
<1>3. LInv => PendingHasPreparer
  BY DEF Listed, PendingHasPreparer
<1> HIDE DEF LInv
<1> QED
  BY <1>1, <1>2, <1>3, PTL DEF Spec
-----------------------------------------------------------------------------
(* The answers in hand: how many a step adds or takes away. *)
Held(w, r) == work[w].cur = r /\ work[w].result = "SENT"

LEMMA HandSame ==
    ASSUME NEW r, \A v \in Workers : Held(v, r)' = Held(v, r)
    PROVE  Cardinality(InHand(r))' = Cardinality(InHand(r))
<1>1. InHand(r)' = InHand(r)
  BY DEF InHand, Held
<1> QED
  BY <1>1

LEMMA HandFinite ==
    ASSUME NEW r
    PROVE  /\ IsFiniteSet(InHand(r)) /\ Cardinality(InHand(r)) \in Nat
           /\ IsFiniteSet(InHand(r)') /\ Cardinality(InHand(r))' \in Nat
<1>1. InHand(r) \subseteq Workers /\ InHand(r)' \subseteq Workers
  BY DEF InHand
<1>2. IsFiniteSet(InHand(r)) /\ IsFiniteSet(InHand(r)')
  BY <1>1, FS_Subset, BroadcastsAssumption
<1> QED
  BY <1>2, FS_CardinalityType

LEMMA HandTakes ==
    ASSUME NEW r, NEW w \in Workers, ~Held(w, r), Held(w, r)',
           \A v \in Workers \ {w} : Held(v, r)' = Held(v, r)
    PROVE  Cardinality(InHand(r))' = Cardinality(InHand(r)) + 1
<1>1. InHand(r)' = InHand(r) \cup {w} /\ w \notin InHand(r)
  BY DEF InHand, Held
<1>2. Cardinality(InHand(r) \cup {w}) = Cardinality(InHand(r)) + 1
  BY <1>1, HandFinite, FS_AddElement
<1> QED
  BY <1>1, <1>2

LEMMA HandGives ==
    ASSUME NEW r, NEW w \in Workers, Held(w, r), ~Held(w, r)',
           \A v \in Workers \ {w} : Held(v, r)' = Held(v, r)
    PROVE  Cardinality(InHand(r)) = Cardinality(InHand(r))' + 1
<1>1. InHand(r)' = InHand(r) \ {w} /\ w \in InHand(r)
  BY DEF InHand, Held
<1>2. Cardinality(InHand(r) \ {w}) = Cardinality(InHand(r)) - 1
  BY <1>1, HandFinite, FS_RemoveElement
<1>3. Cardinality(InHand(r)) \in Nat
  BY HandFinite
<1> QED
  BY <1>1, <1>2, <1>3

Delivered(r) == IF outbox[r] = "SUCCEEDED" THEN 1 ELSE 0
Counted(r) == sent[r] = lost[r] + Cardinality(InHand(r)) + Delivered(r)

LEMMA CountedSame ==
    ASSUME NEW r, Counted(r), sent'[r] = sent[r], lost'[r] = lost[r],
           outbox'[r] = "SUCCEEDED" <=> outbox[r] = "SUCCEEDED",
           \A v \in Workers : Held(v, r)' = Held(v, r)
    PROVE  Counted(r)'
<1>1. Cardinality(InHand(r))' = Cardinality(InHand(r))
  BY HandSame
<1>2. Delivered(r)' = Delivered(r)
  BY DEF Delivered
<1> QED
  BY <1>1, <1>2 DEF Counted

LEMMA CountedHandle ==
    ASSUME TypeOK, Busy, RowsInv, NEW w \in Workers, Handle(w) \/ HandlerDies(w),
           NEW r \in Recipients, Counted(r)
    PROVE  Counted(r)'
<1> USE DEF campaignVars, deliveryVars, historyVars
<1>0. /\ outbox \in [Recipients -> RowStatuses]
      /\ sent \in [Recipients -> Nat] /\ lost \in [Recipients -> Nat]
      /\ sent[r] \in Nat /\ lost[r] \in Nat
      /\ Cardinality(InHand(r)) \in Nat /\ Cardinality(InHand(r))' \in Nat
  BY HandFinite DEF TypeOK
<1>1. /\ work[w].pc # "idle" => work[w].cur \in Recipients
      /\ work[w].result # "NONE" => work[w].pc \in {"count", "commit"}
      /\ AtRow(w) /\ work[w] \in WorkType
  BY DEF Busy, RowsInv, TypeOK
<1> DEFINE Rest == \A v \in Workers \ {w} : Held(v, r)' = Held(v, r)
<1>2. ASSUME NEW q \in Recipients, Claim(w, q) PROVE Counted(r)'
  <2>1. \A v \in Workers : Held(v, r)' = Held(v, r)
    BY <1>1, <1>2, ClaimFacts DEF Held
  <2>2. (outbox'[r] = "SUCCEEDED" <=> outbox[r] = "SUCCEEDED") /\ sent' = sent /\ lost' = lost
    BY <1>0, <1>2 DEF Claim
  <2> QED
    BY <2>1, <2>2, CountedSame
<1>3. CASE ReadRow(w)
  <2>1. \A v \in Workers : Held(v, r)' = Held(v, r)
    BY <1>3, ReadFacts DEF Held
  <2> QED
    BY <1>3, <2>1, CountedSame DEF ReadRow
<1>4. CASE StartRecipient(w)
  <2>1. \A v \in Workers : Held(v, r)' = Held(v, r)
    BY <1>4, StartFacts DEF Held
  <2> QED
    BY <1>4, <2>1, CountedSame DEF StartRecipient
<1>5. CASE CountRecipients(w)
  <2>1. \A v \in Workers : Held(v, r)' = Held(v, r)
    BY <1>5, CountFacts DEF Held
  <2> QED
    BY <1>5, <2>1, CountedSame DEF CountRecipients
<1>6. CASE CancelRecipient(w) \/ DeferRecipient(w) \/ FinishSent(w)
  <2>1. work[w].result # "SENT"
    BY <1>1, <1>6 DEF CancelRecipient, DeferRecipient, FinishSent, InWork
  <2>2. \A v \in Workers : Held(v, r)' = Held(v, r)
    BY <1>6, <2>1, DoneFacts DEF Held, CancelRecipient, DeferRecipient, FinishSent
  <2>3. FinishSent(w) => outbox[work[w].cur] = "SUCCEEDED"
    BY <1>1 DEF FinishSent, InWork, AtRow
  <2>4. outbox'[r] = "SUCCEEDED" <=> outbox[r] = "SUCCEEDED"
    BY <1>0, <1>6, <2>3 DEF CancelRecipient, DeferRecipient, FinishSent, HoldsRow
  <2> QED
    BY <1>6, <2>2, <2>4, CountedSame DEF CancelRecipient, DeferRecipient, FinishSent
<1>7. CASE Send(w)
  <2>1. work[w].result # "SENT" /\ outbox' = outbox /\ work[w].cur \in Recipients
    BY <1>1, <1>7, SendFacts DEF Send
  <2>2. Rest /\ ~Held(w, r)
    BY <1>7, <2>1, SendFacts DEF Held
  <2>3. CASE work'[w].result = "SENT"
    <3>1. lost' = lost /\ sent' = [sent EXCEPT ![work[w].cur] = @ + 1] /\ work'[w].cur = work[w].cur
      BY <1>7, <2>3, SendFacts
    <3>2. CASE work[w].cur = r
      <4>1. Cardinality(InHand(r))' = Cardinality(InHand(r)) + 1
        BY <2>2, <2>3, <3>1, <3>2, HandTakes DEF Held
      <4>2. sent'[r] = sent[r] + 1 /\ lost'[r] = lost[r] /\ Delivered(r)' = Delivered(r)
        BY <1>0, <2>1, <3>1, <3>2 DEF Delivered
      <4> QED
        BY <1>0, <4>1, <4>2 DEF Counted, Delivered
    <3>3. CASE work[w].cur # r
      <4>1. \A v \in Workers : Held(v, r)' = Held(v, r)
        BY <2>2, <3>1, <3>3 DEF Held
      <4>2. sent'[r] = sent[r] /\ lost'[r] = lost[r]
        BY <1>0, <3>1, <3>3
      <4> QED
        BY <2>1, <4>1, <4>2, CountedSame
    <3> QED
      BY <3>2, <3>3
  <2>4. CASE work'[w].result # "SENT"
    <3>1. \A v \in Workers : Held(v, r)' = Held(v, r)
      BY <2>2, <2>4 DEF Held
    <3>2. \/ sent' = sent /\ lost' = lost
          \/ /\ sent' = [sent EXCEPT ![work[w].cur] = @ + 1]
             /\ lost' = [lost EXCEPT ![work[w].cur] = @ + 1]
      BY <1>7, <2>4, SendFacts
    <3>3. \/ sent'[r] = sent[r] /\ lost'[r] = lost[r]
          \/ sent'[r] = sent[r] + 1 /\ lost'[r] = lost[r] + 1
      BY <1>0, <2>1, <3>2
    <3>4. Cardinality(InHand(r))' = Cardinality(InHand(r)) /\ Delivered(r)' = Delivered(r)
      BY <2>1, <3>1, HandSame DEF Delivered
    <3> QED
      BY <1>0, <3>3, <3>4 DEF Counted, Delivered
  <2> QED
    BY <2>3, <2>4
<1>8. ASSUME Done(w), work[w].result = "SENT", work[w].cur \in Recipients, sent' = sent,
             \/ /\ HoldsRow(w) /\ lost' = lost
                /\ outbox' = [outbox EXCEPT ![work[w].cur] = "SUCCEEDED"]
             \/ lost' = [lost EXCEPT ![work[w].cur] = @ + 1] /\ outbox' = outbox
      PROVE  Counted(r)'
  <2>1. Rest /\ ~Held(w, r)'
    BY <1>8, DoneFacts DEF Held
  <2>2. CASE work[w].cur = r
    <3>1. Cardinality(InHand(r)) = Cardinality(InHand(r))' + 1
      BY <1>8, <2>1, <2>2, HandGives DEF Held
    <3>2. \/ lost'[r] = lost[r] + 1 /\ Delivered(r)' = Delivered(r)
          \/ lost'[r] = lost[r] /\ Delivered(r) = 0 /\ Delivered(r)' = 1
      BY <1>0, <1>8, <2>2 DEF Delivered, HoldsRow
    <3> QED
      BY <1>0, <1>8, <3>1, <3>2 DEF Counted, Delivered
  <2>3. CASE work[w].cur # r
    <3>1. \A v \in Workers : Held(v, r)' = Held(v, r)
      BY <2>1, <2>3 DEF Held
    <3>2. lost'[r] = lost[r] /\ outbox'[r] = outbox[r]
      BY <1>0, <1>8, <2>3
    <3> QED
      BY <1>8, <3>1, <3>2, CountedSame
  <2> QED
    BY <2>2, <2>3
<1>9. CASE RecordSent(w)
  <2>1. Done(w) /\ work[w].result = "SENT" /\ work[w].cur \in Recipients /\ sent' = sent
    BY <1>1, <1>9 DEF RecordSent, InWork
  <2>2. \/ /\ HoldsRow(w) /\ lost' = lost
           /\ outbox' = [outbox EXCEPT ![work[w].cur] = "SUCCEEDED"]
        \/ lost' = [lost EXCEPT ![work[w].cur] = @ + 1] /\ outbox' = outbox
    BY <1>9 DEF RecordSent
  <2> QED
    BY <1>8, <2>1, <2>2
<1>10. ASSUME Done(w), work[w].result # "SENT", sent' = sent, lost' = lost,
              outbox'[r] = "SUCCEEDED" <=> outbox[r] = "SUCCEEDED"
       PROVE  Counted(r)'
  <2>1. \A v \in Workers : Held(v, r)' = Held(v, r)
    BY <1>10, DoneFacts DEF Held
  <2> QED
    BY <1>10, <2>1, CountedSame
<1>11. CASE RecordFailure(w)
  <2>1. Done(w) /\ work[w].result # "SENT" /\ sent' = sent /\ lost' = lost
    BY <1>11 DEF RecordFailure
  <2>2. CASE HoldsRow(w)
    <3>1. outbox[work[w].cur] = "PROCESSING" /\ outbox' = [outbox EXCEPT ![work[w].cur] = work[w].result]
      BY <1>11, <2>2 DEF RecordFailure, HoldsRow
    <3>2. work[w].result # "SUCCEEDED"
      BY <1>1 DEF WorkType
    <3> QED
      BY <1>0, <1>10, <2>1, <3>1, <3>2
  <2>3. CASE ~HoldsRow(w)
    BY <1>10, <1>11, <2>1, <2>3 DEF RecordFailure
  <2> QED
    BY <2>2, <2>3
<1>12. CASE HandlerDies(w)
  <2>1. Done(w) /\ work[w].cur \in Recipients /\ sent' = sent /\ outbox' = outbox
    BY <1>1, <1>12 DEF HandlerDies, InWork
  <2>2. CASE work[w].result = "SENT"
    BY <1>8, <1>12, <2>1, <2>2 DEF HandlerDies
  <2>3. CASE work[w].result # "SENT"
    BY <1>10, <1>12, <2>1, <2>3 DEF HandlerDies
  <2> QED
    BY <2>2, <2>3
<1> QED
  BY <1>2, <1>3, <1>4, <1>5, <1>6, <1>7, <1>9, <1>11, <1>12 DEF Handle

LEMMA CountedNext ==
    ASSUME TypeOK, Busy, RowsInv, [Next]_vars, NEW r \in Recipients, Counted(r)
    PROVE  Counted(r)'
<1> USE DEF campaignVars, deliveryVars, historyVars
<1>0. outbox \in [Recipients -> RowStatuses]
  BY DEF TypeOK
<1>1. ASSUME UNCHANGED <<work, sent, lost>>, outbox'[r] = "SUCCEEDED" <=> outbox[r] = "SUCCEEDED"
      PROVE  Counted(r)'
  BY <1>1, CountedSame DEF Held
<1>2. CASE UNCHANGED <<work, sent, lost, outbox>>
  BY <1>1, <1>2
<1>3. ASSUME NEW a \in Requests, Cancel(a) \/ RetryFailed(a) PROVE Counted(r)'
  BY <1>0, <1>1, <1>3 DEF Cancel, RetryFailed
<1>4. ASSUME NEW p \in Preparers, LinkRecipient(p) PROVE Counted(r)'
  BY <1>0, <1>1, <1>4 DEF LinkRecipient
<1>5. ASSUME NEW q \in Recipients, RecoverRow(q) PROVE Counted(r)'
  BY <1>0, <1>1, <1>5 DEF RecoverRow
<1>6. ASSUME NEW q \in Recipients, OperatorRetry(q) PROVE Counted(r)'
  BY <1>0, <1>1, <1>6 DEF OperatorRetry
<1> QED
  BY <1>6, <1>2, <1>3, <1>4, <1>5, CountedHandle, ZenonT(60)
  DEF Next, Control, Prepare, vars, Launch, Pause, Resume, ReadControl, Update, OpenCancel,
      Archive, Restore, ScheduleDue, LockAges, LockBroadcast, ResolveAudience, RefuseChannel,
      InsertRecipients, ReadPending, CountUnfinished, CompleteAfterLoop, RefuseTemplate,
      ReadRunning, PrepareFails, PreparerDies, RowAges

(* Telegram accepts a recipient's message once for the row that succeeded and once
   for each acceptance that was lost or is still in a handler's hands. *)
THEOREM BroadcastOneDelivery == Spec => []OneDelivery
<1> DEFINE CInv == BroadcastInv /\ \A r \in Recipients : Counted(r)
<1>1. Init => CInv
  <2> SUFFICES ASSUME Init, NEW r \in Recipients PROVE Counted(r)
    BY TypeInit, BusyInit, RowsInit DEF BroadcastInv
  <2>1. InHand(r) = {}
    BY Idle DEF Init, InHand
  <2>2. Cardinality(InHand(r)) = 0
    BY <2>1, FS_EmptySet
  <2> QED
    BY <2>2 DEF Init, Counted, Delivered
<1>2. CInv /\ [Next]_vars => CInv'
  BY TypeNext, BusyNext, RowsNext, CountedNext DEF BroadcastInv
<1>3. CInv => OneDelivery
  BY DEF Counted, Delivered, OneDelivery
<1> HIDE DEF CInv
<1> QED
  BY <1>1, <1>2, <1>3, PTL DEF Spec
===============================================================================
