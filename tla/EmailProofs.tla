----------------------------- MODULE EmailProofs -----------------------------
(***************************************************************************)
(* The safety properties of Email for every number of letters, workers,    *)
(* attempts, requests and faults.                                          *)
(***************************************************************************)
EXTENDS Email, TLAPS

Reasons == {"unknown", "suppressed", "refused", "retry"}
Mailing == {"chosen", "taken", "checked", "stamping", "calling", "sent", "marking", "fail"}
Preparing == {"snapshot", "create", "unlock"}
Finishing == {"finish", "count", "complete"}
Steps == {"idle"} \cup Mailing \cup Preparing \cup Finishing

WorkType == [step : Steps, letter : Letters \cup {"NONE"}, seen : Statuses \cup {"NONE"},
             first : BOOLEAN, why : Reasons \cup {"NONE"}, rows : SUBSET Letters]
TxType == [by : Workers \cup {"NONE", "WEBHOOK"}, kind : EventKinds \cup {"NONE", "local"},
           seen : Statuses \cup {"NONE"}]
AskedType == [launch : Nat, cancel : Nat, revive : Nat]
Campaigns == {"DRAFT", "SCHEDULED", "PREPARING", "RUNNING", "PAUSED", "COMPLETED", "CANCELLED",
              "FAILED"}

TypeOK ==
    /\ campaign \in Campaigns /\ preparation \in {"FREE", "LOCKED", "LAPSED", "QUIET"}
    /\ status \in [Letters -> Statuses \cup {"NONE"}]
    /\ attempts \in [Letters -> Nat]
    /\ holder \in [Letters -> Workers \cup {Nobody}] /\ old \in [Letters -> BOOLEAN]
    /\ age \in [Letters -> 0..2] /\ key \in [Letters -> {"NEW", "KEPT", "FORGOTTEN"}]
    /\ mailed \in [Letters -> Nat]
    /\ events \in [Letters -> SUBSET Events] /\ local \in [Letters -> BOOLEAN]
    /\ told \in [Letters -> Nat]
    /\ open \in [Letters -> TxType]
    /\ work \in [Workers -> WorkType]
    /\ asked \in AskedType
    /\ slipped \subseteq Workers /\ begun \subseteq Workers /\ outdated \subseteq Workers
    /\ slow \subseteq Letters
    /\ requests \in Nat /\ faults \in Nat

(* What a worker carries at each step, and whose transaction is open. *)
WorkerInv ==
    \A w \in Workers :
      /\ work[w].step \in Mailing => work[w].letter \in Letters
      /\ work[w].step \in {"idle"} \cup Preparing => work[w].letter = "NONE"
      /\ work[w].step = "chosen" => work[w].seen \in Waiting
      /\ work[w].step = "marking" => open[work[w].letter].by = w
      /\ work[w].step = "fail" => work[w].why \in Reasons

(* An open transaction of the webhook has a new event; one whose letter has
   evidence has read it. *)
OpenInv ==
    \A l \in Letters :
      /\ open[l].by = "WEBHOOK" => open[l].kind \in Events \ events[l]
      /\ open[l] # NoTx /\ status[l] \in Evidence => open[l].seen = status[l]
-----------------------------------------------------------------------------
LEMMA StatusNames ==
    /\ Statuses = {"PENDING", "PROCESSING", "RETRY", "UNKNOWN", "SENT", "DELIVERY_DELAYED",
                   "DELIVERED", "OPENED", "CLICKED", "BOUNCED", "FAILED", "COMPLAINED",
                   "SUPPRESSED", "CANCELLED"}
    /\ "NONE" \notin Statuses
    /\ EventKinds \subseteq Statuses /\ Events \subseteq EventKinds
    /\ \A s \in Statuses : Priority[s] \in Nat
BY EmailAssumption DEF Statuses, Priority, EventKinds

LEMMA Empty == /\ Idle \in WorkType /\ Idle.step = "idle" /\ Idle.letter = "NONE"
               /\ NoTx \in TxType /\ NoTx.by = "NONE"
BY DEF Idle, WorkType, Steps, NoTx, TxType

LEMMA InitHolds == Init => TypeOK /\ WorkerInv
<1> SUFFICES ASSUME Init PROVE TypeOK /\ WorkerInv
  OBVIOUS
<1>1. work \in [Workers -> WorkType] /\ open \in [Letters -> TxType]
  BY Empty DEF Init
<1>2. \A w \in Workers : work[w].step = "idle" /\ work[w].letter = "NONE"
  BY Empty DEF Init
<1>3. WorkerInv
  BY <1>2 DEF WorkerInv, Mailing, Preparing
<1>4. asked \in AskedType
  BY DEF Init, AskedType
<1>5. events \in [Letters -> SUBSET Events]
  BY DEF Init
<1> QED
  BY <1>1, <1>3, <1>4, <1>5 DEF Init, TypeOK, Campaigns

(* How the record of one worker changes, and nobody else's. *)
Alone(w) == /\ work'[w] \in WorkType
            /\ work' \in [Workers -> WorkType]
            /\ \A v \in Workers \ {w} : work'[v] = work[v]

LEMMA WorkSet ==
    ASSUME TypeOK, NEW w \in Workers, NEW new \in WorkType, work' = [work EXCEPT ![w] = new]
    PROVE  Alone(w) /\ work'[w] = new
BY DEF TypeOK, Alone

LEMMA GoesFacts ==
    ASSUME TypeOK, NEW w \in Workers, NEW s \in Steps, Goes(w, s)
    PROVE  /\ Alone(w)
           /\ work'[w].step = s /\ work'[w].letter = work[w].letter
           /\ work'[w].seen = work[w].seen /\ work'[w].why = work[w].why
<1> DEFINE new == [work[w] EXCEPT !.step = s]
<1>1. work[w] \in WorkType
  BY DEF TypeOK
<1>2. /\ new \in WorkType /\ new.step = s /\ new.letter = work[w].letter
      /\ new.seen = work[w].seen /\ new.why = work[w].why
  BY <1>1 DEF WorkType
<1>3. work' = [work EXCEPT ![w] = new]
  BY DEF Goes
<1> HIDE DEF new
<1> QED
  BY <1>2, <1>3, WorkSet

LEMMA FailsFacts ==
    ASSUME TypeOK, NEW w \in Workers, NEW why \in Reasons, Fails(w, why)
    PROVE  /\ Alone(w)
           /\ work'[w].step = "fail" /\ work'[w].letter = work[w].letter
           /\ work'[w].seen = work[w].seen /\ work'[w].why = why
<1> DEFINE new == [work[w] EXCEPT !.step = "fail", !.why = why]
<1>1. work[w] \in WorkType
  BY DEF TypeOK
<1>2. /\ new \in WorkType /\ new.step = "fail" /\ new.letter = work[w].letter
      /\ new.seen = work[w].seen /\ new.why = why
  BY <1>1 DEF WorkType, Steps, Mailing
<1>3. work' = [work EXCEPT ![w] = new]
  BY DEF Fails
<1> HIDE DEF new
<1> QED
  BY <1>2, <1>3, WorkSet

LEMMA RestsFacts ==
    ASSUME TypeOK, NEW w \in Workers, Rests(w)
    PROVE  /\ Alone(w) /\ work'[w] = Idle
           /\ work'[w].step = "idle" /\ work'[w].letter = "NONE"
           /\ begun' = begun \ {w} /\ outdated' = outdated \ {w}
BY Empty, WorkSet DEF Rests
-----------------------------------------------------------------------------
(* What one step can do to the record of a worker: it rests; it takes up a
   campaign, a letter, or the completion after a preparation; or it goes on. *)
Edges == {<<"snapshot", "create">>, <<"create", "unlock">>, <<"finish", "count">>,
          <<"count", "complete">>, <<"chosen", "taken">>, <<"taken", "checked">>,
          <<"taken", "fail">>, <<"checked", "stamping">>, <<"checked", "calling">>,
          <<"checked", "finish">>, <<"stamping", "calling">>, <<"calling", "sent">>,
          <<"calling", "fail">>, <<"sent", "marking">>, <<"marking", "finish">>,
          <<"marking", "fail">>, <<"fail", "finish">>}

Stops(w) == /\ work'[w].step = "idle" /\ work'[w].letter = "NONE"
            /\ begun' = begun \ {w} /\ outdated' = outdated \ {w}
Starts(w) == /\ work[w].step = "idle"
             /\ \/ work'[w].step = "snapshot" /\ work'[w].letter = work[w].letter
                \/ /\ work'[w].step = "chosen" /\ work'[w].letter \in Letters
                   /\ work'[w].seen = status[work'[w].letter]
                   /\ work'[w].seen \in Waiting
                   /\ work'[w].letter \in Members => campaign = "RUNNING"
GoesOn(w) == /\ <<work[w].step, work'[w].step>> \in Edges
             /\ work'[w].letter = work[w].letter /\ work'[w].seen = work[w].seen
             /\ work'[w].step = "fail" => work'[w].why \in Reasons
             /\ work'[w].step = "checked" =>
                   /\ slipped' = slipped \ {w} /\ UNCHANGED <<suppressed, age, key, slow>>
                   /\ Eligible(work[w].letter) /\ age[work[w].letter] # 2
             /\ work'[w].step = "complete" => NoneOf(Unfinished) /\ UNCHANGED status
             /\ work'[w].step = "marking" => open'[work[w].letter].by = w
EndsUnlock(w) == work[w].step = "unlock" /\ work'[w].step = "finish" /\ work'[w].letter = "NONE"

Keeps == begun' = begun /\ outdated \subseteq outdated'
WorkStep(w) == Alone(w) /\ (Stops(w) \/ (Keeps /\ (Starts(w) \/ GoesOn(w) \/ EndsUnlock(w))))

Turn(w) == \/ Preparation(w) \/ Processes(w) \/ ClaimCampaign(w) \/ Crash(w)
           \/ \E l \in Letters : Choose(w, l)

LEMMA TurnSteps ==
    ASSUME TypeOK, WorkerInv, NEW w \in Workers, Turn(w) PROVE WorkStep(w)
<1> USE DEF Keeps, At
<1> DEFINE r == work[w]
<1>0. r \in WorkType
  BY DEF TypeOK
<1>r. ASSUME Rests(w) PROVE WorkStep(w)
  BY <1>r, RestsFacts DEF WorkStep, Stops
<1>1. CASE ReadAudience(w)
  <2>1. PICK rows \in SUBSET Members : work' = [work EXCEPT ![w].step = "create", ![w].rows = rows]
    BY <1>1 DEF ReadAudience
  <2> DEFINE new == [r EXCEPT !.step = "create", !.rows = rows]
  <2>2. new \in WorkType /\ new.step = "create" /\ new.letter = r.letter /\ new.seen = r.seen
    BY <1>0 DEF WorkType, Steps, Preparing, Members
  <2>3. work' = [work EXCEPT ![w] = new]
    BY <2>1
  <2> HIDE DEF new
  <2>4. Alone(w) /\ work'[w] = new
    BY <2>2, <2>3, WorkSet
  <2> QED
    BY <1>1, <2>2, <2>4 DEF ReadAudience, WorkStep, GoesOn, Edges, raceVars
<1>2. CASE CreateRows(w)
  BY <1>2, GoesFacts DEF CreateRows, WorkStep, GoesOn, Edges, Steps, Preparing
<1>3. CASE Unlock(w)
  <2> DEFINE new == [Idle EXCEPT !.step = "finish"]
  <2>1. new \in WorkType /\ new.step = "finish" /\ new.letter = "NONE"
    BY Empty DEF WorkType, Steps, Finishing
  <2>2. work' = [work EXCEPT ![w] = new]
    BY <1>3 DEF Unlock
  <2> HIDE DEF new
  <2> QED
    BY <1>3, <2>1, <2>2, WorkSet DEF Unlock, WorkStep, EndsUnlock, raceVars
<1>4. CASE PrepareFails(w)
  BY <1>4, <1>r DEF PrepareFails
<1>5. CASE FinishReads(w)
  BY <1>5, <1>r, GoesFacts DEF FinishReads, WorkStep, GoesOn, Edges, Steps, Finishing
<1>6. CASE FinishCounts(w)
  BY <1>6, <1>r, GoesFacts DEF FinishCounts, WorkStep, GoesOn, Edges, Steps, Finishing
<1>7. CASE Complete(w)
  BY <1>7, <1>r DEF Complete
<1>8. CASE Take(w)
  BY <1>8, <1>r, GoesFacts DEF Take, WorkStep, GoesOn, Edges, Steps, Mailing
<1>9. CASE Inspect(w)
  <2> DEFINE l == r.letter
  <2>1. l \in Letters /\ age[l] \in 0..2
    BY <1>9 DEF Inspect, WorkerInv, Mailing, TypeOK
  <2>2. ASSUME NEW why \in Reasons, Fails(w, why) PROVE WorkStep(w)
    BY <1>9, <2>2, FailsFacts DEF Inspect, WorkStep, GoesOn, Edges
  <2>3. ASSUME work' = [work EXCEPT ![w].step = "checked", ![w].first = (age[l] = 0)],
               age[l] # 2, Eligible(l)
        PROVE  WorkStep(w)
    <3> DEFINE new == [r EXCEPT !.step = "checked", !.first = (age[l] = 0)]
    <3>1. new \in WorkType /\ new.step = "checked" /\ new.letter = r.letter /\ new.seen = r.seen
      BY <1>0 DEF WorkType, Steps, Mailing
    <3>2. work' = [work EXCEPT ![w] = new]
      BY <2>3
    <3> HIDE DEF new
    <3>3. Alone(w) /\ work'[w] = new
      BY <3>1, <3>2, WorkSet
    <3> QED
      BY <1>9, <2>3, <3>1, <3>3 DEF Inspect, WorkStep, GoesOn, Edges, resendVars
  <2>4. \/ \E why \in Reasons : Fails(w, why)
        \/ /\ work' = [work EXCEPT ![w].step = "checked", ![w].first = (age[l] = 0)]
           /\ age[l] # 2 /\ Eligible(l)
    BY <1>9, <2>1 DEF Inspect, Reasons
  <2> QED
    BY <2>2, <2>3, <2>4
<1>10. CASE RenewLease(w)
  BY <1>10, GoesFacts DEF RenewLease, WorkStep, GoesOn, Edges, Steps, Mailing, Finishing, raceVars
<1>11. CASE StampFirst(w)
  BY <1>11, GoesFacts DEF StampFirst, WorkStep, GoesOn, Edges, Steps, Mailing, raceVars
<1>12. CASE SendAccepted(w)
  BY <1>12, GoesFacts DEF SendAccepted, WorkStep, GoesOn, Edges, Steps, Mailing, raceVars
<1>13. CASE SendUnanswered(w)
  BY <1>13, FailsFacts DEF SendUnanswered, WorkStep, GoesOn, Edges, Reasons, raceVars
<1>14. CASE SendRefused(w)
  BY <1>14, FailsFacts DEF SendRefused, WorkStep, GoesOn, Edges, Reasons, raceVars
<1>15. CASE MarkReads(w)
  <2>1. r.letter \in Letters /\ open'[r.letter].by = w
    BY <1>15 DEF MarkReads, WorkerInv, Mailing, TypeOK
  <2> QED
    BY <1>15, <2>1, GoesFacts DEF MarkReads, WorkStep, GoesOn, Edges, Steps, Mailing, raceVars
<1>16. CASE MarkWrites(w)
  BY <1>16, GoesFacts DEF MarkWrites, WorkStep, GoesOn, Edges, Steps, Finishing, raceVars
<1>17. CASE MarkThrows(w)
  BY <1>17, FailsFacts DEF MarkThrows, WorkStep, GoesOn, Edges, Reasons, raceVars
<1>18. CASE FailLetter(w)
  <2> DEFINE new == [r EXCEPT !.step = "finish", !.why = "NONE"]
  <2>1. new \in WorkType /\ new.step = "finish" /\ new.letter = r.letter /\ new.seen = r.seen
    BY <1>0 DEF WorkType, Steps, Finishing
  <2>2. work' = [work EXCEPT ![w] = new]
    BY <1>18 DEF FailLetter
  <2> HIDE DEF new
  <2>3. Alone(w) /\ work'[w] = new
    BY <2>1, <2>2, WorkSet
  <2> QED
    BY <1>18, <2>1, <2>3 DEF FailLetter, WorkStep, GoesOn, Edges, raceVars
<1>19. CASE ClaimCampaign(w)
  BY <1>19, GoesFacts DEF ClaimCampaign, WorkStep, Starts, Steps, Preparing, raceVars
<1>20. CASE Crash(w)
  BY <1>20, <1>r DEF Crash
<1>21. ASSUME NEW l \in Letters, Choose(w, l) PROVE WorkStep(w)
  <2> DEFINE new == [Idle EXCEPT !.step = "chosen", !.letter = l, !.seen = status[l]]
  <2>1. new \in WorkType /\ new.step = "chosen" /\ new.letter = l /\ new.seen = status[l]
    BY <1>21, Empty DEF WorkType, Steps, Mailing, TypeOK
  <2>2. work' = [work EXCEPT ![w] = new]
    BY <1>21 DEF Choose
  <2> HIDE DEF new
  <2>3. Alone(w) /\ work'[w] = new
    BY <2>1, <2>2, WorkSet
  <2> QED
    BY <1>21, <2>1, <2>3 DEF Choose, WorkStep, Starts, raceVars
<1> QED
  BY <1>1, <1>2, <1>3, <1>4, <1>5, <1>6, <1>7, <1>8, <1>9, <1>10, <1>11, <1>12, <1>13, <1>14, <1>15,
     <1>16, <1>17, <1>18, <1>19, <1>20, <1>21 DEF Turn, Preparation, Processes
-----------------------------------------------------------------------------
(* Type correctness, step by step. *)
LEMMA TurnTypes ==
    ASSUME TypeOK, WorkerInv, NEW w \in Workers, Turn(w) PROVE TypeOK'
<1> USE StatusNames, EmailAssumption
<1> USE DEF campaignVars, leaseVars, resendVars, eventVars, raceVars
<1>0. work' \in [Workers -> WorkType]
  BY TurnSteps DEF WorkStep, Alone
<1>e. NoTx \in TxType
  BY Empty
<1>1. CASE ReadAudience(w)
  BY <1>0, <1>e, <1>1 DEF ReadAudience, TypeOK, Campaigns
<1>2. CASE CreateRows(w)
  BY <1>0, <1>e, <1>2 DEF CreateRows, TypeOK, Campaigns, Completing
<1>3. CASE Unlock(w)
  BY <1>0, <1>e, <1>3 DEF Unlock, TypeOK, Campaigns
<1>4. CASE PrepareFails(w)
  BY <1>0, <1>e, <1>4 DEF PrepareFails, TypeOK, Campaigns, Rests, Fault
<1>5. CASE FinishReads(w)
  BY <1>0, <1>e, <1>5 DEF FinishReads, TypeOK, Campaigns, Rests
<1>6. CASE FinishCounts(w)
  BY <1>0, <1>e, <1>6 DEF FinishCounts, TypeOK, Campaigns, Rests
<1>7. CASE Complete(w)
  BY <1>0, <1>e, <1>7 DEF Complete, TypeOK, Campaigns, Rests, Touched
<1>8. CASE Take(w)
  <2>1. PICK l \in Letters : l = work[w].letter
    BY <1>8 DEF Take, At, WorkerInv, Mailing
  <2>5. \/ UNCHANGED <<status, old>>
        \/ status' = [status EXCEPT ![l] = "PROCESSING"] /\ old' = [old EXCEPT ![l] = FALSE]
    BY <1>8, <2>1 DEF Take
  <2>2. status' \in [Letters -> Statuses \cup {"NONE"}] /\ old' \in [Letters -> BOOLEAN]
    BY <2>5 DEF TypeOK
  <2>3. attempts' \in [Letters -> Nat] /\ holder' \in [Letters -> Workers \cup {Nobody}]
    BY <1>8, <2>1 DEF Take, TypeOK
  <2>4. begun' \subseteq Workers /\ outdated' \subseteq Workers
    BY <1>8 DEF Take, TypeOK, Rests
  <2> QED
    BY <1>0, <1>8, <2>2, <2>3, <2>4 DEF Take, TypeOK
<1>9. CASE Inspect(w)
  BY <1>0, <1>e, <1>9 DEF Inspect, TypeOK, Campaigns
<1>10. CASE RenewLease(w)
  BY <1>0, <1>e, <1>10 DEF RenewLease, TypeOK, Campaigns, WorkerInv, Mailing
<1>11. CASE StampFirst(w)
  <2>1. PICK l \in Letters : l = work[w].letter
    BY <1>11 DEF StampFirst, At, WorkerInv, Mailing
  <2> QED
    BY <1>0, <1>e, <1>11, <2>1 DEF StampFirst, At, TypeOK
<1>12. CASE SendAccepted(w)
  <2>1. PICK l \in Letters : l = work[w].letter
    BY <1>12 DEF SendAccepted, At, WorkerInv, Mailing
  <2> QED
    BY <1>0, <1>e, <1>12, <2>1 DEF SendAccepted, At, TypeOK, Delivers
<1>13. CASE SendUnanswered(w)
  <2>1. PICK l \in Letters : l = work[w].letter
    BY <1>13 DEF SendUnanswered, At, WorkerInv, Mailing
  <2> QED
    BY <1>0, <1>e, <1>13, <2>1 DEF SendUnanswered, At, TypeOK, Delivers, Fault
<1>14. CASE SendRefused(w)
  BY <1>0, <1>e, <1>14 DEF SendRefused, TypeOK, Campaigns
<1>15. CASE MarkReads(w)
  <2>1. PICK l \in Letters : l = work[w].letter
    BY <1>15 DEF MarkReads, At, WorkerInv, Mailing
  <2> QED
    BY <1>0, <1>e, <1>15, <2>1 DEF MarkReads, At, TypeOK, TxType
<1>16. CASE MarkWrites(w)
  <2>1. PICK l \in Letters : l = work[w].letter
    BY <1>16 DEF MarkWrites, At, WorkerInv, Mailing
  <2>2. status' \in [Letters -> Statuses \cup {"NONE"}] /\ told' \in [Letters -> Nat]
    <3>1. open[l].seen \in Statuses \cup {"NONE"}
      BY DEF TypeOK, TxType
    <3> QED
      BY <1>16, <2>1, <3>1 DEF MarkWrites, TypeOK
  <2>3. open' \in [Letters -> TxType] /\ local' \in [Letters -> BOOLEAN]
    BY <1>e, <1>16, <2>1 DEF MarkWrites, TypeOK
  <2> QED
    BY <1>0, <1>16, <2>1, <2>2, <2>3 DEF MarkWrites, TypeOK
<1>17. CASE MarkThrows(w)
  <2>1. PICK l \in Letters : l = work[w].letter
    BY <1>17 DEF MarkThrows, At, WorkerInv, Mailing
  <2> QED
    BY <1>0, <1>e, <1>17, <2>1 DEF MarkThrows, At, TypeOK, Fault
<1>18. CASE FailLetter(w)
  BY <1>0, <1>e, <1>18 DEF FailLetter, TypeOK, Campaigns, FailedStatus
<1>19. CASE ClaimCampaign(w)
  BY <1>0, <1>e, <1>19 DEF ClaimCampaign, TypeOK, Campaigns
<1>20. CASE Crash(w)
  BY <1>0, <1>e, <1>20 DEF Crash, TypeOK, Campaigns, Fault, Rests, Completing
<1>21. ASSUME NEW l \in Letters, Choose(w, l) PROVE TypeOK'
  BY <1>0, <1>21 DEF Choose, TypeOK
<1> QED
  BY <1>1, <1>2, <1>3, <1>4, <1>5, <1>6, <1>7, <1>8, <1>9, <1>10, <1>11, <1>12, <1>13, <1>14, <1>15, <1>16, <1>17, <1>18, <1>19, <1>20, <1>21 DEF Turn, Preparation, Processes

(* Everybody but the workers: requests, Resend, recovery, time, heartbeats. *)
Others == \/ Promote \/ Request \/ Resend \/ Recovers \/ Ages
          \/ \E w \in Workers : Heartbeat(w)

LEMMA NextSplits == Next => Others \/ \E w \in Workers : Turn(w)
BY DEF Next, Others, Turn, Drains

LEMMA OthersLeaveWork == Others => work' = work
BY DEF Others, Promote, Request, Resend, Recovers, Ages, ReadLaunch, Launch, Pause, Resume, Transition,
       ReadCancel, Cancel, RetryFailed, Revive, Suppress, RemoveSuppression, QueueLetter, EventWrites,
       EventLost, EventReads, RecoverLetters, RecoverCampaign, PreparationAges, LeaseLapses, HoursPass,
       KeyForgotten, Heartbeat

LEMMA OtherTypes ==
    ASSUME TypeOK, WorkerInv, OpenInv, Others PROVE TypeOK'
<1> USE StatusNames, EmailAssumption
<1> USE DEF campaignVars, leaseVars, resendVars, eventVars, raceVars
<1>0. work' = work
  BY OthersLeaveWork
<1>e. NoTx \in TxType
  BY Empty
<1>1. CASE Promote
  BY <1>0, <1>e, <1>1 DEF Promote, TypeOK, Campaigns, Touched
<1>2. CASE ReadLaunch
  BY <1>0, <1>e, <1>2 DEF ReadLaunch, TypeOK, Campaigns, Ask, Requested, AskedType
<1>3. CASE Launch
  BY <1>0, <1>e, <1>3 DEF Launch, TypeOK, Campaigns, Writes, AskedType, Touched
<1>4. CASE Pause
  BY <1>0, <1>e, <1>4 DEF Pause, TypeOK, Campaigns, Ask, Transition, Touched
<1>5. CASE Resume
  BY <1>0, <1>e, <1>5 DEF Resume, TypeOK, Campaigns, Transition, Touched
<1>6. CASE ReadCancel
  BY <1>0, <1>e, <1>6 DEF ReadCancel, TypeOK, Campaigns, Ask, Requested, AskedType
<1>7. CASE Cancel
  BY <1>0, <1>e, <1>7 DEF Cancel, TypeOK, Campaigns, Writes, AskedType, Touched
<1>8. CASE RetryFailed
  BY <1>0, <1>e, <1>8 DEF RetryFailed, TypeOK, Campaigns, Ask, Requested, AskedType, Completing
<1>9. CASE Revive
  BY <1>0, <1>e, <1>9 DEF Revive, TypeOK, Campaigns, Writes, AskedType, Touched
<1>10. CASE RecoverLetters
  BY <1>0, <1>e, <1>10 DEF RecoverLetters, TypeOK, Campaigns
<1>11. CASE RecoverCampaign
  BY <1>0, <1>e, <1>11 DEF RecoverCampaign, TypeOK, Campaigns
<1>12. CASE PreparationAges
  BY <1>0, <1>e, <1>12 DEF PreparationAges, TypeOK, Campaigns, Fault
<1>13. ASSUME NEW a \in Addresses, Suppress(a) PROVE TypeOK'
  BY <1>0, <1>e, <1>13 DEF Suppress, TypeOK, Campaigns, Ask, PastCheck
<1>14. ASSUME NEW a \in Addresses, RemoveSuppression(a) PROVE TypeOK'
  BY <1>0, <1>e, <1>14 DEF RemoveSuppression, TypeOK, Campaigns, Ask
<1>15. ASSUME NEW l \in Letters, QueueLetter(l) PROVE TypeOK'
  BY <1>0, <1>e, <1>15 DEF QueueLetter, TypeOK, Campaigns
<1>16. ASSUME NEW l \in Letters, EventWrites(l) PROVE TypeOK'
  <2>1. open[l].kind \in Statuses /\ open[l].kind \in Events
    BY <1>16 DEF EventWrites, OpenInv
  <2> QED
    BY <1>0, <1>e, <1>16, <2>1 DEF EventWrites, TypeOK, PastCheck
<1>17. ASSUME NEW l \in Letters, EventLost(l) PROVE TypeOK'
  BY <1>0, <1>e, <1>17 DEF EventLost, TypeOK, Campaigns, Fault
<1>18. ASSUME NEW l \in Letters, NEW kind \in Events, EventReads(l, kind) PROVE TypeOK'
  BY <1>0, <1>e, <1>18 DEF EventReads, TypeOK, Campaigns, TxType
<1>19. ASSUME NEW l \in Letters, LeaseLapses(l) PROVE TypeOK'
  BY <1>0, <1>e, <1>19 DEF LeaseLapses, TypeOK, Campaigns, Fault
<1>20. ASSUME NEW l \in Letters, HoursPass(l) PROVE TypeOK'
  BY <1>0, <1>e, <1>20 DEF HoursPass, TypeOK, Campaigns
<1>21. ASSUME NEW l \in Letters, KeyForgotten(l) PROVE TypeOK'
  BY <1>0, <1>e, <1>21 DEF KeyForgotten, TypeOK, Campaigns
<1>22. ASSUME NEW w \in Workers, Heartbeat(w) PROVE TypeOK'
  BY <1>0, <1>e, <1>22 DEF Heartbeat, TypeOK, Campaigns
<1> QED
  BY <1>1, <1>2, <1>3, <1>4, <1>5, <1>6, <1>7, <1>8, <1>9, <1>10, <1>11, <1>12, <1>13, <1>14, <1>15, <1>16, <1>17, <1>18, <1>19, <1>20, <1>21, <1>22 DEF Others, Request, Resend, Recovers, Ages
-----------------------------------------------------------------------------
(* What one step can do to a letter: its status, the transaction open for it, and
   what is recorded and told of it. *)
Marked(w, l) == At(w, "marking") /\ work[w].letter = l /\ MarkWrites(w)

StatusStep(l) ==
    \/ status'[l] = status[l]
    \/ /\ status[l] = "NONE" /\ status'[l] = "PENDING"
       /\ l \in Members => Completing \subseteq outdated'
    \/ status[l] \in Unfinished /\ status'[l] \in Statuses \ Evidence
    \/ /\ status[l] \in {"FAILED", "BOUNCED", "SUPPRESSED"} /\ status'[l] = "PENDING"
       /\ Completing \subseteq outdated' /\ asked'.revive > asked.revive
    \/ \E w \in Workers : Marked(w, l)
    \/ EventWrites(l)

OpenStep(l) ==
    \/ open'[l] = open[l]
    \/ /\ open[l] = NoTx /\ open'[l].seen = status[l]
       /\ open'[l].by = "WEBHOOK" => open'[l].kind \in Events \ events[l]
       /\ status'[l] = status[l]
    \/ open'[l] = NoTx /\ open[l].by = "WEBHOOK"
    \/ /\ open'[l] = NoTx
       /\ \E w \in Workers : open[l].by = w /\ work'[w].step # "marking"

ToldStep(l) ==
    \/ events'[l] = events[l] /\ local'[l] = local[l] /\ told'[l] = told[l]
    \/ \E w \in Workers : Marked(w, l)
    \/ EventWrites(l)

LetterStep(l) == StatusStep(l) /\ OpenStep(l) /\ ToldStep(l)

LEMMA StatusFacts ==
    /\ Unfinished \subseteq Statuses \ Evidence /\ Waiting \subseteq Unfinished
    /\ {"PENDING", "PROCESSING", "RETRY", "UNKNOWN", "CANCELLED", "SUPPRESSED", "FAILED"}
          \subseteq Statuses \ Evidence
    /\ Evidence \subseteq Statuses
    /\ \A k \in EventKinds : k \notin Unfinished
BY StatusNames DEF Unfinished, Waiting, Evidence, EventKinds

(* A step that touches neither status nor what belongs to the events. *)
LEMMA Untouched ==
    ASSUME NEW l \in Letters, UNCHANGED eventVars, status'[l] = status[l] PROVE LetterStep(l)
BY DEF eventVars, LetterStep, StatusStep, OpenStep, ToldStep

LEMMA TurnLetters ==
    ASSUME TypeOK, WorkerInv, NEW w \in Workers, Turn(w), NEW l \in Letters PROVE LetterStep(l)
<1> USE DEF At
<1>w. WorkStep(w)
  BY TurnSteps
<1>1. CASE ReadAudience(w) \/ Unlock(w) \/ PrepareFails(w) \/ FinishReads(w) \/ FinishCounts(w)
           \/ Complete(w) \/ Inspect(w) \/ RenewLease(w) \/ StampFirst(w) \/ SendAccepted(w)
           \/ SendUnanswered(w) \/ SendRefused(w) \/ ClaimCampaign(w) \/ \E k \in Letters : Choose(w, k)
  <2>1. UNCHANGED <<eventVars, status>>
    BY <1>1 DEF ReadAudience, Unlock, PrepareFails, FinishReads, FinishCounts, Complete, Inspect,
         RenewLease, StampFirst, SendAccepted, SendUnanswered, SendRefused, ClaimCampaign, Choose
  <2> QED
    BY <2>1, Untouched
<1>2. CASE CreateRows(w)
  <2>1. UNCHANGED eventVars /\ Completing \subseteq outdated'
    BY <1>2 DEF CreateRows
  <2>2. status'[l] = status[l] \/ (status[l] = "NONE" /\ status'[l] = "PENDING")
    BY <1>2 DEF CreateRows
  <2> QED
    BY <2>1, <2>2, Untouched DEF LetterStep, StatusStep, OpenStep, ToldStep, eventVars
<1>3. CASE Take(w)
  <2>1. UNCHANGED eventVars
    BY <1>3 DEF Take
  <2>2. status'[l] = status[l] \/ (status[l] \in Waiting /\ status'[l] = "PROCESSING")
    BY <1>3 DEF Take, TypeOK, WorkerInv
  <2> QED
    BY <2>1, <2>2, StatusFacts, Untouched DEF LetterStep, StatusStep, OpenStep, ToldStep, eventVars
<1>4. CASE FailLetter(w)
  <2>1. UNCHANGED eventVars
    BY <1>4 DEF FailLetter
  <2>2. \A k \in Letters : FailedStatus(k, work[w].why) \in {"UNKNOWN", "SUPPRESSED", "FAILED", "RETRY"}
    BY DEF FailedStatus
  <2>3. status'[l] = status[l] \/ (status[l] = "PROCESSING" /\ status'[l] = FailedStatus(l, work[w].why))
    BY <1>4 DEF FailLetter, Holds, TypeOK
  <2>4. status'[l] = status[l] \/ (status[l] \in Unfinished /\ status'[l] \in Statuses \ Evidence)
    BY <2>2, <2>3, StatusFacts DEF Unfinished
  <2> QED
    BY <2>1, <2>4, Untouched DEF LetterStep, StatusStep, OpenStep, ToldStep, eventVars
<1>5. CASE MarkReads(w)
  <2>1. status' = status /\ UNCHANGED <<events, local, told>>
    BY <1>5 DEF MarkReads
  <2>2. OpenStep(l)
    <3>1. open'[l] = open[l] \/ (open[l] = NoTx /\ open'[l] = [by |-> w, kind |-> "local", seen |-> status[l]])
      BY <1>5 DEF MarkReads, TypeOK
    <3> QED
      BY <2>1, <3>1, EmailAssumption DEF OpenStep
  <2> QED
    BY <2>1, <2>2 DEF LetterStep, StatusStep, ToldStep
<1>6. CASE MarkWrites(w)
  <2>1. CASE work[w].letter = l
    <3>1. Marked(w, l)
      BY <1>6, <2>1 DEF Marked, MarkWrites
    <3>2. open'[l] = NoTx
      BY <1>6, <2>1 DEF MarkWrites, TypeOK
    <3>3. open[l].by = w /\ work'[w].step # "marking"
      BY <1>6, <1>w, <2>1 DEF MarkWrites, WorkerInv, WorkStep, Stops, Starts, GoesOn, EndsUnlock, Edges
    <3> QED
      BY <3>1, <3>2, <3>3 DEF LetterStep, StatusStep, OpenStep, ToldStep
  <2>2. CASE work[w].letter # l
    <3>1. status'[l] = status[l] /\ open'[l] = open[l] /\ local'[l] = local[l] /\ told'[l] = told[l]
          /\ events' = events
      BY <1>6, <2>2 DEF MarkWrites, TypeOK
    <3> QED
      BY <3>1 DEF LetterStep, StatusStep, OpenStep, ToldStep
  <2> QED
    BY <2>1, <2>2
<1>7. CASE MarkThrows(w)
  <2>1. status' = status /\ UNCHANGED <<events, local, told>>
    BY <1>7 DEF MarkThrows
  <2>2. open'[l] = open[l] \/ (work[w].letter = l /\ open'[l] = NoTx)
    BY <1>7 DEF MarkThrows, TypeOK
  <2>3. work[w].letter = l => open[l].by = w
    BY <1>7 DEF MarkThrows, WorkerInv
  <2>4. work'[w].step # "marking"
    BY <1>7, <1>w DEF MarkThrows, WorkStep, Stops, Starts, GoesOn, EndsUnlock, Edges
  <2> QED
    BY <2>1, <2>2, <2>3, <2>4 DEF LetterStep, StatusStep, OpenStep, ToldStep
<1>8. CASE Crash(w)
  <2>1. status' = status /\ UNCHANGED <<events, local, told>>
    BY <1>8 DEF Crash
  <2>2. open'[l] = open[l] \/ (open[l].by = w /\ open'[l] = NoTx)
    BY <1>8 DEF Crash
  <2>3. work'[w].step # "marking"
    BY <1>8, RestsFacts DEF Crash
  <2> QED
    BY <2>1, <2>2, <2>3 DEF LetterStep, StatusStep, OpenStep, ToldStep
<1> QED
  BY <1>1, <1>2, <1>3, <1>4, <1>5, <1>6, <1>7, <1>8 DEF Turn, Preparation, Processes

LEMMA OtherLetters ==
    ASSUME TypeOK, WorkerInv, Others, NEW l \in Letters PROVE LetterStep(l)
<1>1. CASE Promote \/ ReadLaunch \/ Launch \/ Pause \/ Resume \/ ReadCancel \/ Revive \/ RecoverCampaign
           \/ PreparationAges \/ (\E a \in Addresses : RemoveSuppression(a))
           \/ (\E k \in Letters : LeaseLapses(k) \/ HoursPass(k) \/ KeyForgotten(k))
           \/ (\E w \in Workers : Heartbeat(w))
  <2>1. UNCHANGED <<eventVars, status>>
    BY <1>1 DEF Promote, ReadLaunch, Launch, Pause, Resume, Transition, ReadCancel, Revive, RecoverCampaign,
         PreparationAges, RemoveSuppression, LeaseLapses, HoursPass, KeyForgotten, Heartbeat
  <2> QED
    BY <2>1, Untouched
<1>s. ASSUME UNCHANGED eventVars, StatusStep(l) PROVE LetterStep(l)
  BY <1>s DEF LetterStep, OpenStep, ToldStep, eventVars
<1>2. CASE Cancel
  <2>1. status'[l] = status[l] \/ (status[l] \in Waiting /\ status'[l] = "CANCELLED")
    BY <1>2 DEF Cancel
  <2> QED
    BY <1>2, <1>s, <2>1, StatusFacts DEF Cancel, StatusStep
<1>3. CASE RetryFailed
  <2>1. asked' = [asked EXCEPT !.revive = @ + 1] /\ Completing \subseteq outdated' /\ UNCHANGED eventVars
    BY <1>3 DEF RetryFailed, Requested
  <2>2. asked'.revive > asked.revive
    BY <2>1 DEF TypeOK, AskedType
  <2>3. status'[l] = status[l]
        \/ (status[l] \in {"FAILED", "BOUNCED", "SUPPRESSED"} /\ status'[l] = "PENDING")
    BY <1>3 DEF RetryFailed
  <2> QED
    BY <1>s, <2>1, <2>2, <2>3 DEF StatusStep
<1>4. ASSUME NEW a \in Addresses, Suppress(a) PROVE LetterStep(l)
  <2>1. status'[l] = status[l] \/ (status[l] \in Waiting /\ status'[l] = "SUPPRESSED")
    BY <1>4 DEF Suppress
  <2> QED
    BY <1>4, <1>s, <2>1, StatusFacts DEF Suppress, StatusStep
<1>5. ASSUME NEW k \in Letters, QueueLetter(k) PROVE LetterStep(l)
  <2>1. status'[l] = status[l] \/ (l = k /\ status[l] = "NONE" /\ status'[l] = "PENDING" /\ l \notin Members)
    BY <1>5 DEF QueueLetter, TypeOK
  <2> QED
    BY <1>5, <1>s, <2>1 DEF QueueLetter, StatusStep
<1>6. ASSUME NEW k \in Letters, EventWrites(k) PROVE LetterStep(l)
  <2>1. CASE k = l
    <3>1. open'[l] = NoTx /\ open[l].by = "WEBHOOK"
      BY <1>6, <2>1 DEF EventWrites, TypeOK
    <3> QED
      BY <1>6, <2>1, <3>1 DEF LetterStep, StatusStep, OpenStep, ToldStep
  <2>2. CASE k # l
    <3>1. status'[l] = status[l] /\ open'[l] = open[l] /\ local' = local /\ told'[l] = told[l]
          /\ events'[l] = events[l]
      BY <1>6, <2>2 DEF EventWrites, TypeOK
    <3> QED
      BY <3>1 DEF LetterStep, StatusStep, OpenStep, ToldStep
  <2> QED
    BY <2>1, <2>2
<1>7. ASSUME NEW k \in Letters, EventLost(k) PROVE LetterStep(l)
  <2>1. status' = status /\ UNCHANGED <<events, local, told>>
    BY <1>7 DEF EventLost
  <2>2. open'[l] = open[l] \/ (open[l].by = "WEBHOOK" /\ open'[l] = NoTx)
    BY <1>7 DEF EventLost, TypeOK
  <2> QED
    BY <2>1, <2>2 DEF LetterStep, StatusStep, OpenStep, ToldStep
<1>8. ASSUME NEW k \in Letters, NEW kind \in Events, EventReads(k, kind) PROVE LetterStep(l)
  <2>1. status' = status /\ UNCHANGED <<events, local, told>>
    BY <1>8 DEF EventReads
  <2>2. open'[l] = open[l] \/ (/\ open[l] = NoTx /\ kind \in Events \ events[l]
                               /\ open'[l] = [by |-> "WEBHOOK", kind |-> kind, seen |-> status[l]])
    BY <1>8 DEF EventReads, TypeOK
  <2> QED
    BY <2>1, <2>2 DEF LetterStep, StatusStep, OpenStep, ToldStep
<1>9. CASE RecoverLetters
  <2>1. status'[l] = status[l] \/ (status[l] = "PROCESSING" /\ status'[l] = "RETRY")
    BY <1>9 DEF RecoverLetters
  <2> QED
    BY <1>9, <1>s, <2>1, StatusFacts DEF RecoverLetters, StatusStep, Unfinished
<1> QED
  BY <1>1, <1>2, <1>3, <1>4, <1>5, <1>6, <1>7, <1>8, <1>9 DEF Others, Request, Resend, Recovers, Ages
-----------------------------------------------------------------------------
(* The workers and the open transactions. *)
LEMMA NextLetters ==
    ASSUME TypeOK, WorkerInv, [Next]_vars, NEW l \in Letters PROVE LetterStep(l)
BY NextSplits, TurnLetters, OtherLetters, Untouched DEF vars

LEMMA NextWork ==
    ASSUME TypeOK, WorkerInv, [Next]_vars, NEW w \in Workers
    PROVE  work'[w] = work[w] \/ WorkStep(w)
<1>1. CASE Others \/ UNCHANGED vars
  BY <1>1, OthersLeaveWork DEF vars
<1>2. ASSUME NEW v \in Workers, Turn(v) PROVE work'[w] = work[w] \/ WorkStep(w)
  BY <1>2, TurnSteps DEF WorkStep, Alone
<1> QED
  BY <1>1, <1>2, NextSplits

LEMMA NextTypes ==
    ASSUME TypeOK, WorkerInv, OpenInv, [Next]_vars PROVE TypeOK'
BY NextSplits, TurnTypes, OtherTypes DEF vars, TypeOK, campaignVars, leaseVars, resendVars, eventVars,
   raceVars

LEMMA NextWorkers ==
    ASSUME TypeOK, WorkerInv, [Next]_vars PROVE WorkerInv'
<1> SUFFICES ASSUME NEW w \in Workers
             PROVE  /\ work'[w].step \in Mailing => work'[w].letter \in Letters
                    /\ work'[w].step \in {"idle"} \cup Preparing => work'[w].letter = "NONE"
                    /\ work'[w].step = "chosen" => work'[w].seen \in Waiting
                    /\ work'[w].step = "marking" => open'[work'[w].letter].by = w
                    /\ work'[w].step = "fail" => work'[w].why \in Reasons
  BY DEF WorkerInv
<1>1. CASE work'[w] = work[w]
  <2>1. ASSUME work[w].step = "marking" PROVE open'[work[w].letter].by = w
    <3> DEFINE l == work[w].letter
    <3>1. l \in Letters /\ open[l].by = w
      BY <2>1 DEF WorkerInv, Mailing
    <3>2. OpenStep(l)
      BY <3>1, NextLetters DEF LetterStep
    <3>3. w # "WEBHOOK" /\ w # "NONE"
      BY EmailAssumption
    <3> QED
      BY <1>1, <2>1, <3>1, <3>2, <3>3, Empty DEF OpenStep
  <2> QED
    BY <1>1, <2>1 DEF WorkerInv
<1>2. CASE WorkStep(w)
  BY <1>2 DEF WorkStep, Stops, Starts, GoesOn, EndsUnlock, Edges, WorkerInv, Mailing, Preparing
<1> QED
  BY <1>1, <1>2, NextWork

LEMMA NextOpen ==
    ASSUME TypeOK, WorkerInv, OpenInv, [Next]_vars PROVE OpenInv'
<1> SUFFICES ASSUME NEW l \in Letters
             PROVE  /\ open'[l].by = "WEBHOOK" => open'[l].kind \in Events \ events'[l]
                    /\ open'[l] # NoTx /\ status'[l] \in Evidence => open'[l].seen = status'[l]
  BY Empty DEF OpenInv, NoTx
<1>1. LetterStep(l)
  BY NextLetters
<1>2. CASE open'[l] = NoTx
  BY <1>2, Empty
<1>3. ASSUME open'[l] # NoTx PROVE ~EventWrites(l) /\ \A w \in Workers : ~Marked(w, l)
  BY <1>3 DEF EventWrites, Marked, MarkWrites, TypeOK
<1>4. CASE open'[l] = open[l] /\ open'[l] # NoTx
  <2>1. events'[l] = events[l]
    BY <1>1, <1>3, <1>4 DEF LetterStep, ToldStep
  <2>2. status'[l] \in Evidence => status'[l] = status[l]
    BY <1>1, <1>3, <1>4, StatusFacts DEF LetterStep, StatusStep
  <2> QED
    BY <1>4, <2>1, <2>2 DEF OpenInv
<1>5. CASE open[l] = NoTx /\ open'[l] # NoTx
  <2>1. /\ open'[l].seen = status[l] /\ status'[l] = status[l]
        /\ open'[l].by = "WEBHOOK" => open'[l].kind \in Events \ events[l]
    BY <1>1, <1>5 DEF LetterStep, OpenStep
  <2>2. events'[l] = events[l]
    BY <1>1, <1>3, <1>5 DEF LetterStep, ToldStep
  <2> QED
    BY <2>1, <2>2
<1> QED
  BY <1>1, <1>2, <1>4, <1>5 DEF LetterStep, OpenStep

BaseInv == TypeOK /\ WorkerInv /\ OpenInv

(* The model is type-correct: rows, events and transactions have their shapes, and a
   worker carries at each step what that step needs. *)
THEOREM EmailTypeCorrect == Spec => []BaseInv
<1>1. Init => BaseInv
  <2>1. ASSUME Init PROVE OpenInv
    BY <2>1, Empty DEF Init, OpenInv
  <2> QED
    BY <2>1, InitHolds DEF BaseInv
<1>2. BaseInv /\ [Next]_vars => BaseInv'
  BY NextTypes, NextWorkers, NextOpen DEF BaseInv
<1> QED
  BY <1>1, <1>2, PTL DEF Spec
-----------------------------------------------------------------------------
(* Evidence of Resend is not overwritten by what ranks lower. *)
LEMMA EvidenceStep ==
    ASSUME BaseInv, [Next]_vars, NEW l \in Letters, status[l] \in Evidence
    PROVE  \/ status'[l] \in Statuses /\ Priority[status'[l]] >= Priority[status[l]]
           \/ asked'.revive > asked.revive
<1> USE DEF BaseInv
<1>1. StatusStep(l)
  BY NextLetters DEF LetterStep
<1>0. status[l] \in Statuses /\ Priority[status[l]] \in Nat /\ status[l] # "NONE"
  BY StatusNames, StatusFacts
<1>2. CASE status'[l] = status[l]
  BY <1>0, <1>2
<1>3. ASSUME NEW w \in Workers, Marked(w, l) PROVE status'[l] = status[l]
  <2>1. open[l].by = w /\ open[l] # NoTx
    BY <1>3, Empty, EmailAssumption DEF Marked, WorkerInv, At
  <2>2. open[l].seen = status[l]
    BY <2>1 DEF OpenInv
  <2>3. open[l].seen \notin Unfinished \cup {"UNKNOWN"}
    BY <2>2, StatusFacts
  <2> QED
    BY <1>3, <2>2, <2>3 DEF Marked, MarkWrites, TypeOK
<1>4. CASE EventWrites(l)
  <2>1. open[l] # NoTx /\ open[l].kind \in EventKinds
    BY <1>4, Empty, EmailAssumption DEF EventWrites, OpenInv
  <2>2. open[l].seen = status[l]
    BY <2>1 DEF OpenInv
  <2>3. status'[l] = status[l] \/ (status'[l] = open[l].kind /\ Advances(open[l].kind, status[l]))
    BY <1>4, <2>2 DEF EventWrites, TypeOK
  <2>4. Advances(open[l].kind, status[l]) => Priority[open[l].kind] >= Priority[status[l]]
    BY DEF Advances
  <2> QED
    BY <1>2, <2>1, <2>3, <2>4, StatusNames
<1> QED
  BY <1>0, <1>1, <1>2, <1>3, <1>4, StatusFacts DEF StatusStep

(* EvidenceStays: only what ranks as high, or an operator's retry, replaces what
   Resend has said of a letter, whoever else holds an old read of its row. *)
THEOREM EmailEvidenceStays == Spec => EvidenceStays
<1>1. BaseInv /\ [Next]_vars =>
        [\A l \in Letters : status[l] \in Evidence =>
            \/ status'[l] \in Statuses /\ Priority[status'[l]] >= Priority[status[l]]
            \/ asked'.revive > asked.revive]_vars
  BY EvidenceStep
<1> QED
  BY <1>1, EmailTypeCorrect, PTL DEF Spec, EvidenceStays
-----------------------------------------------------------------------------
(* The CRM is told once. *)
ToldOnce(l) == told[l] = IF local[l] \/ "SENT" \in events[l] THEN 1 ELSE 0

LEMMA ToldOnceStep ==
    ASSUME BaseInv, [Next]_vars, NEW l \in Letters, ToldOnce(l) PROVE ToldOnce(l)'
<1> USE DEF BaseInv
<1>1. ToldStep(l)
  BY NextLetters DEF LetterStep
<1>2. CASE events'[l] = events[l] /\ local'[l] = local[l] /\ told'[l] = told[l]
  BY <1>2 DEF ToldOnce
<1>3. ASSUME NEW w \in Workers, Marked(w, l) PROVE ToldOnce(l)'
  <2>1. /\ ~(local[l] /\ "SENT" \notin events[l]) /\ local'[l] = TRUE /\ events'[l] = events[l]
        /\ told'[l] = IF "SENT" \in events[l] THEN told[l] ELSE told[l] + 1
    BY <1>3 DEF Marked, MarkWrites, AnnouncedBefore, TypeOK
  <2> QED
    BY <2>1 DEF ToldOnce
<1>4. CASE EventWrites(l)
  <2> DEFINE kind == open[l].kind
  <2>1. kind \notin events[l]
    BY <1>4 DEF EventWrites, OpenInv
  <2>2. /\ events'[l] = events[l] \cup {kind} /\ local'[l] = local[l]
        /\ told'[l] = IF kind = "SENT" /\ ~local[l] THEN told[l] + 1 ELSE told[l]
    BY <1>4 DEF EventWrites, IsNews, TypeOK
  <2> HIDE DEF kind
  <2> QED
    BY <2>1, <2>2 DEF ToldOnce
<1> QED
  BY <1>1, <1>2, <1>3, <1>4 DEF ToldStep

(* SentToldOnce: worker and webhook announce a letter as sent once between them,
   whoever records it first and however often. *)
THEOREM EmailSentToldOnce == Spec => []SentToldOnce
<1>1. Init => SentToldOnce
  BY DEF Init, SentToldOnce
<1>2. BaseInv /\ SentToldOnce /\ [Next]_vars => SentToldOnce'
  BY ToldOnceStep DEF SentToldOnce, ToldOnce
<1> QED
  BY <1>1, <1>2, EmailTypeCorrect, PTL DEF Spec
-----------------------------------------------------------------------------
(* Completion: what a worker counted stays true until it completes the campaign, or
   the worker is outdated. *)
CountInv == \A w \in Workers : At(w, "complete") => NoneOf(Unfinished) \/ w \in outdated

LEMMA NewWork ==
    ASSUME BaseInv, [Next]_vars, NoneOf(Unfinished), ~(Completing \subseteq outdated')
    PROVE  NoneOf(Unfinished)'
<1> SUFFICES ASSUME NEW l \in Members, status'[l] \in Unfinished PROVE FALSE
  BY DEF NoneOf
<1>1. l \in Letters /\ status[l] \notin Unfinished
  BY DEF NoneOf, Members
<1>2. StatusStep(l)
  BY <1>1, NextLetters DEF LetterStep, BaseInv
<1>3. ASSUME NEW w \in Workers, Marked(w, l) PROVE FALSE
  <2>1. status'[l] = IF open[l].seen \in Unfinished \cup {"UNKNOWN"} THEN "SENT" ELSE open[l].seen
    BY <1>1, <1>3 DEF Marked, MarkWrites, BaseInv, TypeOK
  <2> QED
    BY <2>1 DEF Unfinished
<1>4. CASE EventWrites(l)
  <2>1. status'[l] = status[l] \/ status'[l] = open[l].kind
    BY <1>1, <1>4 DEF EventWrites, BaseInv, TypeOK
  <2>2. open[l].kind \in EventKinds
    BY <1>1, <1>4, EmailAssumption DEF EventWrites, BaseInv, OpenInv
  <2> QED
    BY <1>1, <2>1, <2>2, StatusFacts
<1> QED
  BY <1>1, <1>2, <1>3, <1>4 DEF StatusStep

LEMMA CountStep ==
    ASSUME BaseInv, CountInv, [Next]_vars PROVE CountInv'
<1> SUFFICES ASSUME NEW w \in Workers, work'[w].step = "complete", w \notin outdated'
             PROVE  NoneOf(Unfinished)'
  BY DEF CountInv, At
<1>1. CASE work'[w] = work[w]
  <2>1. w \in Completing
    BY <1>1 DEF Completing, At
  <2>2. w \notin outdated
    <3>1. ASSUME NEW v \in Workers, Turn(v) PROVE outdated \ {v} \subseteq outdated'
      BY <3>1, TurnSteps DEF BaseInv, WorkStep, Stops, Keeps
    <3>2. ASSUME NEW v \in Workers, Turn(v), w \in outdated PROVE w \in outdated'
      <4>1. CASE v = w
        BY <1>1, <3>2, <4>1, TurnSteps DEF BaseInv, WorkStep, Stops, Keeps
      <4> QED
        BY <3>1, <3>2, <4>1
    <3>3. Others \/ UNCHANGED vars => outdated \subseteq outdated'
      BY DEF Others, Promote, Request, Resend, Recovers, Ages, ReadLaunch, Launch, Pause, Resume, Transition,
         ReadCancel, Cancel, RetryFailed, Revive, Suppress, RemoveSuppression, QueueLetter, EventWrites,
         EventLost, EventReads, RecoverLetters, RecoverCampaign, PreparationAges, LeaseLapses, HoursPass,
         KeyForgotten, Heartbeat, raceVars, vars
    <3> QED
      BY <3>2, <3>3, NextSplits
  <2> QED
    BY <2>1, <2>2, NewWork DEF CountInv, Completing
<1>2. CASE WorkStep(w)
  <2>1. NoneOf(Unfinished) /\ status' = status
    BY <1>2 DEF WorkStep, Stops, Starts, GoesOn, EndsUnlock
  <2> QED
    BY <2>1 DEF NoneOf
<1> QED
  BY <1>1, <1>2, NextWork DEF BaseInv

(* CompletedIsFinished: a campaign is completed over letters to be sent only if they
   came between a worker's count and its update. *)
THEOREM EmailCompletedIsFinished == Spec => CompletedIsFinished
<1>1. Init => CountInv
  BY Empty DEF Init, CountInv, At
<1>2. BaseInv /\ CountInv /\ [Next]_vars => CountInv'
  BY CountStep
<1>3. CountInv => [\A w \in Workers : Complete(w) => NoneOf(Unfinished) \/ w \in outdated]_vars
  BY DEF CountInv, Complete
<1> QED
  BY <1>1, <1>2, <1>3, EmailTypeCorrect, PTL DEF Spec, CompletedIsFinished
-----------------------------------------------------------------------------
(* A worker between its look at suppressions and age and its call was there before,
   or has just looked. *)
Looked(w) == /\ slipped' = slipped \ {w} /\ UNCHANGED <<suppressed, age, key, slow>>
             /\ Eligible(work'[w].letter) /\ age[work'[w].letter] # 2

LEMMA CallsStep ==
    ASSUME BaseInv, [Next]_vars, NEW w \in Workers, work'[w].step \in Calls
    PROVE  \/ work[w].step \in Calls /\ work'[w].letter = work[w].letter
           \/ Looked(w)
BY NextWork DEF BaseInv, WorkStep, Stops, Starts, GoesOn, EndsUnlock, Edges, Calls, Looked

(* MailedOnce: the key is new until the first mail, kept after it, and forgotten only
   when nobody can call any more, but for slow letters. *)
MailInv ==
    \A l \in Letters :
      /\ key[l] = "NEW" <=> mailed[l] = 0
      /\ mailed[l] > 1 => l \in slow
      /\ key[l] = "FORGOTTEN" /\ l \notin slow =>
            age[l] = 2 /\ \A w \in Workers : ~(work[w].letter = l /\ work[w].step \in Calls)

Stamps(w, l) == /\ work[w].letter = l /\ At(w, "stamping") /\ slow \subseteq slow'
                /\ key'[l] = key[l] /\ mailed'[l] = mailed[l]
Delivered(w, l) == /\ work[w].letter = l /\ At(w, "calling") /\ slow' = slow
                   /\ mailed'[l] = (IF key[l] = "KEPT" THEN mailed[l] ELSE mailed[l] + 1)
                   /\ key'[l] = "KEPT"
Forgets(l) == /\ key[l] = "KEPT" /\ (age[l] = 2 \/ l \in slow) /\ key'[l] = "FORGOTTEN"
              /\ age' = age /\ mailed' = mailed /\ work' = work /\ slow \subseteq slow'
              /\ (\E w \in Workers : work[w].letter = l /\ work[w].step \in Calls) => l \in slow'
ResendStep(l) ==
    \/ /\ key'[l] = key[l] /\ mailed'[l] = mailed[l] /\ slow \subseteq slow'
       /\ age'[l] = age[l] \/ (age'[l] = 2 /\ work' = work)
    \/ \E w \in Workers : Stamps(w, l) \/ Delivered(w, l)
    \/ Forgets(l)

LEMMA NextResend ==
    ASSUME BaseInv, [Next]_vars, NEW l \in Letters PROVE ResendStep(l)
<1> USE DEF BaseInv
<1>k. ASSUME UNCHANGED resendVars PROVE ResendStep(l)
  BY <1>k DEF resendVars, ResendStep
<1>1. ASSUME NEW w \in Workers, Turn(w) PROVE ResendStep(l)
  <2>1. CASE StampFirst(w)
    <3>1. work[w].letter \in Letters
      BY <2>1 DEF StampFirst, WorkerInv, Mailing, At
    <3>2. age' = [age EXCEPT ![work[w].letter] = 1] /\ slow \subseteq slow' /\ UNCHANGED <<key, mailed>>
          /\ At(w, "stamping")
      BY <2>1 DEF StampFirst
    <3> QED
      BY <3>1, <3>2 DEF ResendStep, Stamps, TypeOK
  <2>2. CASE SendAccepted(w) \/ SendUnanswered(w)
    <3>1. work[w].letter \in Letters
      BY <2>2 DEF SendAccepted, SendUnanswered, WorkerInv, Mailing, At
    <3>2. Delivers(work[w].letter) /\ UNCHANGED <<age, slow>> /\ At(w, "calling")
      BY <2>2 DEF SendAccepted, SendUnanswered
    <3> QED
      BY <3>1, <3>2 DEF Delivers, ResendStep, Delivered, TypeOK
  <2>3. CASE ~StampFirst(w) /\ ~SendAccepted(w) /\ ~SendUnanswered(w)
    <3>1. UNCHANGED resendVars
      BY <1>1, <2>3 DEF Turn, Preparation, Processes, ReadAudience, CreateRows, Unlock, PrepareFails,
           FinishReads, FinishCounts, Complete, Take, Inspect, RenewLease, SendRefused, MarkReads,
           MarkWrites, MarkThrows, FailLetter, ClaimCampaign, Crash, Choose
    <3> QED
      BY <3>1, <1>k
  <2> QED
    BY <2>1, <2>2, <2>3
<1>2. ASSUME NEW k \in Letters, HoursPass(k) PROVE ResendStep(l)
  <2>1. age' = [age EXCEPT ![k] = 2] /\ UNCHANGED <<key, mailed, slow, work>>
    BY <1>2 DEF HoursPass
  <2> QED
    BY <2>1 DEF ResendStep, TypeOK
<1>3. ASSUME NEW k \in Letters, KeyForgotten(k) PROVE ResendStep(l)
  <2>1. /\ key[k] = "KEPT" /\ (age[k] = 2 \/ k \in slow) /\ key' = [key EXCEPT ![k] = "FORGOTTEN"]
        /\ slow' = IF \E w \in Workers : work[w].letter = k /\ work[w].step \in Calls
                   THEN slow \cup {k} ELSE slow
        /\ UNCHANGED <<age, mailed, work>>
    BY <1>3 DEF KeyForgotten
  <2>2. CASE k = l
    BY <2>1, <2>2 DEF ResendStep, Forgets, TypeOK
  <2>3. CASE k # l
    BY <2>1, <2>3 DEF ResendStep, TypeOK
  <2> QED
    BY <2>2, <2>3
<1>4. CASE Others /\ ~(\E k \in Letters : HoursPass(k) \/ KeyForgotten(k))
  <2>1. UNCHANGED resendVars
    BY <1>4 DEF Others, Promote, Request, Resend, Recovers, Ages, ReadLaunch, Launch, Pause, Resume,
         Transition, ReadCancel, Cancel, RetryFailed, Revive, Suppress, RemoveSuppression, QueueLetter,
         EventWrites, EventLost, EventReads, RecoverLetters, RecoverCampaign, PreparationAges,
         LeaseLapses, Heartbeat
  <2> QED
    BY <2>1, <1>k
<1>5. CASE UNCHANGED vars
  BY <1>5, <1>k DEF vars, resendVars
<1> QED
  BY <1>1, <1>2, <1>3, <1>4, <1>5, NextSplits

LEMMA MailStep ==
    ASSUME BaseInv, BaseInv', MailInv, [Next]_vars PROVE MailInv'
<1> SUFFICES ASSUME NEW l \in Letters
             PROVE  /\ key'[l] = "NEW" <=> mailed'[l] = 0
                    /\ mailed'[l] > 1 => l \in slow'
                    /\ key'[l] = "FORGOTTEN" /\ l \notin slow' =>
                          /\ age'[l] = 2
                          /\ \A w \in Workers : ~(work'[w].letter = l /\ work'[w].step \in Calls)
  BY DEF MailInv
<1>0. /\ mailed[l] \in Nat /\ key[l] \in {"NEW", "KEPT", "FORGOTTEN"}
      /\ key[l] = "NEW" <=> mailed[l] = 0
      /\ mailed[l] > 1 => l \in slow
      /\ key[l] = "FORGOTTEN" /\ l \notin slow =>
            age[l] = 2 /\ \A w \in Workers : ~(work[w].letter = l /\ work[w].step \in Calls)
  BY DEF MailInv, BaseInv, TypeOK
<1>1. CASE /\ key'[l] = key[l] /\ mailed'[l] = mailed[l] /\ slow \subseteq slow'
           /\ age'[l] = age[l] \/ (age'[l] = 2 /\ work' = work)
  <2>1. ASSUME key'[l] = "FORGOTTEN", l \notin slow', NEW w \in Workers, work'[w].letter = l,
               work'[w].step \in Calls
        PROVE  FALSE
    <3>1. ~Looked(w)
      BY <1>0, <1>1, <2>1 DEF Looked
    <3> QED
      BY <1>0, <1>1, <2>1, <3>1, CallsStep
  <2> QED
    BY <1>0, <1>1, <2>1
<1>2. ASSUME NEW w \in Workers, Stamps(w, l) PROVE key'[l] = "FORGOTTEN" => l \in slow'
  BY <1>0, <1>2 DEF Stamps, At, Calls
<1>3. ASSUME NEW w \in Workers, Delivered(w, l) PROVE key[l] = "FORGOTTEN" => l \in slow
  BY <1>0, <1>3 DEF Delivered, At, Calls
<1>4. CASE Forgets(l)
  BY <1>0, <1>4 DEF Forgets
<1>5. ASSUME NEW w \in Workers, Stamps(w, l) \/ Delivered(w, l)
      PROVE  /\ key'[l] = "NEW" <=> mailed'[l] = 0
             /\ mailed'[l] > 1 => l \in slow'
             /\ key'[l] = "FORGOTTEN" => l \in slow'
  BY <1>0, <1>2, <1>3, <1>5 DEF Stamps, Delivered
<1> QED
  BY <1>1, <1>4, <1>5, NextResend DEF ResendStep

(* MailedOnce: a letter is mailed twice only if its key was forgotten under a worker
   or its first attempt stamped twice, whatever leases, retries and crashes do. *)
THEOREM EmailMailedOnce == Spec => []MailedOnce
<1>1. Init => MailInv
  BY DEF Init, MailInv
<1>2. BaseInv /\ BaseInv' /\ MailInv /\ [Next]_vars => MailInv'
  BY MailStep
<1>3. MailInv => MailedOnce
  BY DEF MailInv, MailedOnce
<1> QED
  BY <1>1, <1>2, <1>3, EmailTypeCorrect, PTL DEF Spec
-----------------------------------------------------------------------------
(* Who may call about a suppressed address, and about a cancelled campaign. *)
LEMMA MailedByCaller ==
    ASSUME BaseInv, [Next]_vars, NEW l \in Letters, Mailed(l)
    PROVE  \E w \in Workers : At(w, "calling") /\ work[w].letter = l
<1>1. mailed[l] \in Nat /\ mailed'[l] # mailed[l]
  BY DEF Mailed, BaseInv, TypeOK
<1> QED
  BY <1>1, NextResend DEF ResendStep, Stamps, Delivered, Forgets

SlipInv ==
    \A w \in Workers :
      work[w].step \in Calls /\ Source[work[w].letter] # "TEST" /\ Address[work[w].letter] \in suppressed
        => w \in slipped

LEMMA Suppressions ==
    ASSUME BaseInv, [Next]_vars, NEW w \in Workers, work[w].step \in Calls
    PROVE  /\ w \in slipped => w \in slipped'
           /\ Address[work[w].letter] \in suppressed' \ suppressed => w \in slipped'
<1>1. ASSUME NEW v \in Workers, Turn(v)
      PROVE  suppressed' = suppressed /\ (slipped' = slipped \/ (At(v, "taken") /\ slipped' = slipped \ {v}))
  BY <1>1 DEF Turn, Preparation, Processes, ReadAudience, CreateRows, Unlock, PrepareFails,
       FinishReads, FinishCounts, Complete, Take, Inspect, RenewLease, StampFirst, SendAccepted,
       SendUnanswered, SendRefused, MarkReads, MarkWrites, MarkThrows, FailLetter, ClaimCampaign,
       Crash, Choose, raceVars
<1>2. ASSUME NEW v \in Workers, Turn(v)
      PROVE  /\ w \in slipped => w \in slipped'
             /\ Address[work[w].letter] \in suppressed' \ suppressed => w \in slipped'
  BY <1>1, <1>2 DEF At, Calls
<1>3. ASSUME NEW a \in Addresses, Suppress(a)
      PROVE  /\ w \in slipped => w \in slipped'
             /\ Address[work[w].letter] \in suppressed' \ suppressed => w \in slipped'
  BY <1>3 DEF Suppress, PastCheck
<1>4. ASSUME NEW k \in Letters, EventWrites(k)
      PROVE  /\ w \in slipped => w \in slipped'
             /\ Address[work[w].letter] \in suppressed' \ suppressed => w \in slipped'
  <2>1. PICK new : suppressed' = suppressed \cup new /\ slipped' = slipped \cup PastCheck(new)
    BY <1>4 DEF EventWrites
  <2> QED
    BY <2>1 DEF PastCheck
<1>5. CASE /\ Others
           /\ ~(\E a \in Addresses : Suppress(a)) /\ ~(\E k \in Letters : EventWrites(k))
  <2>1. slipped' = slipped /\ suppressed' \subseteq suppressed
    BY <1>5 DEF Others, Promote, Request, Resend, Recovers, Ages, ReadLaunch, Launch, Pause, Resume,
         Transition, ReadCancel, Cancel, RetryFailed, Revive, RemoveSuppression, QueueLetter,
         EventLost, EventReads, RecoverLetters, RecoverCampaign, PreparationAges,
         LeaseLapses, HoursPass, KeyForgotten, Heartbeat, raceVars
  <2> QED
    BY <2>1
<1>6. CASE UNCHANGED vars
  BY <1>6 DEF vars, raceVars
<1> QED
  BY <1>2, <1>3, <1>4, <1>5, <1>6, NextSplits

LEMMA SlipStep ==
    ASSUME BaseInv, SlipInv, [Next]_vars PROVE SlipInv'
<1> SUFFICES ASSUME NEW w \in Workers, work'[w].step \in Calls, Source[work'[w].letter] # "TEST",
                    Address[work'[w].letter] \in suppressed'
             PROVE  w \in slipped'
  BY DEF SlipInv
<1>1. CASE work[w].step \in Calls /\ work'[w].letter = work[w].letter
  BY <1>1, Suppressions DEF SlipInv
<1>2. CASE Looked(w)
  BY <1>2 DEF Looked, Eligible
<1> QED
  BY <1>1, <1>2, CallsStep

(* SuppressionWins: only a worker that looked before the suppression still mails to
   its address, or the letter is a test. *)
THEOREM EmailSuppressionWins == Spec => SuppressionWins
<1>1. Init => SlipInv
  BY DEF Init, SlipInv
<1>2. BaseInv /\ SlipInv /\ [Next]_vars => SlipInv'
  BY SlipStep
<1>3. BaseInv /\ SlipInv /\ [Next]_vars =>
        [\A l \in Letters :
            Mailed(l) /\ Source[l] # "TEST" /\ Address[l] \in suppressed => MailedBy(l, slipped)]_vars
  BY MailedByCaller DEF SlipInv, MailedBy, At, Calls
<1> QED
  BY <1>1, <1>2, <1>3, EmailTypeCorrect, PTL DEF Spec, SuppressionWins

CancelInv ==
    campaign = "CANCELLED" => \A w \in Workers : work[w].letter \in Members => w \in begun

LEMMA CancelStep ==
    ASSUME BaseInv, CancelInv, [Next]_vars PROVE CancelInv'
<1> SUFFICES ASSUME campaign' = "CANCELLED", NEW w \in Workers, work'[w].letter \in Members
             PROVE  w \in begun'
  BY DEF CancelInv
<1>0. work'[w].letter # "NONE"
  BY EmailAssumption DEF Members
<1>1. CASE Cancel
  BY <1>0, <1>1 DEF Cancel
<1>2. ASSUME NEW v \in Workers, Turn(v) PROVE w \in begun'
  <2>1. campaign = "CANCELLED"
    BY <1>2 DEF Turn, Preparation, Processes, ReadAudience, CreateRows, Unlock, PrepareFails,
       FinishReads, FinishCounts, Complete, Take, Inspect, RenewLease, StampFirst, SendAccepted,
       SendUnanswered, SendRefused, MarkReads, MarkWrites, MarkThrows, FailLetter, ClaimCampaign,
       Crash, Choose, campaignVars
  <2>2. WorkStep(v)
    BY <1>2, TurnSteps DEF BaseInv
  <2>3. work[w].letter = work'[w].letter /\ (v = w => Keeps)
    <3>1. CASE v = w
      BY <1>0, <2>1, <2>2, <3>1 DEF WorkStep, Stops, Starts, GoesOn, EndsUnlock, BaseInv, WorkerInv
    <3> QED
      BY <2>2, <3>1 DEF WorkStep, Alone
  <2>4. begun \ {v} \subseteq begun'
    BY <2>2 DEF WorkStep, Stops, Keeps
  <2> QED
    BY <2>1, <2>3, <2>4 DEF CancelInv, Keeps
<1>3. CASE (Others /\ ~Cancel) \/ UNCHANGED vars
  <2>1. campaign = "CANCELLED" /\ begun' = begun /\ work' = work
    BY <1>3, OthersLeaveWork DEF Others, Promote, Request, Resend, Recovers, Ages, ReadLaunch, Launch, Pause,
         Resume, Transition, ReadCancel, RetryFailed, Revive, Suppress, RemoveSuppression, QueueLetter,
         EventWrites, EventLost, EventReads, RecoverLetters, RecoverCampaign, PreparationAges,
         LeaseLapses, HoursPass, KeyForgotten, Heartbeat, raceVars, campaignVars, vars
  <2> QED
    BY <2>1 DEF CancelInv
<1> QED
  BY <1>1, <1>2, <1>3, NextSplits

(* CancelStops: while a campaign is cancelled, only letters that were in a worker's
   hand at the cancellation are mailed. *)
THEOREM EmailCancelStops == Spec => CancelStops
<1>1. Init => CancelInv
  BY DEF Init, CancelInv
<1>2. BaseInv /\ CancelInv /\ [Next]_vars => CancelInv'
  BY CancelStep
<1>3. BaseInv /\ CancelInv /\ [Next]_vars =>
        [\A l \in Members : Mailed(l) /\ campaign = "CANCELLED" => MailedBy(l, begun)]_vars
  BY MailedByCaller DEF CancelInv, MailedBy, Members
<1> QED
  BY <1>1, <1>2, <1>3, EmailTypeCorrect, PTL DEF Spec, CancelStops
=============================================================================
