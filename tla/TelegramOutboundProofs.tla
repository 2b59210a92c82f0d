------------------------ MODULE TelegramOutboundProofs ------------------------
(***************************************************************************)
(* What is proved of TelegramOutbound for every value of its constants.    *)
(***************************************************************************)
EXTENDS TelegramOutbound, TLAPS

CallType == [step : {"idle", "claimed", "read", "ready", "answered", "retry", "final", "skip"},
             row : Rows, last : BOOLEAN, repeats : BOOLEAN, copy : SUBSET Actions]

(* What each name of a row tells. *)
LEMMA RowNames ==
    /\ Album \in Messages /\ Album \notin Occurrences /\ Occurrences \subseteq Nat
    /\ Messages = {Album} \cup Occurrences
    /\ \A n \in Messages : First(n) \in Rows /\ First(n).kind = "first" /\ First(n).of = n
    /\ \A n \in Occurrences : Again(n) \in Rows /\ Again(n).kind = "again" /\ Again(n).of = n
    /\ \A a \in Actions : Act(a) \in Rows /\ Act(a).kind = "action" /\ Act(a).of = a
    /\ \A n \in 1..Menus : Menu(n) \in Rows /\ Menu(n).kind = "menu" /\ Menu(n).of = n
    /\ \A r \in Rows : \/ r.kind = "first" /\ r.of \in Messages /\ r = First(r.of)
                       \/ r.kind = "again" /\ r.of \in Occurrences /\ r = Again(r.of)
                       \/ r.kind = "action" /\ r.of \in Actions /\ r = Act(r.of)
                       \/ r.kind = "menu" /\ r.of \in 1..Menus /\ r = Menu(r.of)
<1>1. /\ Album \in Messages /\ Album \notin Occurrences /\ Occurrences \subseteq Nat
      /\ Messages = {Album} \cup Occurrences
  BY TelegramAssumption DEF Messages, Album, Occurrences
<1>2. /\ \A n \in Messages : First(n) \in Rows /\ First(n).kind = "first" /\ First(n).of = n
      /\ \A n \in Occurrences : Again(n) \in Rows /\ Again(n).kind = "again" /\ Again(n).of = n
  BY DEF First, Again, Rows
<1>3. /\ \A a \in Actions : Act(a) \in Rows /\ Act(a).kind = "action" /\ Act(a).of = a
      /\ \A n \in 1..Menus : Menu(n) \in Rows /\ Menu(n).kind = "menu" /\ Menu(n).of = n
  BY DEF Act, Menu, Rows
<1>4. ASSUME NEW r \in Rows
      PROVE  \/ r.kind = "first" /\ r.of \in Messages /\ r = First(r.of)
             \/ r.kind = "again" /\ r.of \in Occurrences /\ r = Again(r.of)
             \/ r.kind = "action" /\ r.of \in Actions /\ r = Act(r.of)
             \/ r.kind = "menu" /\ r.of \in 1..Menus /\ r = Menu(r.of)
  <2>1. \/ \E n \in Messages : r = First(n)
        \/ \E n \in Occurrences : r = Again(n)
        \/ \E a \in Actions : r = Act(a)
        \/ \E n \in 1..Menus : r = Menu(n)
    BY DEF Rows
  <2> QED
    BY <2>1, <1>2, <1>3
<1> QED
  BY <1>1, <1>2, <1>3, <1>4

LEMMA TypeInit == Init => TypeOK
<1>1. NoCall \in CallType
  BY RowNames DEF NoCall, CallType
<1>2. 0 \in 0..MaxAttempts /\ 0 \in 0..Menus /\ 0 \in 0..MaxRequests /\ 0 \in 0..MaxFaults
  BY TelegramAssumption
<1> QED
  BY <1>1, <1>2 DEF Init, TypeOK, CallType, Live, Open

(* A call moves on, and keeps its other fields. *)
LEMMA StepFacts ==
    ASSUME TypeOK, NEW w \in Workers, NEW s \in {"read", "ready", "answered", "retry", "final", "skip"},
           Step(w, s)
    PROVE  /\ call' \in [Workers -> CallType]
           /\ call'[w].step = s /\ call'[w].row = call[w].row
           /\ call'[w].repeats = call[w].repeats /\ call'[w].copy = call[w].copy
           /\ \A v \in Workers \ {w} : call'[v] = call[v]
<1>1. call[w] \in CallType /\ call \in [Workers -> CallType]
  BY DEF TypeOK, CallType
<1> DEFINE new == [call[w] EXCEPT !.step = s]
<1>2. new \in CallType /\ new.step = s /\ new.row = call[w].row
      /\ new.repeats = call[w].repeats /\ new.copy = call[w].copy
  BY <1>1 DEF CallType
<1>3. call' = [call EXCEPT ![w] = new]
  BY DEF Step
<1> HIDE DEF new
<1> QED
  BY <1>1, <1>2, <1>3

LEMMA DoneFacts ==
    ASSUME TypeOK, NEW w \in Workers, Done(w)
    PROVE  /\ call' \in [Workers -> CallType]
           /\ call'[w] = NoCall /\ call'[w].step = "idle"
           /\ \A v \in Workers \ {w} : call'[v] = call[v]
<1>1. NoCall \in CallType /\ NoCall.step = "idle"
  BY RowNames DEF NoCall, CallType
<1>2. call \in [Workers -> CallType]
  BY DEF TypeOK, CallType
<1> QED
  BY <1>1, <1>2 DEF Done
-----------------------------------------------------------------------------
LEMMA ReadsType ==
    ASSUME TypeOK, NEW w \in Workers,
           ReadMessage(w) \/ ReadAlbum(w) \/ ReadTarget(w) \/ ReadConfig(w) \/ MarkProcessing(w)
    PROVE  TypeOK'
<1>c. call \in [Workers -> CallType]
  BY DEF TypeOK, CallType
<1>0. call[w] \in CallType
  BY <1>c
<1>1. CASE ReadMessage(w)
  <2>1. call' \in [Workers -> CallType]
    <3>1. CASE message[call[w].row.of] = "SENT"
      BY <1>1, <3>1, StepFacts DEF ReadMessage
    <3>2. CASE message[call[w].row.of] # "SENT"
      <4> DEFINE rule == Scheduled(call[w].row) /\ repeats[call[w].row.of]
                 new == [call[w] EXCEPT !.step = "read", !.repeats = rule]
      <4>1. rule \in BOOLEAN
        OBVIOUS
      <4>2. new \in CallType
        BY <1>0, <4>1 DEF CallType
      <4>3. call' = [call EXCEPT ![w] = new]
        BY <1>1, <3>2 DEF ReadMessage
      <4> QED
        BY <4>2, <4>3 DEF TypeOK, CallType
    <3> QED
      BY <3>1, <3>2
  <2> QED
    BY <1>1, <2>1 DEF TypeOK, CallType, ReadMessage, rowVars, scheduleVars, targetVars, historyVars
<1>2. CASE ReadAlbum(w)
  BY <1>2, StepFacts DEF TypeOK, CallType, ReadAlbum, rowVars, scheduleVars, targetVars, historyVars
<1>3. CASE ReadTarget(w)
  <2> DEFINE new == [call[w] EXCEPT !.step = "ready", !.copy = stored]
  <2>1. new \in CallType
    BY <1>0 DEF TypeOK, CallType
  <2>2. call' = [call EXCEPT ![w] = new]
    BY <1>3 DEF ReadTarget
  <2>3. raced' \subseteq Rows
    BY <1>0, <1>3, RowNames DEF TypeOK, CallType, ReadTarget
  <2> HIDE DEF new
  <2>4. call' \in [Workers -> CallType]
    BY <1>c, <2>1, <2>2
  <2> QED
    BY <1>3, <2>3, <2>4 DEF TypeOK, CallType, ReadTarget, rowVars, scheduleVars, targetVars
<1>4. CASE ReadConfig(w)
  BY <1>4, StepFacts DEF TypeOK, CallType, ReadConfig, rowVars, scheduleVars, targetVars, historyVars
<1>5. CASE MarkProcessing(w)
  BY <1>5, StepFacts DEF TypeOK, CallType, MarkProcessing, rowVars, targetVars, historyVars, Open
<1> QED
  BY <1>1, <1>2, <1>3, <1>4, <1>5

LEMMA ClaimType ==
    ASSUME TypeOK, NEW w \in Workers, NEW r \in Rows, Claim(w, r)
    PROVE  TypeOK'
<1> DEFINE final == attempts'[r] = MaxAttempts
           new == [NoCall EXCEPT !.step = "claimed", !.row = r, !.last = final]
<1>1. NoCall \in CallType
  BY RowNames DEF NoCall, CallType
<1>2. new \in CallType
  BY <1>1 DEF CallType
<1>3. call' = [call EXCEPT ![w] = new]
  BY DEF Claim
<1> HIDE DEF new
<1>4. attempts' \in [Rows -> 0..MaxAttempts]
  BY TelegramAssumption DEF TypeOK, Claim
<1>5. call' \in [Workers -> CallType]
  <2>1. call \in [Workers -> CallType]
    BY DEF TypeOK, CallType
  <2> QED
    BY <2>1, <1>2, <1>3
<1> QED
  BY <1>4, <1>5 DEF TypeOK, CallType, Claim, Live, scheduleVars, targetVars, historyVars

LEMMA LostType == ASSUME TypeOK, NEW r \in Rows PROVE Lost(r) \in [Messages -> Nat]
<1>1. r.kind \in {"first", "again"} => r.of \in Messages
  BY RowNames
<1> QED
  BY <1>1 DEF Lost, TypeOK

LEMMA ProviderType ==
    ASSUME TypeOK, NEW w \in Workers,
           \/ Accepted(w) \/ AnswerLost(w)
           \/ \E why \in {"retry", "final"} : Refused(w, why)
    PROVE  TypeOK'
<1>0. call[w].row \in Rows
  BY DEF TypeOK
<1>1. ASSUME Applied(call[w].row)
      PROVE  sent' \in [Messages -> Nat] /\ shown' \in 0..Menus
  BY <1>0, <1>1, RowNames DEF Applied, TypeOK
<1>2. Lost(call[w].row) \in [Messages -> Nat]
  BY <1>0, LostType
<1>3. CASE Accepted(w)
  BY <1>1, <1>3, StepFacts DEF TypeOK, CallType, Accepted, rowVars, scheduleVars
<1>4. CASE AnswerLost(w)
  BY <1>1, <1>2, <1>4, StepFacts, TelegramAssumption
     DEF TypeOK, CallType, AnswerLost, Fault, rowVars, scheduleVars
<1>5. CASE \E why \in {"retry", "final"} : Refused(w, why)
  BY <1>5, StepFacts DEF TypeOK, CallType, Refused, rowVars, scheduleVars, targetVars, historyVars
<1> QED
  BY <1>3, <1>4, <1>5

LEMMA ReleaseType ==
    ASSUME TypeOK, NEW w \in Workers, NEW s \in {"SUCCEEDED", "RETRY", "FAILED"}, Release(w, s)
    PROVE  /\ outbox' \in [Rows -> Live \cup {"NONE", "SUCCEEDED", "FAILED"}]
           /\ holder' \in [Rows -> Workers \cup {Nobody}] /\ old' \in [Rows -> BOOLEAN]
BY ZenonT(60) DEF TypeOK, Release, Live

LEMMA RecordType ==
    ASSUME TypeOK, NEW w \in Workers,
           \/ RecordMessage(w) \/ RecordAlbum(w) \/ RecordAction(w)
           \/ Finish(w) \/ RecordTooLate(w) \/ Fail(w) \/ Crash(w)
    PROVE  TypeOK'
<1>0. call[w].row \in Rows
  BY DEF TypeOK
<1>1. Lost(call[w].row) \in [Messages -> Nat]
  BY <1>0, LostType
<1>2. CASE RecordMessage(w)
  BY <1>0, <1>2, DoneFacts DEF TypeOK, CallType, RecordMessage, Live, Open, targetVars, historyVars
<1>3. CASE RecordAlbum(w)
  BY <1>3, DoneFacts, ReleaseType DEF TypeOK, CallType, RecordAlbum, targetVars, historyVars
<1>4. CASE RecordAction(w)
  <2>1. stored' \subseteq Actions
    <3>1. call[w].copy \subseteq Actions
      BY DEF TypeOK
    <3>2. call[w].row.of \in Actions
      <4>1. call[w].row.kind = "action"
        BY <1>4 DEF RecordAction
      <4> QED
        BY <1>0, <4>1, RowNames
    <3>3. stored' = call[w].copy \cup {call[w].row.of}
      BY <1>4 DEF RecordAction
    <3> QED
      BY <3>1, <3>2, <3>3
  <2> QED
    BY <1>4, <2>1, DoneFacts, ReleaseType
       DEF TypeOK, CallType, RecordAction, scheduleVars, historyVars
<1>5. CASE Finish(w)
  BY <1>5, DoneFacts, ReleaseType DEF TypeOK, CallType, Finish, scheduleVars, targetVars, historyVars
<1>6. CASE RecordTooLate(w)
  BY <1>1, <1>6, DoneFacts DEF TypeOK, CallType, RecordTooLate, rowVars, scheduleVars, targetVars
<1>7. CASE Fail(w)
  BY <1>7, DoneFacts, ReleaseType DEF TypeOK, CallType, Fail, Open, targetVars, historyVars
<1>8. CASE Crash(w)
  BY <1>1, <1>8, DoneFacts, TelegramAssumption
     DEF TypeOK, CallType, Crash, Fault, rowVars, scheduleVars, targetVars
<1> QED
  BY <1>2, <1>3, <1>4, <1>5, <1>6, <1>7, <1>8

LEMMA TimeType ==
    ASSUME TypeOK,
           \/ \E r \in Rows : RecoverRow(r) \/ Lapse(r)
           \/ \E n \in Occurrences : TimePasses(n)
    PROVE  TypeOK'
<1>1. ASSUME NEW r \in Rows, RecoverRow(r) PROVE TypeOK'
  BY <1>1 DEF TypeOK, RecoverRow, Live, scheduleVars, targetVars, historyVars
<1>2. ASSUME NEW r \in Rows, Lapse(r) PROVE TypeOK'
  BY <1>2, TelegramAssumption DEF TypeOK, Lapse, Fault, scheduleVars, targetVars
<1>3. ASSUME NEW n \in Occurrences, TimePasses(n) PROVE TypeOK'
  BY <1>3 DEF TypeOK, TimePasses, rowVars, targetVars, historyVars
<1> QED
  BY <1>1, <1>2, <1>3

LEMMA RequestType ==
    ASSUME TypeOK,
           \/ \E r \in Rows : OperatorRetry(r)
           \/ \E n \in Occurrences :
                 \/ Cancel(n) \/ CrmRetry(n)
                 \/ \E rule \in BOOLEAN, time \in {at[n], "ahead"} : Update(n, rule, time)
           \/ \E a \in Actions : QueueAction(a)
           \/ SetMenu
    PROVE  TypeOK'
<1>0. Ask => requests' \in 0..MaxRequests
  BY TelegramAssumption DEF Ask, TypeOK
<1>1. ASSUME NEW r \in Rows, OperatorRetry(r) PROVE TypeOK'
  <2>1. late' \subseteq Messages
    BY <1>1, RowNames DEF OperatorRetry, TypeOK, Scheduled
  <2>2. attempts' \in [Rows -> 0..MaxAttempts]
    BY <1>1, TelegramAssumption DEF OperatorRetry, TypeOK
  <2> QED
    BY <1>0, <1>1, <2>1, <2>2 DEF TypeOK, OperatorRetry, Live, Open, targetVars
<1>2. ASSUME NEW n \in Occurrences, Cancel(n) PROVE TypeOK'
  BY <1>0, <1>2, RowNames DEF TypeOK, Cancel, TooLate, Live, Open, targetVars
<1>3. ASSUME NEW n \in Occurrences, CrmRetry(n) PROVE TypeOK'
  BY <1>0, <1>3, RowNames DEF TypeOK, CrmRetry, Live, scheduleVars, targetVars
<1>4. ASSUME NEW n \in Occurrences, NEW rule \in BOOLEAN, NEW time \in {at[n], "ahead"},
             Update(n, rule, time)
      PROVE  TypeOK'
  <2>1. at' \in [Messages -> {"ahead", "past"}] /\ late' \subseteq Messages /\ raced' \subseteq Rows
    BY <1>4, RowNames DEF TypeOK, Update, TooLate
  <2> QED
    BY <1>0, <1>4, <2>1 DEF TypeOK, Update, rowVars, targetVars
<1>5. ASSUME NEW a \in Actions, QueueAction(a) PROVE TypeOK'
  BY <1>0, <1>5, RowNames DEF TypeOK, QueueAction, Live, scheduleVars, targetVars, historyVars
<1>6. CASE SetMenu
  <2>1. config' \in 0..Menus /\ raced' \subseteq Rows
    BY <1>6, RowNames, TelegramAssumption DEF TypeOK, SetMenu
  <2> QED
    BY <1>0, <1>6, <2>1 DEF TypeOK, SetMenu, Live, scheduleVars
<1> QED
  BY <1>1, <1>2, <1>3, <1>4, <1>5, <1>6

LEMMA TypeNext == TypeOK /\ [Next]_vars => TypeOK'
<1> SUFFICES ASSUME TypeOK, [Next]_vars PROVE TypeOK'
  OBVIOUS
<1>1. CASE UNCHANGED vars
  BY <1>1 DEF TypeOK, vars, rowVars, scheduleVars, targetVars, historyVars
<1>2. CASE Next
  BY <1>2, ReadsType, ClaimType, ProviderType, RecordType, TimeType, RequestType DEF Next
<1> QED
  BY <1>1, <1>2

(* Every variable keeps the values of its column, and a call in progress what
   process() holds at that point. *)
THEOREM TelegramTypeCorrect == Spec => []TypeOK
<1>1. Init => TypeOK
  BY TypeInit
<1>2. TypeOK /\ [Next]_vars => TypeOK'
  BY TypeNext
<1> QED
  BY <1>1, <1>2, PTL DEF Spec
-----------------------------------------------------------------------------
(* What one step can do to a row, to a call, and to what Telegram has. *)

Asked == \/ \E r \in Rows : OperatorRetry(r)
         \/ \E n \in Occurrences :
               \/ Cancel(n) \/ CrmRetry(n)
               \/ \E rule \in BOOLEAN, time \in {at[n], "ahead"} : Update(n, rule, time)
         \/ \E a \in Actions : QueueAction(a)
         \/ SetMenu
Aged == \/ \E r \in Rows : RecoverRow(r) \/ Lapse(r)
        \/ \E n \in Occurrences : TimePasses(n)
Works(w) == \/ ReadMessage(w) \/ ReadAlbum(w) \/ ReadTarget(w) \/ ReadConfig(w)
            \/ MarkProcessing(w) \/ Accepted(w) \/ AnswerLost(w)
            \/ \E why \in {"retry", "final"} : Refused(w, why)
            \/ RecordMessage(w) \/ RecordAlbum(w) \/ RecordAction(w)
            \/ Finish(w) \/ RecordTooLate(w) \/ Fail(w) \/ Crash(w)

LEMMA NextSplit ==
    Next => \/ \E w \in Workers : Works(w) \/ \E r \in Rows : Claim(w, r)
            \/ Aged \/ Asked
BY DEF Next, Works, Aged, Asked

(* A menu row is there only up to the current revision. *)
MenuInv == \A n \in 1..Menus : Exists(Menu(n)) => n <= config

RowMoves(r) ==
    \/ outbox'[r] = outbox[r]
    \/ /\ outbox[r] = "NONE" /\ outbox'[r] = "PENDING"
       /\ r.kind = "first" => r.of > 1 /\ outbox'[First(r.of - 1)] = "SUCCEEDED"
       /\ r.kind = "again" => outbox[First(r.of)] = "FAILED" /\ r.of \in late'
       /\ r.kind = "menu" => r.of = config'
    \/ outbox[r] \in Live /\ outbox'[r] = "PROCESSING"
    \/ outbox[r] = "PROCESSING" /\ outbox'[r] \in {"RETRY", "FAILED", "SUCCEEDED"}
    \/ outbox[r] = "PENDING" /\ outbox'[r] = "FAILED" /\ Scheduled(r) /\ record'[r.of] = "CANCELLED"
    \/ outbox[r] = "FAILED" /\ outbox'[r] = "RETRY" /\ (Scheduled(r) => r.of \in late')

LEMMA ReleaseMoves ==
    ASSUME TypeOK, NEW w \in Workers, NEW s \in {"SUCCEEDED", "RETRY", "FAILED"}, Release(w, s),
           NEW r \in Rows
    PROVE  RowMoves(r)
BY DEF TypeOK, Release, Holds, RowMoves

LEMMA RowStep ==
    ASSUME TypeOK, MenuInv, Next, NEW r \in Rows
    PROVE  RowMoves(r)
<1>1. ASSUME NEW w \in Workers, NEW q \in Rows, Claim(w, q) PROVE RowMoves(r)
  <2>1. outbox[q] \in Live
    BY <1>1 DEF Claim, Due, Live
  <2> QED
    BY <1>1, <2>1 DEF Claim, RowMoves, TypeOK
<1>2. ASSUME NEW w \in Workers, Works(w) PROVE RowMoves(r)
  <2>1. CASE UNCHANGED outbox
    BY <2>1 DEF RowMoves
  <2>2. CASE \E s \in {"SUCCEEDED", "RETRY", "FAILED"} : Release(w, s)
    BY <2>2, ReleaseMoves
  <2>3. CASE RecordMessage(w)
    <3> DEFINE n == call[w].row.of
    <3>1. call[w].row \in Rows /\ IsMessage(call[w].row) /\ outbox[call[w].row] = "PROCESSING"
      BY <2>3 DEF RecordMessage, TypeOK, Holds
    <3>2. CASE r = call[w].row
      <4>1. outbox'[r] = "SUCCEEDED" /\ outbox[r] = "PROCESSING"
        BY <2>3, <3>1, <3>2 DEF RecordMessage
      <4> QED
        BY <4>1 DEF RowMoves
    <3>3. CASE r # call[w].row /\ MakesNext(w) /\ r = First(n + 1)
      <4>1. call[w].row = First(n) /\ n \in Occurrences /\ n + 1 \in Occurrences
        BY <3>1, <3>3, RowNames, TelegramAssumption DEF MakesNext, Scheduled, Occurrences
      <4>2. r.kind = "first" /\ r.of > 1 /\ r.of - 1 = n
        BY <3>3, <4>1, RowNames DEF Occurrences
      <4>a. outbox[r] = "NONE" /\ r.kind = "first" /\ r.of = n + 1
        BY <3>3, <4>1, RowNames DEF MakesNext, Exists
      <4>b. outbox'[First(n)] = "SUCCEEDED"
        BY <2>3, <3>1, <4>1 DEF RecordMessage
      <4>c. outbox'[r] = "PENDING"
        BY <2>3, <3>3, <4>a DEF RecordMessage
      <4>3. outbox[r] = "NONE" /\ outbox'[r] = "PENDING" /\ outbox'[First(n)] = "SUCCEEDED"
        BY <4>a, <4>b, <4>c
      <4>4. outbox'[First(r.of - 1)] = "SUCCEEDED"
        BY <4>2, <4>3
      <4> QED
        BY <4>2, <4>3, <4>4 DEF RowMoves
    <3>4. CASE r # call[w].row /\ ~(MakesNext(w) /\ r = First(n + 1))
      <4>1. outbox'[r] = outbox[r]
        BY <2>3, <3>4, RowNames DEF RecordMessage, MakesNext, Scheduled
      <4> QED
        BY <4>1 DEF RowMoves
    <3> QED
      BY <3>2, <3>3, <3>4
  <2> QED
    BY <1>2, <2>1, <2>2, <2>3
       DEF Works, ReadMessage, ReadAlbum, ReadTarget, ReadConfig, MarkProcessing, Accepted,
           AnswerLost, Refused, RecordAlbum, RecordAction, Finish, RecordTooLate, Fail, Crash, rowVars
<1>3. CASE Aged
  BY <1>3 DEF Aged, RecoverRow, Lapse, TimePasses, rowVars, RowMoves, TypeOK
<1>4. CASE Asked
  <2>1. ASSUME NEW q \in Rows, OperatorRetry(q) PROVE RowMoves(r)
    BY <2>1, RowNames DEF OperatorRetry, RowMoves, TypeOK, Scheduled
  <2>2. ASSUME NEW n \in Occurrences, Cancel(n) PROVE RowMoves(r)
    <3>1. First(n) \in Rows /\ Scheduled(First(n)) /\ First(n).of = n
      BY RowNames DEF Scheduled
    <3>2. record'[n] = "CANCELLED"
      BY <2>2, RowNames DEF Cancel, TypeOK
    <3> QED
      BY <2>2, <3>1, <3>2 DEF Cancel, RowMoves, TypeOK
  <2>3. ASSUME NEW n \in Occurrences, CrmRetry(n) PROVE RowMoves(r)
    <3>1. Again(n) \in Rows /\ Again(n).of = n /\ Again(n).kind = "again"
      BY RowNames
    <3> QED
      BY <2>3, <3>1 DEF CrmRetry, RowMoves, TypeOK, Exists
  <2>4. ASSUME NEW n \in Occurrences, NEW rule \in BOOLEAN, NEW time \in {at[n], "ahead"},
               Update(n, rule, time)
        PROVE  RowMoves(r)
    BY <2>4 DEF Update, rowVars, RowMoves
  <2>5. ASSUME NEW a \in Actions, QueueAction(a) PROVE RowMoves(r)
    <3>1. Act(a) \in Rows /\ Act(a).kind = "action"
      BY RowNames
    <3> QED
      BY <2>5, <3>1 DEF QueueAction, RowMoves, TypeOK, Exists
  <2>6. CASE SetMenu
    <3>1. config + 1 \in 1..Menus /\ ~(config + 1 <= config)
      BY <2>6, TelegramAssumption DEF SetMenu, TypeOK
    <3>2. /\ Menu(config + 1) \in Rows /\ Menu(config + 1).kind = "menu"
          /\ Menu(config + 1).of = config + 1 /\ outbox[Menu(config + 1)] = "NONE"
      BY <3>1, RowNames DEF MenuInv, Exists
    <3> QED
      BY <2>6, <3>2 DEF SetMenu, RowMoves, TypeOK
  <2> QED
    BY <1>4, <2>1, <2>2, <2>3, <2>4, <2>5, <2>6 DEF Asked
<1> QED
  BY <1>1, <1>2, <1>3, <1>4, NextSplit

Claims(v) ==
    LET r == call'[v].row IN
    /\ call[v].step = "idle" /\ call'[v].step = "claimed"
    /\ r \in Rows /\ outbox'[r] = "PROCESSING" /\ holder'[r] = v /\ ~old'[r]

(* A call that goes on keeps its row, and leaves its reads only forward. *)
Advances(v) ==
    /\ call'[v].row = call[v].row
    /\ \/ call[v].step = "claimed" /\ call'[v].step \in {"read", "skip", "ready", "final"}
       \/ call[v].step = "read" /\ call'[v].step = "ready" /\ call'[v].repeats = call[v].repeats
       \/ /\ call[v].step = "ready" /\ call'[v].step \in {"answered", "retry", "final"}
          /\ call'[v].repeats = call[v].repeats /\ call'[v].copy = call[v].copy

CallMoves(v) ==
    \/ call'[v] = call[v]
    \/ call[v].step # "idle" /\ call'[v].step = "idle"
    \/ Claims(v)
    \/ Advances(v)

LEMMA ClaimCall ==
    ASSUME TypeOK, NEW w \in Workers, NEW r \in Rows, Claim(w, r)
    PROVE  /\ call'[w].step = "claimed" /\ call'[w].row = r
           /\ \A v \in Workers \ {w} : call'[v] = call[v]
           /\ outbox'[r] = "PROCESSING" /\ holder'[r] = w /\ ~old'[r]
           /\ \A q \in Rows \ {r} : outbox'[q] = outbox[q] /\ holder'[q] = holder[q] /\ old'[q] = old[q]
<1> DEFINE final == attempts'[r] = MaxAttempts
           new == [NoCall EXCEPT !.step = "claimed", !.row = r, !.last = final]
<1>1. call' = [call EXCEPT ![w] = new] /\ call \in [Workers -> CallType]
  BY DEF Claim, TypeOK, CallType
<1>2. new.step = "claimed" /\ new.row = r
  BY DEF NoCall
<1> HIDE DEF new
<1>3. call'[w] = new /\ \A v \in Workers \ {w} : call'[v] = call[v]
  BY <1>1
<1>4. /\ outbox'[r] = "PROCESSING" /\ holder'[r] = w /\ ~old'[r]
      /\ \A q \in Rows \ {r} : outbox'[q] = outbox[q] /\ holder'[q] = holder[q] /\ old'[q] = old[q]
  BY DEF Claim, TypeOK
<1> QED
  BY <1>2, <1>3, <1>4

LEMMA ReadCall ==
    ASSUME TypeOK, NEW w \in Workers, ReadMessage(w) \/ ReadTarget(w)
    PROVE  /\ call[w].step = "claimed" /\ call'[w].row = call[w].row
           /\ call'[w].step \in {"read", "skip", "ready"}
           /\ call'[w].step = "skip" => IsMessage(call[w].row) /\ message[call[w].row.of] = "SENT"
           /\ call'[w].step = "ready" => call[w].row.kind = "action" /\ call'[w].copy = stored
           /\ call'[w].step = "read" => /\ IsMessage(call[w].row)
                                        /\ Scheduled(call[w].row)
                                             => call'[w].repeats = repeats[call[w].row.of]
           /\ \A v \in Workers \ {w} : call'[v] = call[v]
<1>c. call \in [Workers -> CallType] /\ call[w] \in CallType
  BY DEF TypeOK, CallType
<1>1. CASE ReadMessage(w) /\ message[call[w].row.of] = "SENT"
  BY <1>1, StepFacts DEF ReadMessage
<1>2. CASE ReadMessage(w) /\ message[call[w].row.of] # "SENT"
  <2> DEFINE rule == Scheduled(call[w].row) /\ repeats[call[w].row.of]
             new == [call[w] EXCEPT !.step = "read", !.repeats = rule]
  <2>1. call' = [call EXCEPT ![w] = new]
    BY <1>2 DEF ReadMessage
  <2>2. new.step = "read" /\ new.row = call[w].row /\ new.repeats = rule
    BY <1>c DEF CallType
  <2>3. Scheduled(call[w].row) => rule = repeats[call[w].row.of]
    BY <1>c, RowNames DEF TypeOK, CallType, Scheduled
  <2> HIDE DEF new
  <2>4. call'[w] = new /\ \A v \in Workers \ {w} : call'[v] = call[v]
    BY <1>c, <2>1
  <2> QED
    BY <1>2, <2>2, <2>3, <2>4 DEF ReadMessage
<1>3. CASE ReadTarget(w)
  <2> DEFINE new == [call[w] EXCEPT !.step = "ready", !.copy = stored]
  <2>1. call' = [call EXCEPT ![w] = new]
    BY <1>3 DEF ReadTarget
  <2>2. new.step = "ready" /\ new.row = call[w].row /\ new.copy = stored
    BY <1>c DEF CallType
  <2> HIDE DEF new
  <2>3. call'[w] = new /\ \A v \in Workers \ {w} : call'[v] = call[v]
    BY <1>c, <2>1
  <2> QED
    BY <1>3, <2>2, <2>3 DEF ReadTarget
<1> QED
  BY <1>1, <1>2, <1>3

Steps(w) == \/ ReadAlbum(w) \/ ReadConfig(w) \/ MarkProcessing(w) \/ Accepted(w) \/ AnswerLost(w)
            \/ \E why \in {"retry", "final"} : Refused(w, why)
Ends(w) == \/ RecordMessage(w) \/ RecordAlbum(w) \/ RecordAction(w)
           \/ Finish(w) \/ RecordTooLate(w) \/ Fail(w) \/ Crash(w)

LEMMA NextCases ==
    Next => \/ \E w \in Workers : \/ ReadMessage(w) \/ ReadTarget(w)
                                 \/ Steps(w) \/ Ends(w)
                                 \/ \E r \in Rows : Claim(w, r)
            \/ Aged \/ Asked
BY NextSplit DEF Works, Steps, Ends

LEMMA StepsCall ==
    ASSUME TypeOK, NEW w \in Workers, Steps(w)
    PROVE  /\ Advances(w)
           /\ call'[w].repeats = call[w].repeats /\ call'[w].copy = call[w].copy
           /\ \A v \in Workers \ {w} : call'[v] = call[v]
BY StepFacts DEF Steps, ReadAlbum, ReadConfig, MarkProcessing, Accepted, AnswerLost, Refused, Advances

LEMMA EndsCall ==
    ASSUME TypeOK, NEW w \in Workers, Ends(w)
    PROVE  /\ call[w].step # "idle" /\ call'[w].step = "idle"
           /\ \A v \in Workers \ {w} : call'[v] = call[v]
BY DoneFacts DEF Ends, RecordMessage, RecordAlbum, RecordAction, Finish, RecordTooLate, Fail, Crash

LEMMA CallStep ==
    ASSUME TypeOK, Next, NEW v \in Workers
    PROVE  CallMoves(v)
<1>1. ASSUME NEW w \in Workers, NEW r \in Rows, Claim(w, r) PROVE CallMoves(v)
  <2>1. call[w].step = "idle"
    BY <1>1 DEF Claim
  <2> QED
    BY <1>1, <2>1, ClaimCall DEF CallMoves, Claims
<1>2. ASSUME NEW w \in Workers, Works(w) PROVE CallMoves(v)
  <2>1. CASE ReadMessage(w) \/ ReadTarget(w)
    BY <2>1, ReadCall DEF CallMoves, Advances
  <2>2. CASE Steps(w)
    BY <2>2, StepsCall DEF CallMoves
  <2>3. CASE Ends(w)
    BY <2>3, EndsCall DEF CallMoves
  <2> QED
    BY <1>2, <2>1, <2>2, <2>3 DEF Works, Steps, Ends
<1>3. CASE Aged \/ Asked
  BY <1>3 DEF Aged, Asked, RecoverRow, Lapse, TimePasses, OperatorRetry, Cancel, CrmRetry, Update,
              QueueAction, SetMenu, CallMoves
<1> QED
  BY <1>1, <1>2, <1>3, NextSplit

LEMMA HistoryGrows ==
    Next => late \subseteq late' /\ raced \subseteq raced' /\ slow \subseteq slow'
<1> SUFFICES ASSUME Next PROVE late \subseteq late' /\ raced \subseteq raced' /\ slow \subseteq slow'
  OBVIOUS
<1>1. CASE \E w \in Workers : Works(w) \/ \E r \in Rows : Claim(w, r)
  BY <1>1, ZenonT(60) DEF Works, Claim, ReadMessage, ReadAlbum, ReadTarget, ReadConfig, MarkProcessing, Accepted,
              AnswerLost, Refused, RecordMessage, RecordAlbum, RecordAction, Finish,
              RecordTooLate, Fail, Crash, historyVars
<1>2. CASE Aged \/ Asked
  BY <1>2 DEF Aged, Asked, RecoverRow, Lapse, TimePasses, OperatorRetry, Cancel, CrmRetry, Update,
              QueueAction, SetMenu, TooLate, historyVars
<1> QED
  BY <1>1, <1>2, NextSplit
-----------------------------------------------------------------------------
(* The rows of a series. *)

CallInv == \A w \in Workers : call[w].step # "idle" => outbox[call[w].row] \notin {"NONE", "PENDING"}

LEMMA MenuNext == TypeOK /\ MenuInv /\ Next => MenuInv'
<1> SUFFICES ASSUME TypeOK, MenuInv, Next, NEW n \in 1..Menus, Exists(Menu(n))' PROVE n <= config'
  BY DEF MenuInv
<1>1. config' \in {config, config + 1}
  BY NextSplit, ZenonT(60) DEF Works, Claim, ReadMessage, ReadAlbum, ReadTarget, ReadConfig, MarkProcessing, Accepted,
              AnswerLost, Refused, RecordMessage, RecordAlbum, RecordAction, Finish,
              RecordTooLate, Fail, Crash, Aged, Asked, RecoverRow, Lapse, TimePasses, OperatorRetry,
              Cancel, CrmRetry, Update, QueueAction, SetMenu, targetVars
<1>2. Menu(n) \in Rows /\ Menu(n).kind = "menu" /\ Menu(n).of = n
  BY RowNames
<1>3. RowMoves(Menu(n))
  BY <1>2, RowStep
<1>4. CASE outbox[Menu(n)] = "NONE"
  BY <1>1, <1>2, <1>3, <1>4 DEF RowMoves, Exists, Live, TypeOK
<1>5. CASE outbox[Menu(n)] # "NONE"
  BY <1>1, <1>5 DEF MenuInv, Exists, TypeOK
<1> QED
  BY <1>4, <1>5

LEMMA CallNext == TypeOK /\ MenuInv /\ CallInv /\ Next => CallInv'
<1> SUFFICES ASSUME TypeOK, MenuInv, CallInv, Next, NEW w \in Workers, call'[w].step # "idle"
             PROVE  outbox'[call'[w].row] \notin {"NONE", "PENDING"}
  BY DEF CallInv
<1>1. CASE Claims(w)
  BY <1>1 DEF Claims
<1>2. CASE call'[w].row = call[w].row /\ call[w].step # "idle"
  <2>1. call[w].row \in Rows
    BY DEF TypeOK
  <2>2. RowMoves(call[w].row)
    BY <2>1, RowStep
  <2> QED
    BY <1>2, <2>2 DEF RowMoves, CallInv, Live
<1> QED
  BY <1>1, <1>2, CallStep DEF CallMoves, Advances

LEMMA SeriesNext == TypeOK /\ MenuInv /\ SeriesAdvances /\ Next => SeriesAdvances'
<1> SUFFICES ASSUME TypeOK, MenuInv, SeriesAdvances, Next,
                    NEW n \in Occurrences, n > 1, Exists(First(n))'
             PROVE  outbox'[First(n - 1)] = "SUCCEEDED"
  BY DEF SeriesAdvances
<1>1. n \in Messages /\ n - 1 \in Messages
  BY RowNames, TelegramAssumption DEF Occurrences, Messages
<1>2. /\ First(n) \in Rows /\ First(n).kind = "first" /\ First(n).of = n
      /\ First(n - 1) \in Rows
  BY <1>1, RowNames
<1>3. RowMoves(First(n)) /\ RowMoves(First(n - 1))
  BY <1>2, RowStep
<1>4. CASE outbox[First(n)] = "NONE"
  BY <1>2, <1>3, <1>4 DEF RowMoves, Exists, Live
<1>5. CASE outbox[First(n)] # "NONE"
  <2>1. outbox[First(n - 1)] = "SUCCEEDED"
    BY <1>5 DEF SeriesAdvances, Exists
  <2> QED
    BY <1>3, <2>1 DEF RowMoves, Live
<1> QED
  BY <1>4, <1>5

RowsInv == MenuInv /\ CallInv /\ SeriesAdvances

LEMMA RowsInit == Init => RowsInv
<1> SUFFICES ASSUME Init PROVE RowsInv
  OBVIOUS
<1>1. \A w \in Workers : call[w].step = "idle"
  BY DEF Init, NoCall
<1>2. ASSUME NEW n \in 1..Menus PROVE outbox[Menu(n)] = "NONE"
  <2>1. Menu(n) \in Rows /\ \A m : Menu(n) # First(m)
    BY RowNames DEF First, Menu
  <2> QED
    BY <2>1 DEF Init
<1>3. ASSUME NEW n \in Occurrences, n > 1 PROVE outbox[First(n)] = "NONE"
  <2>1. First(n) \in Rows /\ First(n).of = n /\ First(n) # First(1) /\ First(n) # First(Album)
    BY <1>3, RowNames DEF First, Album
  <2> QED
    BY <1>3, <2>1 DEF Init
<1> QED
  BY <1>1, <1>2, <1>3 DEF RowsInv, MenuInv, CallInv, SeriesAdvances, Exists

LEMMA RowsNext == TypeOK /\ RowsInv /\ [Next]_vars => RowsInv'
<1>1. CASE Next
  BY <1>1, MenuNext, CallNext, SeriesNext DEF RowsInv
<1>2. CASE UNCHANGED vars
  BY <1>2 DEF RowsInv, MenuInv, CallInv, SeriesAdvances, Exists, vars, rowVars, targetVars
<1> QED
  BY <1>1, <1>2

(* A series has at most one open occurrence, whatever crashes, retries and
   second workers did. *)
THEOREM TelegramSeriesAdvances == Spec => []SeriesAdvances
<1>1. Init => TypeOK /\ RowsInv
  BY TypeInit, RowsInit
<1>2. (TypeOK /\ RowsInv) /\ [Next]_vars => (TypeOK /\ RowsInv)'
  BY TypeNext, RowsNext
<1>3. RowsInv => SeriesAdvances
  BY DEF RowsInv
<1> QED
  BY <1>1, <1>2, <1>3, PTL DEF Spec
-----------------------------------------------------------------------------
(* Requests accepted before the first claim. *)

LEMMA SentStep ==
    ASSUME TypeOK, Next, NEW n \in Messages
    PROVE  \/ sent'[n] = sent[n]
           \/ \E w \in Workers :
                 /\ call[w].step = "ready"
                 /\ call[w].row = First(n) \/ (n \in Occurrences /\ call[w].row = Again(n))
                 /\ Accepted(w) \/ AnswerLost(w)
                 /\ sent'[n] = sent[n] + 1
<1>1. CASE \E w \in Workers : Accepted(w) \/ AnswerLost(w)
  <2>1. PICK w \in Workers : Accepted(w) \/ AnswerLost(w)
    BY <1>1
  <2>2. call[w].step = "ready" /\ Applied(call[w].row) /\ call[w].row \in Rows
    BY <2>1 DEF Accepted, AnswerLost, TypeOK
  <2>3. CASE call[w].row.kind \in {"first", "again"} /\ call[w].row.of = n
    <3>1. call[w].row = First(n) \/ (n \in Occurrences /\ call[w].row = Again(n))
      BY <2>2, <2>3, RowNames
    <3>2. sent'[n] = sent[n] + 1
      BY <2>2, <2>3 DEF Applied, TypeOK
    <3> QED
      BY <2>1, <2>2, <3>1, <3>2
  <2>4. CASE ~(call[w].row.kind \in {"first", "again"} /\ call[w].row.of = n)
    BY <2>2, <2>4 DEF Applied, TypeOK
  <2> QED
    BY <2>3, <2>4
<1>2. CASE ~\E w \in Workers : Accepted(w) \/ AnswerLost(w)
  BY <1>2, NextSplit, ZenonT(60) DEF Works, Claim, ReadMessage, ReadAlbum, ReadTarget, ReadConfig, MarkProcessing,
              Refused, RecordMessage, RecordAlbum, RecordAction, Finish,
              RecordTooLate, Fail, Crash, Aged, Asked, RecoverRow, Lapse, TimePasses, OperatorRetry,
              Cancel, CrmRetry, Update, QueueAction, SetMenu, historyVars
<1> QED
  BY <1>1, <1>2

(* A message is not with Telegram before its row was claimed, and a CRM retry
   comes after that. *)
FreshInv ==
    \A n \in Messages :
        outbox[First(n)] \in {"NONE", "PENDING"}
            => sent[n] = 0 /\ (n \in Occurrences => ~Exists(Again(n)))
AgainInv == \A n \in Occurrences : Exists(Again(n)) => n \in late

LEMMA AgainNext == TypeOK /\ RowsInv /\ AgainInv /\ Next => AgainInv'
<1> SUFFICES ASSUME TypeOK, RowsInv, AgainInv, Next, NEW n \in Occurrences, Exists(Again(n))'
             PROVE  n \in late'
  BY DEF AgainInv
<1>1. Again(n) \in Rows /\ Again(n).kind = "again" /\ Again(n).of = n
  BY RowNames
<1>2. RowMoves(Again(n))
  BY <1>1, RowStep DEF RowsInv
<1>3. CASE outbox[Again(n)] = "NONE"
  BY <1>1, <1>2, <1>3 DEF RowMoves, Exists, Live
<1>4. CASE outbox[Again(n)] # "NONE"
  BY <1>4, HistoryGrows DEF AgainInv, Exists
<1> QED
  BY <1>3, <1>4

LEMMA FreshNext == TypeOK /\ RowsInv /\ FreshInv /\ Next => FreshInv'
<1> SUFFICES ASSUME TypeOK, RowsInv, FreshInv, Next, NEW n \in Messages,
                    outbox'[First(n)] \in {"NONE", "PENDING"}
             PROVE  sent'[n] = 0 /\ (n \in Occurrences => outbox'[Again(n)] = "NONE")
  BY DEF FreshInv, Exists
<1>1. First(n) \in Rows
  BY RowNames
<1>2. outbox[First(n)] \in {"NONE", "PENDING"}
  <2>1. RowMoves(First(n))
    BY <1>1, RowStep DEF RowsInv
  <2> QED
    BY <1>1, <2>1 DEF RowMoves, Live
<1>3. sent[n] = 0 /\ (n \in Occurrences => outbox[Again(n)] = "NONE")
  BY <1>2 DEF FreshInv, Exists
<1>4. sent'[n] = sent[n]
  BY <1>2, <1>3, SentStep DEF RowsInv, CallInv
<1>5. n \in Occurrences => outbox'[Again(n)] = "NONE"
  <2> SUFFICES ASSUME n \in Occurrences PROVE outbox'[Again(n)] = "NONE"
    OBVIOUS
  <2>1. Again(n) \in Rows /\ Again(n).kind = "again" /\ Again(n).of = n
    BY RowNames
  <2>2. RowMoves(Again(n))
    BY <2>1, RowStep DEF RowsInv
  <2> QED
    BY <1>2, <1>3, <2>1, <2>2 DEF RowMoves, Live
<1> QED
  BY <1>3, <1>4, <1>5

(* Only cancelScheduled() makes a schedule CANCELLED. *)
LEMMA CancelStep ==
    ASSUME TypeOK, Next, NEW n \in Occurrences, record'[n] = "CANCELLED"
    PROVE  record[n] = "CANCELLED" \/ Cancel(n)
<1>0. n \in Messages /\ n # Album
  BY RowNames
<1>1. ASSUME NEW w \in Workers, Works(w) PROVE record[n] = "CANCELLED"
  <2>1. CASE RecordMessage(w)
    BY <1>0, <2>1 DEF RecordMessage, TypeOK, Open
  <2>2. CASE Fail(w)
    BY <1>0, <2>2 DEF Fail, TypeOK
  <2>3. CASE MarkProcessing(w)
    BY <1>0, <2>3 DEF MarkProcessing, TypeOK
  <2>4. CASE RecordAlbum(w)
    BY <1>0, <2>4 DEF RecordAlbum, TypeOK
  <2> QED
    BY <1>1, <2>1, <2>2, <2>3, <2>4
       DEF Works, ReadMessage, ReadAlbum, ReadTarget, ReadConfig, Accepted, AnswerLost,
           Refused, RecordAction, Finish, RecordTooLate, Crash, scheduleVars
<1>2. CASE \E w \in Workers, r \in Rows : Claim(w, r)
  BY <1>2 DEF Claim, scheduleVars
<1>3. CASE Aged
  BY <1>3 DEF Aged, RecoverRow, Lapse, TimePasses, scheduleVars
<1>4. CASE Asked
  <2>1. ASSUME NEW q \in Rows, OperatorRetry(q) PROVE record[n] = "CANCELLED"
    BY <1>0, <2>1 DEF OperatorRetry, TypeOK
  <2>2. ASSUME NEW m \in Occurrences, Cancel(m) PROVE record[n] = "CANCELLED" \/ Cancel(n)
    BY <1>0, <2>2 DEF Cancel, TypeOK
  <2> QED
    BY <1>4, <2>1, <2>2 DEF Asked, CrmRetry, Update, QueueAction, SetMenu, scheduleVars
<1> QED
  BY <1>1, <1>2, <1>3, <1>4, NextSplit

(* The time of a schedule moves back only before its first claim, or late. *)
LEMMA TimeStep ==
    ASSUME TypeOK, Next, NEW n \in Occurrences
    PROVE  \/ at'[n] = at[n] \/ at'[n] = "past" \/ n \in late'
           \/ outbox[First(n)] = "PENDING" /\ outbox' = outbox
<1>0. n \in Messages
  BY RowNames
<1>1. ASSUME NEW m \in Occurrences, NEW rule \in BOOLEAN, NEW time \in {at[m], "ahead"},
             Update(m, rule, time)
      PROVE  \/ at'[n] = at[n] \/ n \in late'
             \/ outbox[First(n)] = "PENDING" /\ outbox' = outbox
  BY <1>0, <1>1, RowNames DEF Update, TypeOK, TooLate, rowVars
<1>2. ASSUME NEW m \in Occurrences, TimePasses(m) PROVE at'[n] = at[n] \/ at'[n] = "past"
  BY <1>0, <1>2 DEF TimePasses, TypeOK
<1>3. CASE \E w \in Workers : Works(w) \/ \E r \in Rows : Claim(w, r)
  BY <1>3, ZenonT(60) DEF Works, Claim, ReadMessage, ReadAlbum, ReadTarget, ReadConfig, MarkProcessing, Accepted,
              AnswerLost, Refused, RecordMessage, RecordAlbum, RecordAction, Finish,
              RecordTooLate, Fail, Crash, scheduleVars
<1> QED
  BY <1>1, <1>2, <1>3, NextSplit
     DEF Aged, Asked, RecoverRow, Lapse, OperatorRetry, Cancel, CrmRetry, QueueAction, SetMenu, scheduleVars

LEMMA ClaimDue ==
    ASSUME TypeOK, MenuInv, Next, NEW n \in Occurrences,
           outbox[First(n)] = "PENDING", outbox'[First(n)] # "PENDING"
    PROVE  (Past(n) /\ at' = at) \/ outbox'[First(n)] = "FAILED"
<1>0. First(n) \in Rows /\ First(n).of = n /\ Scheduled(First(n)) /\ n \in Messages
  BY RowNames DEF Scheduled
<1>1. ASSUME NEW w \in Workers, NEW q \in Rows, Claim(w, q) PROVE Past(n) /\ at' = at
  <2>1. q = First(n)
    BY <1>0, <1>1 DEF Claim, TypeOK
  <2> QED
    BY <1>0, <1>1, <2>1 DEF Claim, Due, scheduleVars
<1>2. ASSUME NEW w \in Workers, Works(w) PROVE FALSE
  <2>1. CASE UNCHANGED outbox
    BY <2>1
  <2>2. CASE \E s \in {"SUCCEEDED", "RETRY", "FAILED"} : Release(w, s)
    BY <1>0, <2>2 DEF Release, Holds, TypeOK
  <2>3. CASE RecordMessage(w)
    BY <1>0, <2>3 DEF RecordMessage, Holds, TypeOK, MakesNext, Exists
  <2> QED
    BY <1>2, <2>1, <2>2, <2>3
       DEF Works, ReadMessage, ReadAlbum, ReadTarget, ReadConfig, MarkProcessing, Accepted,
           AnswerLost, Refused, RecordAlbum, RecordAction, Finish, RecordTooLate, Fail, Crash, rowVars
<1>3. CASE Aged
  BY <1>0, <1>3 DEF Aged, RecoverRow, Lapse, TimePasses, rowVars, TypeOK
<1>4. CASE Asked
  BY <1>0, <1>4 DEF Asked, OperatorRetry, Cancel, CrmRetry, Update, QueueAction, SetMenu, Exists,
                    rowVars, TypeOK
<1> QED
  BY <1>1, <1>2, <1>3, <1>4, NextSplit
(* What the requests made in time guarantee, with the calls they exclude. *)
CancelledInTime(n) ==
    record[n] = "CANCELLED" => /\ outbox[First(n)] = "FAILED" /\ sent[n] = 0
                               /\ \A w \in Workers : call[w].step # "idle" => call[w].row # First(n)
NotBeforeItsTime(n) == outbox[First(n)] \in {"RETRY", "PROCESSING", "SUCCEEDED"} => Past(n)
EarlyInv == \A n \in Occurrences \ late : CancelledInTime(n) /\ NotBeforeItsTime(n)

LEMMA CancelledNext ==
    ASSUME TypeOK, RowsInv, FreshInv, AgainInv, EarlyInv, Next, NEW n \in Occurrences, n \notin late',
           record'[n] = "CANCELLED"
    PROVE  /\ outbox'[First(n)] = "FAILED" /\ sent'[n] = 0
           /\ \A w \in Workers : call'[w].step # "idle" => call'[w].row # First(n)
<1>0. /\ First(n) \in Rows /\ First(n).of = n /\ Scheduled(First(n)) /\ n \in Messages
      /\ n \notin late /\ MenuInv
  BY RowNames, HistoryGrows DEF Scheduled, RowsInv
<1>1. CASE Cancel(n)
  <2>1. outbox[First(n)] = "PENDING"
    BY <1>0, <1>1 DEF Cancel, TooLate
  <2>2. outbox'[First(n)] = "FAILED" /\ sent' = sent /\ call' = call
    BY <1>0, <1>1, <2>1 DEF Cancel, TypeOK
  <2> QED
    BY <1>0, <2>1, <2>2 DEF FreshInv, RowsInv, CallInv
<1>2. CASE record[n] = "CANCELLED"
  <2>1. CancelledInTime(n) /\ outbox[First(n)] = "FAILED" /\ ~Exists(Again(n))
    BY <1>0, <1>2 DEF EarlyInv, CancelledInTime, AgainInv
  <2>2. outbox'[First(n)] = "FAILED"
    <3>1. RowMoves(First(n))
      BY <1>0, RowStep
    <3> QED
      BY <1>0, <2>1, <3>1 DEF RowMoves, Live
  <2>3. sent'[n] = 0
    BY <1>0, <1>2, <2>1, SentStep DEF CancelledInTime, RowsInv, CallInv, Exists
  <2>4. ASSUME NEW w \in Workers, call'[w].step # "idle" PROVE call'[w].row # First(n)
    BY <1>2, <2>1, <2>2, <2>4, CallStep DEF CancelledInTime, CallMoves, Claims, Advances
  <2> QED
    BY <2>2, <2>3, <2>4
<1> QED
  BY <1>1, <1>2, CancelStep

LEMMA TimeNext ==
    ASSUME TypeOK, RowsInv, EarlyInv, Next, NEW n \in Occurrences, n \notin late',
           outbox'[First(n)] \in {"RETRY", "PROCESSING", "SUCCEEDED"}
    PROVE  at'[n] = "past"
<1>0. /\ First(n) \in Rows /\ First(n).of = n /\ Scheduled(First(n)) /\ n \in Messages
      /\ n \notin late /\ MenuInv
  BY RowNames, HistoryGrows DEF Scheduled, RowsInv
<1>1. RowMoves(First(n))
  BY <1>0, RowStep
<1>2. CASE outbox[First(n)] = "PENDING"
  BY <1>0, <1>2, ClaimDue DEF Past
<1>3. CASE outbox[First(n)] # "PENDING"
  <2>1. outbox[First(n)] \in {"RETRY", "PROCESSING", "SUCCEEDED"}
    BY <1>0, <1>1, <1>3 DEF RowMoves, Live
  <2>2. at[n] = "past"
    BY <1>0, <2>1 DEF EarlyInv, NotBeforeItsTime, Past
  <2> QED
    BY <1>3, <2>2, TimeStep
<1> QED
  BY <1>2, <1>3

EarlyFacts == RowsInv /\ FreshInv /\ AgainInv /\ EarlyInv

LEMMA EarlyInit == Init => EarlyFacts
<1> SUFFICES ASSUME Init PROVE EarlyFacts
  OBVIOUS
<1>1. RowsInv
  BY RowsInit
<1>2. \A n \in Messages : sent[n] = 0 /\ record[n] # "CANCELLED" /\ outbox[First(n)] \in {"NONE", "PENDING"}
  BY RowNames DEF Init
<1>3. ASSUME NEW n \in Occurrences PROVE ~Exists(Again(n))
  <2>1. Again(n) \in Rows /\ \A m : Again(n) # First(m)
    BY RowNames DEF First, Again
  <2> QED
    BY <2>1 DEF Init, Exists
<1> QED
  BY <1>1, <1>2, <1>3, RowNames
     DEF EarlyFacts, FreshInv, AgainInv, EarlyInv, CancelledInTime, NotBeforeItsTime

LEMMA EarlyNext == TypeOK /\ EarlyFacts /\ [Next]_vars => EarlyFacts'
<1>1. ASSUME TypeOK, EarlyFacts, Next PROVE EarlyFacts'
  <2>1. RowsInv' /\ FreshInv' /\ AgainInv'
    BY <1>1, RowsNext, FreshNext, AgainNext DEF EarlyFacts
  <2>2. EarlyInv'
    BY <1>1, CancelledNext, TimeNext DEF EarlyFacts, EarlyInv, CancelledInTime, NotBeforeItsTime, Past
  <2> QED
    BY <2>1, <2>2 DEF EarlyFacts
<1>2. ASSUME TypeOK, EarlyFacts, UNCHANGED vars PROVE EarlyFacts'
  <2>1. RowsInv'
    BY <1>2, RowsNext DEF EarlyFacts
  <2> QED
    BY <1>2, <2>1 DEF EarlyFacts, FreshInv, AgainInv, EarlyInv, CancelledInTime, NotBeforeItsTime, Past, Exists,
                      vars, rowVars, scheduleVars, historyVars
<1> QED
  BY <1>1, <1>2

LEMMA EarlyFactsHold == Spec => [](TypeOK /\ EarlyFacts)
<1>1. Init => TypeOK /\ EarlyFacts
  BY TypeInit, EarlyInit
<1>2. (TypeOK /\ EarlyFacts) /\ [Next]_vars => (TypeOK /\ EarlyFacts)'
  BY TypeNext, EarlyNext
<1> QED
  BY <1>1, <1>2, PTL DEF Spec

(* A cancellation or a new time accepted before the first claim is honoured,
   whatever claims, crashes and answers come after it. *)
THEOREM TelegramEarlyRequestsHonoured == Spec => []EarlyRequestsHonoured
<1>1. EarlyFacts => EarlyRequestsHonoured
  BY DEF EarlyFacts, EarlyInv, CancelledInTime, NotBeforeItsTime, EarlyRequestsHonoured
<1> QED
  BY <1>1, EarlyFactsHold, PTL
-----------------------------------------------------------------------------
(* Whose row it is: as long as no lease runs out under a call, the call has it. *)

OwnerInv ==
    \A w \in Workers : call[w].step # "idle" /\ call[w].row \notin slow
        => Holds(w) /\ ~old[call[w].row]

Keeps(r) == outbox'[r] = outbox[r] /\ holder'[r] = holder[r] /\ old'[r] = old[r]

(* Under OwnerInv a held row changes hands only by its owner, or becomes slow. *)
LEMMA HeldStep ==
    ASSUME TypeOK, MenuInv, OwnerInv, Next, NEW v \in Workers, call[v].step # "idle",
           call[v].row \notin slow'
    PROVE  Keeps(call[v].row) \/ call'[v].step = "idle"
<1> DEFINE r == call[v].row
<1>0. r \in Rows /\ r \notin slow /\ holder[r] = v /\ outbox[r] = "PROCESSING" /\ ~old[r]
  BY HistoryGrows DEF OwnerInv, Holds, TypeOK
<1>1. ASSUME NEW w \in Workers, NEW q \in Rows, Claim(w, q) PROVE Keeps(r)
  <2>1. q # r
    BY <1>0, <1>1 DEF Claim, Due
  <2> QED
    BY <1>0, <1>1, <2>1, ClaimCall DEF Keeps
<1>2. ASSUME NEW w \in Workers, Works(w) PROVE Keeps(r) \/ call'[v].step = "idle"
  <2>1. CASE rowVars' = rowVars
    BY <2>1 DEF Keeps, rowVars
  <2>2. CASE w = v /\ Ends(w)
    BY <2>2, EndsCall
  <2>3. CASE w # v /\ \E s \in {"SUCCEEDED", "RETRY", "FAILED"} : Release(w, s)
    BY <1>0, <2>3 DEF Release, Holds, Keeps, TypeOK
  <2>4. CASE w # v /\ RecordMessage(w)
    <3>1. call[w].row \in Rows /\ call[w].row # r
      BY <1>0, <2>4 DEF RecordMessage, Holds, TypeOK
    <3>2. ASSUME MakesNext(w), r.kind = "first", r.of = call[w].row.of + 1 PROVE FALSE
      <4>1. r = First(call[w].row.of + 1)
        BY <1>0, <3>2, RowNames
      <4> QED
        BY <1>0, <3>2, <4>1 DEF MakesNext, Exists
    <3>3. outbox'[r] = outbox[r]
      BY <1>0, <2>4, <3>1, <3>2 DEF RecordMessage
    <3> QED
      BY <1>0, <2>4, <3>1, <3>3 DEF RecordMessage, Keeps, TypeOK
  <2> QED
    BY <1>2, <2>1, <2>2, <2>3, <2>4
       DEF Works, Ends, ReadMessage, ReadAlbum, ReadTarget, ReadConfig, MarkProcessing, Accepted,
           AnswerLost, Refused, RecordAlbum, RecordAction, Finish, RecordTooLate, Fail, Crash
<1>3. CASE Aged
  <2>1. ASSUME NEW q \in Rows, RecoverRow(q) PROVE Keeps(r)
    BY <1>0, <2>1 DEF RecoverRow, Keeps, TypeOK
  <2>2. ASSUME NEW q \in Rows, Lapse(q) PROVE Keeps(r)
    <3>1. q # r
      BY <1>0, <2>2 DEF Lapse, Calls
    <3> QED
      BY <1>0, <2>2, <3>1 DEF Lapse, Keeps, TypeOK
  <2> QED
    BY <1>3, <2>1, <2>2 DEF Aged, TimePasses, Keeps, rowVars
<1>4. CASE Asked
  <2>1. ASSUME NEW q \in Rows, OperatorRetry(q) PROVE Keeps(r)
    BY <1>0, <2>1 DEF OperatorRetry, Keeps, TypeOK
  <2>2. ASSUME NEW n \in Occurrences, Cancel(n) \/ CrmRetry(n) PROVE Keeps(r)
    BY <1>0, <2>2 DEF Cancel, CrmRetry, Keeps, TypeOK, Exists
  <2>3. ASSUME NEW a \in Actions, QueueAction(a) PROVE Keeps(r)
    BY <1>0, <2>3 DEF QueueAction, Keeps, TypeOK, Exists
  <2>4. CASE SetMenu
    <3>1. config + 1 \in 1..Menus /\ ~(config + 1 <= config)
      BY <2>4, TelegramAssumption DEF SetMenu, TypeOK
    <3>2. Menu(config + 1) # r
      BY <1>0, <3>1 DEF MenuInv, Exists
    <3> QED
      BY <1>0, <2>4, <3>2 DEF SetMenu, Keeps, TypeOK
  <2> QED
    BY <1>4, <2>1, <2>2, <2>3, <2>4 DEF Asked, Update, Keeps, rowVars
<1> QED
  BY <1>1, <1>2, <1>3, <1>4, NextSplit

LEMMA OwnerNext == TypeOK /\ RowsInv /\ OwnerInv /\ Next => OwnerInv'
<1> SUFFICES ASSUME TypeOK, RowsInv, OwnerInv, Next, NEW v \in Workers,
                    call'[v].step # "idle", call'[v].row \notin slow'
             PROVE  /\ holder'[call'[v].row] = v /\ outbox'[call'[v].row] = "PROCESSING"
                    /\ ~old'[call'[v].row]
  BY DEF OwnerInv, Holds
<1>1. CASE Claims(v)
  BY <1>1 DEF Claims
<1>2. CASE call'[v].row = call[v].row /\ call[v].step # "idle"
  BY <1>2, HeldStep, HistoryGrows DEF Keeps, OwnerInv, Holds, RowsInv
<1> QED
  BY <1>1, <1>2, CallStep DEF CallMoves, Advances
LEMMA LostStep ==
    ASSUME TypeOK, Next, NEW n \in Messages, lost'[n] = 0
    PROVE  lost[n] = 0
<1>1. ASSUME NEW w \in Workers, lost' = Lost(call[w].row) PROVE lost[n] = 0
  BY <1>1 DEF Lost, TypeOK
<1>2. CASE \E w \in Workers : AnswerLost(w) \/ RecordTooLate(w) \/ Crash(w)
  BY <1>1, <1>2 DEF AnswerLost, RecordTooLate, Crash
<1>3. CASE ~\E w \in Workers : AnswerLost(w) \/ RecordTooLate(w) \/ Crash(w)
  BY <1>3, NextSplit, ZenonT(60)
     DEF Works, Claim, ReadMessage, ReadAlbum, ReadTarget, ReadConfig, MarkProcessing, Accepted,
         Refused, RecordMessage, RecordAlbum, RecordAction, Finish, Fail, Aged, Asked, RecoverRow,
         Lapse, TimePasses, OperatorRetry, Cancel, CrmRetry, Update, QueueAction, SetMenu, historyVars
<1> QED
  BY <1>2, <1>3

LEMMA AnsweredStep ==
    ASSUME TypeOK, OwnerInv, Next, NEW n \in Messages, First(n) \notin slow, lost'[n] = 0,
           NEW w \in Workers, call[w].step = "answered", call[w].row = First(n)
    PROVE  call'[w] = call[w] \/ outbox'[First(n)] = "SUCCEEDED"
<1>0. First(n) \in Rows /\ First(n).kind = "first" /\ First(n).of = n /\ Holds(w)
  BY RowNames DEF OwnerInv
<1>1. ASSUME lost' = Lost(call[w].row) PROVE FALSE
  BY <1>0, <1>1 DEF Lost, TypeOK
<1>2. ASSUME Ends(w) PROVE outbox'[First(n)] = "SUCCEEDED"
  <2>1. CASE RecordMessage(w)
    BY <1>0, <2>1 DEF RecordMessage
  <2>2. CASE RecordAlbum(w)
    BY <1>0, <2>2 DEF RecordAlbum, Release, TypeOK
  <2>3. CASE RecordAction(w) \/ Finish(w) \/ Fail(w)
    BY <1>0, <2>3 DEF RecordAction, Finish, Fail
  <2>4. CASE RecordTooLate(w) \/ Crash(w)
    BY <1>0, <1>1, <2>4 DEF RecordTooLate, Crash
  <2> QED
    BY <1>2, <2>1, <2>2, <2>3, <2>4 DEF Ends
<1>3. ASSUME NEW v \in Workers, Works(v) PROVE call'[w] = call[w] \/ outbox'[First(n)] = "SUCCEEDED"
  <2>1. CASE v = w
    BY <1>2, <1>3, <2>1
       DEF Works, Ends, ReadMessage, ReadAlbum, ReadTarget, ReadConfig, MarkProcessing, Accepted,
           AnswerLost, Refused
  <2>2. CASE v # w
    BY <1>3, <2>2, ReadCall, StepsCall, EndsCall DEF Works, Steps, Ends
  <2> QED
    BY <2>1, <2>2
<1>4. ASSUME NEW v \in Workers, NEW q \in Rows, Claim(v, q) PROVE call'[w] = call[w]
  <2>1. v # w
    BY <1>4 DEF Claim
  <2> QED
    BY <1>4, <2>1, ClaimCall
<1>5. CASE Aged \/ Asked
  BY <1>5 DEF Aged, Asked, RecoverRow, Lapse, TimePasses, OperatorRetry, Cancel, CrmRetry, Update,
              QueueAction, SetMenu
<1> QED
  BY <1>3, <1>4, <1>5, NextSplit

(* No excuse for a second message, and where the first one is. *)
NoExcuse(n) == /\ First(n) \notin slow /\ lost[n] = 0
               /\ n \in Occurrences => outbox[Again(n)] = "NONE"
SingleInv ==
    \A n \in Messages : NoExcuse(n) =>
        \/ sent[n] = 0
        \/ /\ sent[n] = 1
           /\ \/ outbox[First(n)] = "SUCCEEDED"
              \/ \E w \in Workers : call[w].step = "answered" /\ call[w].row = First(n)

LEMMA SingleNext ==
    TypeOK /\ RowsInv /\ OwnerInv /\ SingleInv /\ Next => SingleInv'
<1> SUFFICES ASSUME TypeOK, RowsInv, OwnerInv, SingleInv, Next, NEW n \in Messages, NoExcuse(n)'
             PROVE  \/ sent'[n] = 0
                    \/ /\ sent'[n] = 1
                       /\ \/ outbox'[First(n)] = "SUCCEEDED"
                          \/ \E w \in Workers : call'[w].step = "answered" /\ call'[w].row = First(n)
  BY DEF SingleInv
<1>0. First(n) \in Rows /\ First(n).kind = "first" /\ First(n).of = n /\ MenuInv
  BY RowNames DEF RowsInv
<1>1. NoExcuse(n)
  <2>1. ASSUME n \in Occurrences PROVE outbox[Again(n)] = "NONE"
    <3>1. Again(n) \in Rows /\ RowMoves(Again(n)) /\ outbox'[Again(n)] = "NONE"
      BY <1>0, <2>1, RowNames, RowStep DEF NoExcuse
    <3> QED
      BY <3>1 DEF RowMoves
  <2> QED
    BY <2>1, HistoryGrows, LostStep DEF NoExcuse
<1>2. CASE sent'[n] = sent[n]
  <2>1. CASE sent[n] = 0
    BY <1>2, <2>1
  <2>2. CASE outbox[First(n)] = "SUCCEEDED" /\ sent[n] = 1
    <3>1. outbox'[First(n)] = "SUCCEEDED"
      <4>1. RowMoves(First(n))
        BY <1>0, RowStep
      <4> QED
        BY <2>2, <4>1 DEF RowMoves, Live
    <3> QED
      BY <1>2, <2>2, <3>1
  <2>3. CASE sent[n] = 1 /\ \E w \in Workers : call[w].step = "answered" /\ call[w].row = First(n)
    BY <1>1, <1>2, <2>3, AnsweredStep DEF NoExcuse
  <2> QED
    BY <1>1, <2>1, <2>2, <2>3 DEF SingleInv
<1>3. ASSUME NEW w \in Workers, call[w].step = "ready",
             call[w].row = First(n) \/ (n \in Occurrences /\ call[w].row = Again(n)),
             Accepted(w) \/ AnswerLost(w), sent'[n] = sent[n] + 1
      PROVE  sent'[n] = 1 /\ \E v \in Workers : call'[v].step = "answered" /\ call'[v].row = First(n)
  <2>1. call[w].row = First(n)
    BY <1>1, <1>3 DEF NoExcuse, RowsInv, CallInv
  <2>2. outbox[First(n)] = "PROCESSING" /\ holder[First(n)] = w
    BY <1>1, <1>3, <2>1 DEF NoExcuse, OwnerInv, Holds
  <2>3. ASSUME NEW v \in Workers, call[v].step = "answered", call[v].row = First(n) PROVE FALSE
    <3>1. holder[First(n)] = v
      BY <1>1, <2>3 DEF NoExcuse, OwnerInv, Holds
    <3> QED
      BY <1>3, <2>2, <2>3, <3>1
  <2>4. sent[n] = 0
    BY <1>1, <2>2, <2>3 DEF SingleInv
  <2>5. ~AnswerLost(w)
    BY <1>0, <1>1, <2>1 DEF AnswerLost, Lost, NoExcuse, TypeOK
  <2>6. call'[w].step = "answered" /\ call'[w].row = First(n)
    BY <1>3, <2>1, <2>5, StepFacts DEF Accepted
  <2> QED
    BY <1>3, <2>4, <2>6
<1> QED
  BY <1>2, <1>3, SentStep

SentFacts == RowsInv /\ OwnerInv /\ SingleInv

LEMMA SentInit == Init => SentFacts
<1> SUFFICES ASSUME Init PROVE SentFacts
  OBVIOUS
<1>1. (\A w \in Workers : call[w].step = "idle") /\ \A n \in Messages : sent[n] = 0
  BY DEF Init, NoCall
<1> QED
  BY <1>1, RowsInit DEF SentFacts, OwnerInv, SingleInv

LEMMA SentNext == TypeOK /\ SentFacts /\ [Next]_vars => SentFacts'
<1>1. ASSUME TypeOK, SentFacts, Next PROVE SentFacts'
  BY <1>1, RowsNext, OwnerNext, SingleNext DEF SentFacts
<1>2. ASSUME TypeOK, SentFacts, UNCHANGED vars PROVE SentFacts'
  <2>1. RowsInv'
    BY <1>2, RowsNext DEF SentFacts
  <2>2. OwnerInv'
    BY <1>2 DEF SentFacts, OwnerInv, Holds, vars, rowVars, historyVars
  <2>3. SingleInv'
    BY <1>2 DEF SentFacts, SingleInv, NoExcuse, vars, rowVars, historyVars
  <2> QED
    BY <2>1, <2>2, <2>3 DEF SentFacts
<1> QED
  BY <1>1, <1>2

LEMMA SentFactsHold == Spec => [](TypeOK /\ SentFacts)
<1>1. Init => TypeOK /\ SentFacts
  BY TypeInit, SentInit
<1>2. (TypeOK /\ SentFacts) /\ [Next]_vars => (TypeOK /\ SentFacts)'
  BY TypeNext, SentNext
<1> QED
  BY <1>1, <1>2, PTL DEF Spec

(* Telegram has a message twice only for one of the three reasons OneMessage
   names: the lease, as long as it lasts, is enough against everything else. *)
THEOREM TelegramOneMessage == Spec => []OneMessage
<1>1. TypeOK /\ SentFacts => OneMessage
  <2> SUFFICES ASSUME TypeOK, SentFacts, NEW n \in Messages, sent[n] > 1,
                      ~(lost[n] > 0), First(n) \notin slow, ~(n # Album /\ Exists(Again(n)))
               PROVE  FALSE
    BY DEF OneMessage
  <2>1. lost[n] = 0
    BY DEF TypeOK
  <2>2. NoExcuse(n)
    BY <2>1, RowNames DEF NoExcuse, Exists
  <2> QED
    BY <2>2 DEF SentFacts, SingleInv
<1> QED
  BY <1>1, SentFactsHold, PTL
-----------------------------------------------------------------------------
(* The rule of a series, and what the CRM is shown. *)

LEMMA SuccessStep ==
    ASSUME TypeOK, MenuInv, Next, NEW r \in Rows, outbox[r] # "SUCCEEDED", outbox'[r] = "SUCCEEDED"
    PROVE  \E w \in Workers :
              /\ call[w].row = r
              /\ RecordMessage(w) \/ RecordAlbum(w) \/ RecordAction(w) \/ (Finish(w) /\ Holds(w))
<1>1. ASSUME NEW w \in Workers, NEW s, Release(w, s), outbox[call[w].row] # "SUCCEEDED"
      PROVE  call[w].row = r /\ Holds(w) /\ s = "SUCCEEDED"
  BY <1>1 DEF Release, TypeOK
<1>2. ASSUME NEW w \in Workers, Works(w) PROVE
              /\ call[w].row = r
              /\ RecordMessage(w) \/ RecordAlbum(w) \/ RecordAction(w) \/ (Finish(w) /\ Holds(w))
  <2>1. CASE RecordMessage(w)
    BY <2>1 DEF RecordMessage, TypeOK
  <2>2. CASE RecordAlbum(w) \/ RecordAction(w) \/ Finish(w)
    BY <2>2 DEF RecordAlbum, RecordAction, Finish, Release, Holds, TypeOK
  <2>3. CASE Fail(w)
    BY <2>3 DEF Fail, Release, Holds, TypeOK
  <2> QED
    BY <1>2, <2>1, <2>2, <2>3
       DEF Works, ReadMessage, ReadAlbum, ReadTarget, ReadConfig, MarkProcessing, Accepted,
           AnswerLost, Refused, RecordTooLate, Crash, rowVars
<1>3. CASE \E w \in Workers, q \in Rows : Claim(w, q)
  BY <1>3 DEF Claim, TypeOK
<1>4. CASE Aged \/ Asked
  BY <1>4 DEF Aged, Asked, RecoverRow, Lapse, TimePasses, OperatorRetry, Cancel, CrmRetry, Update,
              QueueAction, SetMenu, TypeOK, rowVars
<1> QED
  BY <1>2, <1>3, <1>4, NextSplit

(* An occurrence is created by the delivery of the one before. *)
LEMMA AppearStep ==
    ASSUME TypeOK, MenuInv, Next, NEW n \in Occurrences,
           outbox[First(n)] = "NONE", outbox'[First(n)] # "NONE"
    PROVE  \E w \in Workers : /\ RecordMessage(w) /\ MakesNext(w)
                              /\ call[w].row.of + 1 = n /\ call[w].row = First(call[w].row.of)
<1>0. First(n) \in Rows /\ First(n).kind = "first" /\ First(n).of = n
  BY RowNames
<1>1. ASSUME NEW w \in Workers, Works(w) PROVE
              /\ RecordMessage(w) /\ MakesNext(w)
              /\ call[w].row.of + 1 = n /\ call[w].row = First(call[w].row.of)
  <2>1. CASE RecordMessage(w)
    <3>1. call[w].row \in Rows /\ call[w].row # First(n)
      BY <2>1 DEF RecordMessage, Holds, TypeOK
    <3>2. MakesNext(w) /\ call[w].row.of + 1 = n
      BY <1>0, <2>1, <3>1 DEF RecordMessage
    <3>3. call[w].row = First(call[w].row.of)
      BY <3>1, <3>2, RowNames DEF MakesNext, Scheduled
    <3> QED
      BY <2>1, <3>2, <3>3
  <2>2. CASE \E s \in {"SUCCEEDED", "RETRY", "FAILED"} : Release(w, s)
    BY <1>0, <2>2 DEF Release, Holds, TypeOK
  <2> QED
    BY <1>1, <2>1, <2>2
       DEF Works, ReadMessage, ReadAlbum, ReadTarget, ReadConfig, MarkProcessing, Accepted, RecordAlbum,
           RecordAction, Finish, Fail, AnswerLost, Refused, RecordTooLate, Crash, rowVars
<1>2. CASE \E w \in Workers, q \in Rows : Claim(w, q)
  BY <1>0, <1>2 DEF Claim, Due, TypeOK
<1>3. CASE Aged
  BY <1>0, <1>3 DEF Aged, RecoverRow, Lapse, TimePasses, TypeOK, rowVars
<1>4. CASE Asked
  <2>1. \A m \in Occurrences : Again(m) # First(n)
    BY <1>0, RowNames
  <2>2. \A a \in Actions : Act(a) # First(n)
    BY <1>0, RowNames
  <2>3. \A m : Menu(m) # First(n)
    BY DEF Menu, First
  <2> QED
    BY <1>0, <1>4, <2>1, <2>2, <2>3
       DEF Asked, OperatorRetry, Cancel, CrmRetry, Update, QueueAction, SetMenu, TypeOK, rowVars
<1> QED
  BY <1>1, <1>2, <1>3, <1>4, NextSplit

(* The recurrence rule changes with its schedule's creation and by an update. *)
LEMMA RuleStep ==
    ASSUME TypeOK, MenuInv, Next, NEW n \in Occurrences
    PROVE  \/ repeats'[n] = repeats[n]
           \/ outbox[First(n)] = "NONE"
           \/ /\ record[n] = "QUEUED" /\ call' = call
              /\ HasRead(First(n)) => First(n) \in raced'
<1>0. n \in Messages
  BY RowNames
<1>1. ASSUME NEW w \in Workers, RecordMessage(w) PROVE repeats'[n] = repeats[n] \/ outbox[First(n)] = "NONE"
  BY <1>0, <1>1 DEF RecordMessage, MakesNext, Exists
<1>2. ASSUME NEW m \in Occurrences, NEW rule \in BOOLEAN, NEW time \in {at[m], "ahead"},
             Update(m, rule, time)
      PROVE  \/ repeats'[n] = repeats[n]
             \/ /\ record[n] = "QUEUED" /\ call' = call
                /\ HasRead(First(n)) => First(n) \in raced'
  BY <1>0, <1>2 DEF Update, TypeOK
<1>3. CASE \E w \in Workers : (Works(w) /\ ~RecordMessage(w)) \/ \E r \in Rows : Claim(w, r)
  BY <1>3, ZenonT(60) DEF Works, Claim, ReadMessage, ReadAlbum, ReadTarget, ReadConfig, MarkProcessing, Accepted,
              AnswerLost, Refused, RecordAlbum, RecordAction, Finish, RecordTooLate, Fail, Crash,
              scheduleVars
<1> QED
  BY <1>1, <1>2, <1>3, NextSplit
     DEF Aged, Asked, RecoverRow, Lapse, TimePasses, OperatorRetry, Cancel, CrmRetry, QueueAction,
         SetMenu, scheduleVars

LEMMA MessageStep ==
    ASSUME TypeOK, Next, NEW n \in Occurrences, message'[n] = "SENT"
    PROVE  \/ message[n] = "SENT"
           \/ \E w \in Workers : /\ RecordMessage(w)
                                 /\ call[w].row = First(n) \/ call[w].row = Again(n)
<1>0. n \in Messages /\ n # Album
  BY RowNames
<1>1. ASSUME NEW w \in Workers, RecordMessage(w), message[n] # "SENT"
      PROVE  call[w].row = First(n) \/ call[w].row = Again(n)
  <2>1. call[w].row.of = n
    BY <1>0, <1>1 DEF RecordMessage, TypeOK
  <2> QED
    BY <1>1, <2>1, RowNames DEF RecordMessage, IsMessage, TypeOK
<1>2. ASSUME NEW w \in Workers, Works(w), ~RecordMessage(w) PROVE message[n] = "SENT"
  <2>1. CASE Fail(w)
    BY <1>0, <2>1 DEF Fail, TypeOK
  <2>2. CASE RecordAlbum(w)
    BY <1>0, <2>2 DEF RecordAlbum, TypeOK
  <2> QED
    BY <1>2, <2>1, <2>2
       DEF Works, ReadMessage, ReadAlbum, ReadTarget, ReadConfig, MarkProcessing, Accepted,
           AnswerLost, Refused, RecordAction, Finish, RecordTooLate, Crash, scheduleVars
<1>3. CASE \E w \in Workers, r \in Rows : Claim(w, r)
  BY <1>3 DEF Claim, scheduleVars
<1>4. CASE Aged \/ Asked
  BY <1>0, <1>4 DEF Aged, Asked, RecoverRow, Lapse, TimePasses, OperatorRetry, Cancel, CrmRetry, Update,
                    QueueAction, SetMenu, scheduleVars, TypeOK
<1> QED
  BY <1>1, <1>2, <1>3, <1>4, NextSplit

(* A schedule is open again only when it is new or retried. *)
LEMMA OpenStep ==
    ASSUME TypeOK, Next, NEW n \in Occurrences, record'[n] \in Open
    PROVE  record[n] \in Open \/ outbox[First(n)] \in {"NONE", "FAILED"}
<1>0. n \in Messages /\ n # Album
  BY RowNames
<1>1. ASSUME NEW w \in Workers, Works(w) PROVE record[n] \in Open \/ outbox[First(n)] = "NONE"
  <2>1. CASE RecordMessage(w)
    BY <1>0, <2>1 DEF RecordMessage, TypeOK, MakesNext, Exists, Open
  <2>2. CASE Fail(w)
    BY <1>0, <2>2 DEF Fail, TypeOK
  <2>3. CASE MarkProcessing(w)
    BY <1>0, <2>3 DEF MarkProcessing, TypeOK, Open
  <2>4. CASE RecordAlbum(w)
    BY <1>0, <2>4 DEF RecordAlbum, TypeOK
  <2> QED
    BY <1>1, <2>1, <2>2, <2>3, <2>4
       DEF Works, ReadMessage, ReadAlbum, ReadTarget, ReadConfig, Accepted, AnswerLost,
           Refused, RecordAction, Finish, RecordTooLate, Crash, scheduleVars
<1>2. CASE \E w \in Workers, r \in Rows : Claim(w, r)
  BY <1>2 DEF Claim, scheduleVars
<1>3. CASE Aged
  BY <1>3 DEF Aged, RecoverRow, Lapse, TimePasses, scheduleVars
<1>4. CASE Asked
  <2>1. ASSUME NEW q \in Rows, OperatorRetry(q), record[n] \notin Open PROVE outbox[First(n)] = "FAILED"
    <3>1. q.kind = "first" /\ q.of = n
      BY <1>0, <2>1 DEF OperatorRetry, HasRecord, TypeOK
    <3> QED
      BY <2>1, <3>1, RowNames DEF OperatorRetry
  <2>2. ASSUME NEW m \in Occurrences, Cancel(m) PROVE record[n] \in Open
    BY <1>0, <2>2 DEF Cancel, TypeOK, Open
  <2> QED
    BY <1>4, <2>1, <2>2 DEF Asked, CrmRetry, Update, QueueAction, SetMenu, scheduleVars
<1> QED
  BY <1>1, <1>2, <1>3, <1>4, NextSplit
(* A call past its reads has the rule the schedule has, a message SENT was
   delivered by one of its rows, and a delivered schedule is closed. *)
Delivered(n) == outbox[First(n)] = "SUCCEEDED" \/ Exists(Again(n))
CopyInv ==
    \A w \in Workers, n \in Occurrences :
        call[w].row = First(n) /\ call[w].step \notin {"idle", "claimed", "skip"} /\ First(n) \notin raced
            => call[w].repeats = repeats[n]
SentInv == \A n \in Occurrences : message[n] = "SENT" => Delivered(n)
SkipInv == \A w \in Workers, n \in Occurrences :
               call[w].row = First(n) /\ call[w].step = "skip" => Delivered(n)
ClosedInv == \A n \in Occurrences : outbox[First(n)] = "SUCCEEDED" /\ ~Exists(Again(n)) => record[n] \notin Open
RuleFacts == RowsInv /\ CopyInv /\ SentInv /\ SkipInv /\ ClosedInv /\ SeriesFollowsRule

LEMMA DeliveredStays ==
    ASSUME TypeOK, MenuInv, Next, NEW n \in Occurrences, Delivered(n)
    PROVE  Delivered(n)'
<1>1. First(n) \in Rows /\ Again(n) \in Rows
  BY RowNames
<1>2. RowMoves(First(n)) /\ RowMoves(Again(n))
  BY <1>1, RowStep
<1> QED
  BY <1>2 DEF RowMoves, Delivered, Exists, Live

LEMMA SentInvNext == TypeOK /\ RuleFacts /\ Next => SentInv' /\ SkipInv'
<1> SUFFICES ASSUME TypeOK, RuleFacts, Next PROVE SentInv' /\ SkipInv'
  OBVIOUS
<1>0. MenuInv /\ CallInv
  BY DEF RuleFacts, RowsInv
<1>1. ASSUME NEW n \in Occurrences, message'[n] = "SENT" PROVE Delivered(n)'
  <2>1. CASE message[n] = "SENT"
    BY <1>0, <2>1, DeliveredStays DEF RuleFacts, SentInv
  <2>2. ASSUME NEW w \in Workers, RecordMessage(w), call[w].row = First(n) PROVE Delivered(n)'
    BY <2>2, RowNames DEF RecordMessage, Delivered
  <2>3. ASSUME NEW w \in Workers, RecordMessage(w), call[w].row = Again(n) PROVE Delivered(n)'
    BY <2>3, RowNames DEF RecordMessage, Delivered, Exists
  <2> QED
    BY <1>1, <2>1, <2>2, <2>3, MessageStep
<1>2. ASSUME NEW v \in Workers, NEW n \in Occurrences, call'[v].row = First(n), call'[v].step = "skip"
      PROVE  Delivered(n)'
  <2>1. CASE call'[v] = call[v]
    BY <1>0, <1>2, <2>1, DeliveredStays DEF RuleFacts, SkipInv
  <2>2. CASE Advances(v) /\ call[v].step = "claimed"
    <3>0. call[v].row = First(n)
      BY <1>2, <2>2 DEF Advances
    <3>1. ASSUME NEW w \in Workers, ReadMessage(w) \/ ReadTarget(w) PROVE message[n] = "SENT"
      <4>1. w = v
        BY <1>2, <2>2, <3>1, ReadCall
      <4>2. First(n).of = n
        BY RowNames
      <4>3. message[call[v].row.of] = "SENT"
        BY <1>2, <3>1, <4>1, ReadCall
      <4>4. call[v].row.of = n
        BY <3>0, <4>2
      <4> QED
        BY <4>3, <4>4
    <3>2. ASSUME NEW w \in Workers, Steps(w) PROVE FALSE
      <4>1. w = v
        BY <1>2, <2>2, <3>2, StepsCall
      <4> QED
        BY <1>2, <2>2, <3>0, <3>2, <4>1, RowNames, StepFacts
           DEF Steps, ReadAlbum, ReadConfig, MarkProcessing, Accepted, AnswerLost, Refused, First
    <3>3. ASSUME NEW w \in Workers, Ends(w) PROVE FALSE
      BY <1>2, <2>2, <3>3, EndsCall
    <3>4. ASSUME NEW w \in Workers, NEW r \in Rows, Claim(w, r) PROVE FALSE
      BY <1>2, <2>2, <3>4, ClaimCall
    <3>5. ASSUME Aged \/ Asked PROVE FALSE
      BY <1>2, <2>2, <3>5 DEF Aged, Asked, RecoverRow, Lapse, TimePasses, OperatorRetry, Cancel, CrmRetry,
                              Update, QueueAction, SetMenu
    <3>6. message[n] = "SENT"
      BY <3>1, <3>2, <3>3, <3>4, <3>5, NextCases
    <3> QED
      BY <1>0, <3>6, DeliveredStays DEF RuleFacts, SentInv
  <2> QED
    BY <1>2, <2>1, <2>2, CallStep DEF CallMoves, Claims, Advances
<1> QED
  BY <1>1, <1>2 DEF SentInv, SkipInv

LEMMA CopyNext == TypeOK /\ RuleFacts /\ Next => CopyInv'
<1> SUFFICES ASSUME TypeOK, RuleFacts, Next, NEW v \in Workers, NEW n \in Occurrences,
                    call'[v].row = First(n), call'[v].step \notin {"idle", "claimed", "skip"},
                    First(n) \notin raced'
             PROVE  call'[v].repeats = repeats'[n]
  BY DEF CopyInv
<1>0. MenuInv /\ CallInv /\ First(n) \notin raced /\ n \in Messages
  BY HistoryGrows, RowNames DEF RuleFacts, RowsInv
<1>1. call'[v].step # "idle" /\ call'[v].row = call[v].row /\ call[v].step # "idle"
      /\ outbox[First(n)] # "NONE"
  BY <1>0, CallStep DEF CallMoves, Claims, Advances, CallInv
<1>2. CASE call[v].step \notin {"idle", "claimed", "skip"}
  <2>1. call[v].repeats = repeats[n]
    BY <1>0, <1>1, <1>2 DEF RuleFacts, CopyInv
  <2>2. call'[v].repeats = call[v].repeats
    BY <1>1, <1>2, CallStep DEF CallMoves, Claims, Advances
  <2>3. HasRead(First(n))
    BY <1>1, <1>2 DEF HasRead, Calls
  <2> QED
    BY <1>0, <1>1, <2>1, <2>2, <2>3, RuleStep
<1>3. CASE call[v].step \in {"claimed", "skip"}
  <2>0. call'[v].step # call[v].step /\ call[v].step = "claimed"
    BY <1>1, <1>3, CallStep DEF CallMoves, Claims, Advances
  <2>1. ASSUME NEW w \in Workers, ReadMessage(w) \/ ReadTarget(w) PROVE call'[v].repeats = repeats'[n]
    <3>1. w = v /\ Scheduled(First(n)) /\ First(n).of = n /\ First(n).kind = "first"
      BY <2>0, <2>1, ReadCall, RowNames DEF Scheduled
    <3>2. call'[v].repeats = repeats[n]
      BY <1>1, <2>1, <3>1, ReadCall
    <3> QED
      BY <2>1, <3>2 DEF ReadMessage, ReadTarget, scheduleVars
  <2>2. ASSUME NEW w \in Workers, Steps(w) PROVE FALSE
    <3>1. w = v
      BY <2>0, <2>2, StepsCall
    <3> QED
      BY <1>1, <2>0, <2>2, <3>1, RowNames
         DEF Steps, ReadAlbum, ReadConfig, MarkProcessing, Accepted, AnswerLost, Refused, First
  <2>3. ASSUME NEW w \in Workers, Ends(w) PROVE FALSE
    BY <1>1, <2>0, <2>3, EndsCall
  <2>4. ASSUME NEW w \in Workers, NEW r \in Rows, Claim(w, r) PROVE FALSE
    BY <2>0, <2>4, ClaimCall
  <2>5. CASE Aged \/ Asked
    BY <2>0, <2>5 DEF Aged, Asked, RecoverRow, Lapse, TimePasses, OperatorRetry, Cancel, CrmRetry,
                      Update, QueueAction, SetMenu
  <2> QED
    BY <2>1, <2>2, <2>3, <2>4, <2>5, NextCases
<1> QED
  BY <1>1, <1>2, <1>3

(* A delivery of the first row, unless it was excused before. *)
LEMMA DeliveryStep ==
    ASSUME TypeOK, RuleFacts, Next, NEW n \in Occurrences,
           outbox[First(n)] # "SUCCEEDED", outbox'[First(n)] = "SUCCEEDED", ~Exists(Again(n))
    PROVE  \E w \in Workers : call[w].row = First(n) /\ RecordMessage(w)
<1>0. First(n) \in Rows /\ First(n).kind = "first" /\ First(n) # First(Album) /\ MenuInv
  BY RowNames DEF RuleFacts, RowsInv
<1>1. PICK w \in Workers :
              /\ call[w].row = First(n)
              /\ RecordMessage(w) \/ RecordAlbum(w) \/ RecordAction(w) \/ (Finish(w) /\ Holds(w))
  BY <1>0, SuccessStep
<1>2. ~RecordAlbum(w) /\ ~RecordAction(w)
  BY <1>0, <1>1 DEF RecordAlbum, RecordAction
<1>3. ~(Finish(w) /\ Holds(w))
  <2> SUFFICES ASSUME Finish(w), Holds(w) PROVE FALSE
    OBVIOUS
  <2>1. call[w].step = "skip"
    BY <1>0, <1>1 DEF Finish
  <2> QED
    BY <1>1, <2>1 DEF RuleFacts, SkipInv, Delivered
<1> QED
  BY <1>1, <1>2, <1>3

LEMMA AgainStays ==
    ASSUME TypeOK, MenuInv, Next, NEW n \in Occurrences, ~Exists(Again(n))'
    PROVE  ~Exists(Again(n))
<1>1. Again(n) \in Rows
  BY RowNames
<1>2. RowMoves(Again(n))
  BY <1>1, RowStep
<1> QED
  BY <1>2 DEF RowMoves, Exists

LEMMA ClosedNext == TypeOK /\ RuleFacts /\ Next => ClosedInv'
<1> SUFFICES ASSUME TypeOK, RuleFacts, Next, NEW n \in Occurrences,
                    outbox'[First(n)] = "SUCCEEDED", ~Exists(Again(n))', record'[n] \in Open
             PROVE  FALSE
  BY DEF ClosedInv
<1>0. ~Exists(Again(n)) /\ n \in Messages /\ First(n).kind = "first" /\ First(n).of = n
  BY AgainStays, RowNames DEF RuleFacts, RowsInv
<1>1. CASE outbox[First(n)] = "SUCCEEDED"
  BY <1>0, <1>1, OpenStep DEF RuleFacts, ClosedInv
<1>2. CASE outbox[First(n)] # "SUCCEEDED"
  <2>1. PICK w \in Workers : call[w].row = First(n) /\ RecordMessage(w)
    BY <1>0, <1>2, DeliveryStep
  <2>2. n # n + 1 /\ Scheduled(First(n))
    BY <1>0, RowNames DEF Scheduled
  <2> QED
    BY <1>0, <2>1, <2>2 DEF RecordMessage, TypeOK, Open
<1> QED
  BY <1>1, <1>2

LEMMA FollowsNext == TypeOK /\ RuleFacts /\ Next => SeriesFollowsRule'
<1> SUFFICES ASSUME TypeOK, RuleFacts, Next, NEW n \in Occurrences \ {Last},
                    outbox'[First(n)] = "SUCCEEDED", First(n) \notin raced', ~Exists(Again(n))'
             PROVE  repeats'[n] <=> outbox'[First(n + 1)] # "NONE"
  BY DEF SeriesFollowsRule, Exists
<1>0. /\ ~Exists(Again(n)) /\ n \in Messages /\ First(n).kind = "first" /\ First(n).of = n
      /\ First(n) \notin raced /\ MenuInv /\ CallInv
  BY AgainStays, HistoryGrows, RowNames DEF RuleFacts, RowsInv
<1>1. /\ n + 1 \in Occurrences /\ First(n + 1) \in Rows /\ n + 1 - 1 = n /\ n < Last /\ n + 1 > 1
      /\ First(n + 1).kind = "first" /\ First(n + 1).of = n + 1
  <2>1. n + 1 \in Occurrences /\ n + 1 - 1 = n /\ n < Last /\ n + 1 > 1
    BY TelegramAssumption DEF Occurrences
  <2> QED
    BY <2>1, RowNames
<1>2. CASE outbox[First(n)] = "SUCCEEDED"
  <2>1. repeats[n] <=> outbox[First(n + 1)] # "NONE"
    BY <1>0, <1>2 DEF RuleFacts, SeriesFollowsRule, Exists
  <2>2. repeats'[n] = repeats[n]
    BY <1>0, <1>2, RuleStep DEF RuleFacts, ClosedInv, Open
  <2>3. outbox[First(n + 1)] # "NONE" => outbox'[First(n + 1)] # "NONE"
    <3>1. RowMoves(First(n + 1))
      BY <1>0, <1>1, RowStep
    <3> QED
      BY <3>1 DEF RowMoves
  <2>4. ASSUME outbox[First(n + 1)] = "NONE", outbox'[First(n + 1)] # "NONE" PROVE FALSE
    <3>1. PICK w \in Workers : /\ RecordMessage(w) /\ MakesNext(w)
                               /\ call[w].row.of + 1 = n + 1 /\ call[w].row = First(call[w].row.of)
      BY <1>0, <1>1, <2>4, AppearStep
    <3>2. call[w].row \in Rows /\ call[w].row.of \in Messages
      BY <3>1, RowNames DEF TypeOK, MakesNext, Scheduled
    <3>3. call[w].row.of = n
      <4>1. Messages \subseteq Nat
        BY DEF Messages, Occurrences, Album
      <4>2. call[w].row.of \in Nat /\ n \in Nat
        BY <1>0, <3>2, <4>1
      <4> QED
        BY <3>1, <4>2
    <3> QED
      BY <1>2, <3>1, <3>3 DEF RecordMessage, Holds
  <2> QED
    BY <2>1, <2>2, <2>3, <2>4
<1>3. CASE outbox[First(n)] # "SUCCEEDED"
  <2>1. PICK w \in Workers : call[w].row = First(n) /\ RecordMessage(w)
    BY <1>0, <1>3, DeliveryStep
  <2>2. outbox[First(n + 1)] = "NONE"
    <3>1. PICK m \in Occurrences : m = n + 1
      BY <1>1
    <3>2. m > 1 /\ m - 1 = n
      BY <1>1, <3>1
    <3>3. Exists(First(m)) => outbox[First(n)] = "SUCCEEDED"
      BY <3>2 DEF RuleFacts, RowsInv, SeriesAdvances
    <3> QED
      BY <1>3, <3>1, <3>3 DEF Exists
  <2>3. call[w].repeats = repeats[n]
    BY <1>0, <2>1 DEF RecordMessage, RuleFacts, CopyInv
  <2>4. Scheduled(First(n)) /\ First(n + 1) # First(n) /\ n # n + 1
    BY <1>0, <1>1, RowNames DEF Scheduled
  <2>5. MakesNext(w) <=> call[w].repeats
    BY <1>0, <1>1, <2>1, <2>2, <2>4 DEF MakesNext, Exists
  <2>6. repeats'[n] = repeats[n]
    BY <1>0, <2>1, <2>4 DEF RecordMessage
  <2>7. outbox'[First(n + 1)] # "NONE" <=> MakesNext(w)
    BY <1>0, <1>1, <2>1, <2>2, <2>4 DEF RecordMessage
  <2> QED
    BY <2>3, <2>5, <2>6, <2>7
<1> QED
  BY <1>2, <1>3

LEMMA RuleInit == Init => RuleFacts
<1> SUFFICES ASSUME Init PROVE RuleFacts
  OBVIOUS
<1>1. (\A w \in Workers : call[w].step = "idle") /\ (\A n \in Messages : message[n] # "SENT")
      /\ \A n \in Messages : outbox[First(n)] # "SUCCEEDED"
  BY RowNames DEF Init, NoCall
<1> QED
  BY <1>1, RowsInit, RowNames DEF RuleFacts, CopyInv, SentInv, SkipInv, ClosedInv, SeriesFollowsRule

LEMMA RuleNext == TypeOK /\ RuleFacts /\ [Next]_vars => RuleFacts'
<1>1. ASSUME TypeOK, RuleFacts, Next PROVE RuleFacts'
  <2>1. RowsInv'
    BY <1>1, RowsNext DEF RuleFacts
  <2> QED
    BY <1>1, <2>1, SentInvNext, CopyNext, ClosedNext, FollowsNext DEF RuleFacts
<1>2. ASSUME TypeOK, RuleFacts, UNCHANGED vars PROVE RuleFacts'
  <2>1. RowsInv'
    BY <1>2, RowsNext DEF RuleFacts
  <2> QED
    BY <1>2, <2>1 DEF RuleFacts, CopyInv, SentInv, SkipInv, ClosedInv, SeriesFollowsRule, Delivered, Exists,
                      vars, rowVars, scheduleVars, historyVars
<1> QED
  BY <1>1, <1>2

LEMMA RuleFactsHold == Spec => [](TypeOK /\ RuleFacts)
<1>1. Init => TypeOK /\ RuleFacts
  BY TypeInit, RuleInit
<1>2. (TypeOK /\ RuleFacts) /\ [Next]_vars => (TypeOK /\ RuleFacts)'
  BY TypeNext, RuleNext
<1> QED
  BY <1>1, <1>2, PTL DEF Spec

(* The series goes on exactly when its rule says so, unless the rule changed
   under a worker that had read it. *)
THEOREM TelegramSeriesFollowsRule == Spec => []SeriesFollowsRule
<1>1. RuleFacts => SeriesFollowsRule
  BY DEF RuleFacts
<1> QED
  BY <1>1, RuleFactsHold, PTL
(* An album is SENT with its row, and a delivered schedule is shown so. *)
AlbumInv ==
    /\ outbox[First(Album)] = "SUCCEEDED" <=> record[Album] = "SENT"
    /\ record[Album] = "SENT" => message[Album] = "SENT"
    /\ \A w \in Workers : call[w].row = First(Album) /\ call[w].step = "skip" => record[Album] = "SENT"
Clean(n) == First(n) \notin slow /\ ~Exists(Again(n))
ShownInv ==
    \A n \in Occurrences : Clean(n) =>
        /\ outbox[First(n)] = "SUCCEEDED" => message[n] = "SENT" /\ record[n] \in {"SENT", "CANCELLED"}
        /\ outbox[First(n)] \in Live => record[n] \in Open \cup {"CANCELLED"}
ShownFacts == RuleFacts /\ OwnerInv /\ AlbumInv /\ ShownInv

LEMMA AlbumStep ==
    ASSUME TypeOK, AlbumInv, Next
    PROVE  /\ record'[Album] = "SENT" <=> record[Album] = "SENT" \/ \E w \in Workers : RecordAlbum(w)
           /\ record'[Album] = "SENT" => message'[Album] = "SENT"
<1>0. Album \in Messages /\ Album \notin Occurrences /\ First(Album) \in Rows
      /\ First(Album).kind = "first" /\ First(Album).of = Album
  BY RowNames
<1>1. ASSUME NEW w \in Workers, RecordMessage(w)
      PROVE  record'[Album] = record[Album] /\ message'[Album] = message[Album]
  <2>1. call[w].row.of # Album /\ call[w].row.of + 1 # Album
    BY <1>1, RowNames DEF RecordMessage, IsMessage, TypeOK, Album, Messages, Occurrences
  <2> QED
    BY <1>0, <1>1, <2>1 DEF RecordMessage, TypeOK
<1>2. ASSUME NEW w \in Workers, Fail(w)
      PROVE  /\ record'[Album] = "SENT" <=> record[Album] = "SENT"
             /\ record'[Album] = "SENT" => message'[Album] = "SENT"
  BY <1>0, <1>2 DEF Fail, IsMessage, TypeOK, AlbumInv, Open
<1>3. ASSUME NEW w \in Workers, MarkProcessing(w)
      PROVE  /\ record'[Album] = "SENT" <=> record[Album] = "SENT"
             /\ message' = message
  BY <1>0, <1>3 DEF MarkProcessing, TypeOK
<1>4. ASSUME NEW w \in Workers, RecordAlbum(w)
      PROVE  record'[Album] = "SENT" /\ message'[Album] = "SENT"
  BY <1>0, <1>4 DEF RecordAlbum, TypeOK
<1>5. ASSUME NEW r \in Rows, OperatorRetry(r)
      PROVE  /\ record'[Album] = "SENT" <=> record[Album] = "SENT"
             /\ record'[Album] = "SENT" => message'[Album] = "SENT"
  <2>1. Scheduled(r) => r.of # Album
    BY DEF Scheduled
  <2>2. HasRecord(r) /\ r.of = Album => record[Album] # "SENT"
    BY <1>5, RowNames DEF HasRecord, OperatorRetry, AlbumInv
  <2> QED
    BY <1>0, <1>5, <2>1, <2>2 DEF OperatorRetry, TypeOK, AlbumInv
<1>6. ASSUME NEW n \in Occurrences, Cancel(n)
      PROVE  record'[Album] = record[Album] /\ message'[Album] = message[Album]
  BY <1>0, <1>6 DEF Cancel, TypeOK
<1>7. ASSUME UNCHANGED <<record, message>>, ~\E w \in Workers : RecordAlbum(w)
      PROVE  /\ record'[Album] = "SENT" <=> record[Album] = "SENT" \/ \E w \in Workers : RecordAlbum(w)
             /\ record'[Album] = "SENT" => message'[Album] = "SENT"
  BY <1>7 DEF AlbumInv
<1>8. CASE \E w \in Workers : RecordAlbum(w)
  BY <1>4, <1>8
<1>9. CASE ~\E w \in Workers : RecordAlbum(w)
  BY <1>1, <1>2, <1>3, <1>5, <1>6, <1>7, <1>9, NextSplit, ZenonT(60)
     DEF AlbumInv, Works, Claim, ReadMessage, ReadAlbum, ReadTarget, ReadConfig, Accepted, AnswerLost,
         Refused, RecordAction, Finish, RecordTooLate, Crash, Aged, Asked, RecoverRow, Lapse, TimePasses,
         CrmRetry, Update, QueueAction, SetMenu, scheduleVars
<1> QED
  BY <1>8, <1>9

LEMMA AlbumNext == TypeOK /\ MenuInv /\ AlbumInv /\ Next => AlbumInv'
<1> SUFFICES ASSUME TypeOK, MenuInv, AlbumInv, Next PROVE AlbumInv'
  OBVIOUS
<1>0. First(Album) \in Rows /\ First(Album).kind = "first" /\ First(Album).of = Album
  BY RowNames
<1>1. record'[Album] = "SENT" => message'[Album] = "SENT"
  BY AlbumStep
<1>2. ASSUME record'[Album] = "SENT" PROVE outbox'[First(Album)] = "SUCCEEDED"
  <2>1. CASE record[Album] = "SENT"
    <3>1. RowMoves(First(Album)) /\ outbox[First(Album)] = "SUCCEEDED"
      BY <1>0, <2>1, RowStep DEF AlbumInv
    <3> QED
      BY <3>1 DEF RowMoves, Live
  <2>2. ASSUME NEW w \in Workers, RecordAlbum(w) PROVE outbox'[First(Album)] = "SUCCEEDED"
    BY <1>0, <2>2 DEF RecordAlbum, Release, TypeOK
  <2> QED
    BY <1>2, <2>1, <2>2, AlbumStep
<1>3. ASSUME outbox'[First(Album)] = "SUCCEEDED" PROVE record'[Album] = "SENT"
  <2>1. CASE outbox[First(Album)] = "SUCCEEDED"
    BY <2>1, AlbumStep DEF AlbumInv
  <2>2. CASE outbox[First(Album)] # "SUCCEEDED"
    <3>1. PICK w \in Workers :
              /\ call[w].row = First(Album)
              /\ RecordMessage(w) \/ RecordAlbum(w) \/ RecordAction(w) \/ (Finish(w) /\ Holds(w))
      BY <1>0, <1>3, <2>2, SuccessStep
    <3>2. CASE RecordAlbum(w)
      BY <3>2, AlbumStep
    <3>3. ~RecordMessage(w) /\ ~RecordAction(w)
      BY <1>0, <3>1 DEF RecordMessage, RecordAction, IsMessage
    <3>4. CASE Finish(w) /\ Holds(w)
      BY <1>0, <2>2, <3>1, <3>4 DEF Finish, AlbumInv
    <3> QED
      BY <3>1, <3>2, <3>3, <3>4
  <2> QED
    BY <2>1, <2>2
<1>4. ASSUME NEW v \in Workers, call'[v].row = First(Album), call'[v].step = "skip"
      PROVE  record'[Album] = "SENT"
  <2>1. CASE call'[v] = call[v]
    BY <1>4, <2>1, AlbumStep DEF AlbumInv
  <2>2. CASE Advances(v) /\ call[v].step = "claimed"
    <3>0. call[v].row = First(Album)
      BY <1>4, <2>2 DEF Advances
    <3>1. ASSUME NEW w \in Workers, ReadMessage(w) \/ ReadTarget(w) PROVE FALSE
      <4>1. w = v
        BY <1>4, <2>2, <3>1, ReadCall
      <4> QED
        BY <1>0, <3>0, <3>1, <4>1 DEF ReadMessage, ReadTarget, IsMessage
    <3>2. ASSUME NEW w \in Workers, Steps(w) PROVE record[Album] = "SENT"
      <4>1. w = v
        BY <1>4, <2>2, <3>2, StepsCall
      <4>2. ReadAlbum(v)
        BY <1>0, <2>2, <3>0, <3>2, <4>1 DEF Steps, ReadConfig, MarkProcessing, Accepted, AnswerLost, Refused
      <4> QED
        BY <1>4, <4>2, StepFacts DEF ReadAlbum
    <3>3. ASSUME NEW w \in Workers, Ends(w) PROVE FALSE
      BY <1>4, <2>2, <3>3, EndsCall
    <3>4. ASSUME NEW w \in Workers, NEW r \in Rows, Claim(w, r) PROVE FALSE
      BY <1>4, <2>2, <3>4, ClaimCall
    <3>5. ASSUME Aged \/ Asked PROVE FALSE
      BY <1>4, <2>2, <3>5 DEF Aged, Asked, RecoverRow, Lapse, TimePasses, OperatorRetry, Cancel, CrmRetry,
                              Update, QueueAction, SetMenu
    <3>6. record[Album] = "SENT"
      BY <3>1, <3>2, <3>3, <3>4, <3>5, NextCases
    <3> QED
      BY <3>6, AlbumStep
  <2> QED
    BY <1>4, <2>1, <2>2, CallStep DEF CallMoves, Claims, Advances
<1> QED
  BY <1>1, <1>2, <1>3, <1>4 DEF AlbumInv
LEMMA CleanBefore ==
    ASSUME TypeOK, MenuInv, Next, NEW n \in Occurrences, Clean(n)'
    PROVE  Clean(n)
BY AgainStays, HistoryGrows DEF Clean

Agrees(n) ==
    /\ outbox[First(n)] = "SUCCEEDED" => message[n] = "SENT" /\ record[n] \in {"SENT", "CANCELLED"}
    /\ outbox[First(n)] \in Live => record[n] \in Open \cup {"CANCELLED"}

LEMMA FailAgrees ==
    ASSUME TypeOK, RowsInv, OwnerInv, NEW n \in Occurrences, Clean(n), Agrees(n),
           NEW w \in Workers, Fail(w)
    PROVE  Agrees(n)'
<1>0. n \in Messages /\ n # Album /\ First(n) \in Rows /\ Again(n) \in Rows
      /\ First(n).kind = "first" /\ First(n).of = n
  BY RowNames
<1>1. CASE call[w].row = First(n)
  <2>1. Holds(w) /\ outbox[First(n)] = "PROCESSING"
    BY <1>1 DEF Fail, OwnerInv, Clean, Holds
  <2> DEFINE again == call[w].step = "retry" /\ ~call[w].last
  <2>2. outbox'[First(n)] = IF again THEN "RETRY" ELSE "FAILED"
    BY <1>0, <1>1, <2>1 DEF Fail, Release, TypeOK
  <2>3. record'[n] = IF record[n] \in Open THEN IF again THEN "QUEUED" ELSE "FAILED" ELSE record[n]
    BY <1>0, <1>1 DEF Fail, HasRecord, TypeOK
  <2>4. record[n] \in Open \cup {"CANCELLED"}
    BY <2>1 DEF Agrees, Live
  <2> HIDE DEF again
  <2> QED
    BY <2>2, <2>3, <2>4 DEF Agrees, Live, Open
<1>2. CASE call[w].row # First(n)
  <2>1. call[w].row # Again(n) /\ call[w].row \in Rows
    BY <1>2 DEF Fail, RowsInv, CallInv, Clean, Exists, TypeOK
  <2>2. ~(call[w].row.kind \in {"first", "again"} /\ call[w].row.of = n)
    BY <1>2, <2>1, RowNames
  <2>3. record'[n] = record[n] /\ message'[n] = message[n]
    BY <1>0, <2>2 DEF Fail, IsMessage, HasRecord, TypeOK
  <2>4. outbox'[First(n)] = outbox[First(n)]
    BY <1>0, <1>2 DEF Fail, Release, TypeOK
  <2> QED
    BY <2>3, <2>4 DEF Agrees
<1> QED
  BY <1>1, <1>2

LEMMA RecordAgrees ==
    ASSUME TypeOK, RowsInv, NEW n \in Occurrences, Clean(n), Agrees(n),
           NEW w \in Workers, RecordMessage(w)
    PROVE  Agrees(n)'
<1>0. n \in Messages /\ n # Album /\ First(n) \in Rows /\ Again(n) \in Rows
      /\ First(n).kind = "first" /\ First(n).of = n /\ Scheduled(First(n)) /\ n # n + 1
  BY RowNames DEF Scheduled
<1>1. CASE call[w].row = First(n)
  <2>1. outbox[First(n)] = "PROCESSING"
    BY <1>1 DEF RecordMessage, Holds
  <2>2. outbox'[First(n)] = "SUCCEEDED" /\ message'[n] = "SENT"
    BY <1>0, <1>1 DEF RecordMessage, TypeOK
  <2>3. record'[n] = IF record[n] \in Open THEN "SENT" ELSE record[n]
    BY <1>0, <1>1 DEF RecordMessage, TypeOK
  <2> QED
    BY <2>1, <2>2, <2>3 DEF Agrees, Live
<1>2. CASE MakesNext(w) /\ call[w].row.of + 1 = n /\ call[w].row # First(n)
  <2>1. outbox'[First(n)] = "PENDING" /\ record'[n] = "QUEUED"
    BY <1>0, <1>2 DEF RecordMessage
  <2> QED
    BY <2>1 DEF Agrees, Open, Live
<1>3. CASE call[w].row # First(n) /\ ~(MakesNext(w) /\ call[w].row.of + 1 = n)
  <2>1. call[w].row # Again(n) /\ call[w].row \in Rows
    BY <1>3 DEF RecordMessage, RowsInv, CallInv, Clean, Exists, TypeOK
  <2>2. call[w].row.of # n
    BY <1>3, <2>1, RowNames DEF RecordMessage, IsMessage
  <2>3. record'[n] = record[n] /\ message'[n] = message[n]
    BY <1>0, <1>3, <2>2 DEF RecordMessage, TypeOK
  <2>4. outbox'[First(n)] = outbox[First(n)]
    BY <1>0, <1>3 DEF RecordMessage
  <2> QED
    BY <2>3, <2>4 DEF Agrees
<1> QED
  BY <1>1, <1>2, <1>3

LEMMA ShownNext == TypeOK /\ ShownFacts /\ Next => ShownInv'
<1> SUFFICES ASSUME TypeOK, ShownFacts, Next, NEW n \in Occurrences, Clean(n)' PROVE Agrees(n)'
  BY DEF ShownInv, Agrees
<1>0. /\ n \in Messages /\ n # Album /\ First(n) \in Rows /\ First(n).kind = "first" /\ First(n).of = n
      /\ RowsInv /\ MenuInv /\ OwnerInv
  BY RowNames DEF ShownFacts, RuleFacts, RowsInv
<1>1. Clean(n) /\ Agrees(n)
  BY <1>0, CleanBefore DEF ShownFacts, ShownInv, Agrees
<1>2. ASSUME record'[n] = record[n] \/ (record[n] = "QUEUED" /\ record'[n] = "PROCESSING"),
             message'[n] = message[n],
             \/ outbox'[First(n)] = outbox[First(n)]
             \/ outbox[First(n)] \in Live /\ outbox'[First(n)] \in Live
      PROVE  Agrees(n)'
  BY <1>1, <1>2 DEF Agrees, Open, Live
<1>3. ASSUME NEW w \in Workers, Works(w) PROVE Agrees(n)'
  <2>1. CASE RecordMessage(w)
    BY <1>0, <1>1, <2>1, RecordAgrees
  <2>2. CASE Fail(w)
    BY <1>0, <1>1, <2>2, FailAgrees
  <2>3. CASE MarkProcessing(w)
    BY <1>0, <1>2, <2>3 DEF MarkProcessing, TypeOK, rowVars
  <2>4. CASE RecordAlbum(w)
    <3>1. First(Album) # First(n)
      BY <1>0, RowNames
    <3> QED
      BY <1>0, <1>2, <2>4, <3>1 DEF RecordAlbum, Release, TypeOK
  <2>5. CASE RecordAction(w)
    <3>1. call[w].row # First(n)
      BY <1>0, <2>5 DEF RecordAction
    <3> QED
      BY <1>0, <1>2, <2>5, <3>1 DEF RecordAction, Release, TypeOK, scheduleVars
  <2>6. CASE Finish(w)
    <3>1. call[w].row # First(n)
      <4> SUFFICES ASSUME call[w].row = First(n) PROVE FALSE
        OBVIOUS
      <4>1. call[w].step = "skip"
        BY <1>0, <2>6 DEF Finish
      <4>2. Delivered(n) /\ Holds(w)
        BY <1>1, <4>1 DEF ShownFacts, RuleFacts, SkipInv, OwnerInv, Clean
      <4> QED
        BY <1>1, <4>2 DEF Delivered, Clean, Holds
    <3> QED
      BY <1>0, <1>2, <2>6, <3>1 DEF Finish, Release, TypeOK, scheduleVars
  <2>7. CASE UNCHANGED <<rowVars, record, message>>
    BY <1>2, <2>7 DEF rowVars
  <2> QED
    BY <1>3, <2>1, <2>2, <2>3, <2>4, <2>5, <2>6, <2>7
       DEF Works, ReadMessage, ReadAlbum, ReadTarget, ReadConfig, Accepted, AnswerLost,
           Refused, RecordTooLate, Crash, scheduleVars
<1>4. ASSUME NEW w \in Workers, NEW r \in Rows, Claim(w, r) PROVE Agrees(n)'
  BY <1>0, <1>2, <1>4 DEF Claim, Due, Live, TypeOK, scheduleVars
<1>5. CASE Aged
  BY <1>0, <1>2, <1>5 DEF Aged, RecoverRow, Lapse, TimePasses, Live, TypeOK, scheduleVars, rowVars
<1>6. ASSUME NEW q \in Rows, OperatorRetry(q) PROVE Agrees(n)'
  <2>1. CASE q = First(n)
    <3>1. outbox'[First(n)] = "RETRY" /\ record'[n] = "QUEUED"
      BY <1>0, <1>6, <2>1 DEF OperatorRetry, HasRecord, TypeOK
    <3> QED
      BY <3>1 DEF Agrees, Open, Live
  <2>2. CASE q # First(n)
    <3>1. ~(q.kind = "first" /\ q.of = n)
      BY <2>2, RowNames
    <3>2. record'[n] = record[n] /\ message'[n] = message[n] /\ outbox'[First(n)] = outbox[First(n)]
      BY <1>0, <1>6, <2>2, <3>1 DEF OperatorRetry, HasRecord, Scheduled, TypeOK
    <3> QED
      BY <1>2, <3>2
  <2> QED
    BY <2>1, <2>2
<1>7. ASSUME NEW m \in Occurrences, Cancel(m) PROVE Agrees(n)'
  <2>1. CASE m = n
    <3>1. record[n] = "QUEUED" /\ record'[n] = "CANCELLED"
          /\ outbox'[First(n)] = IF outbox[First(n)] = "PENDING" THEN "FAILED" ELSE outbox[First(n)]
      BY <1>0, <1>7, <2>1 DEF Cancel, TypeOK
    <3> QED
      BY <1>1, <3>1 DEF Agrees, Open, Live
  <2>2. CASE m # n
    <3>1. First(m) # First(n)
      BY <1>0, <2>2, RowNames
    <3> QED
      BY <1>0, <1>2, <1>7, <2>2, <3>1 DEF Cancel, TypeOK
  <2> QED
    BY <2>1, <2>2
<1>8. ASSUME NEW m \in Occurrences, CrmRetry(m) PROVE Agrees(n)'
  <2>1. Again(m) # First(n)
    BY <1>0, RowNames
  <2> QED
    BY <1>0, <1>2, <1>8, <2>1 DEF CrmRetry, TypeOK, scheduleVars
<1>9. ASSUME NEW a \in Actions, QueueAction(a) PROVE Agrees(n)'
  <2>1. Act(a) # First(n)
    BY <1>0, RowNames
  <2> QED
    BY <1>0, <1>2, <1>9, <2>1 DEF QueueAction, TypeOK, scheduleVars
<1>10. CASE SetMenu
  <2>1. \A m : Menu(m) # First(n)
    BY DEF Menu, First
  <2> QED
    BY <1>0, <1>2, <1>10, <2>1 DEF SetMenu, TypeOK, scheduleVars
<1>11. ASSUME NEW m \in Occurrences, NEW rule \in BOOLEAN, NEW time \in {at[m], "ahead"},
              Update(m, rule, time)
       PROVE  Agrees(n)'
  BY <1>2, <1>11 DEF Update, rowVars
<1> QED
  BY <1>3, <1>4, <1>5, <1>6, <1>7, <1>8, <1>9, <1>10, <1>11, NextSplit DEF Asked

LEMMA ShownInit == Init => ShownFacts
<1> SUFFICES ASSUME Init PROVE ShownFacts
  OBVIOUS
<1>1. RuleFacts /\ OwnerInv
  BY RuleInit, SentInit DEF SentFacts
<1>2. AlbumInv
  BY RowNames DEF Init, AlbumInv, NoCall
<1>3. ASSUME NEW n \in Occurrences PROVE Agrees(n)
  <2>1. n \in Messages /\ First(n) \in Rows /\ outbox[First(n)] # "SUCCEEDED"
    BY RowNames DEF Init
  <2>2. CASE \E m \in {1} : n = m /\ topic = "series"
    <3>1. record[n] = "QUEUED"
      BY <2>1, <2>2 DEF Init
    <3> QED
      BY <2>1, <3>1 DEF Agrees, Open
  <2>3. CASE ~\E m \in {1} : n = m /\ topic = "series"
    <3>1. First(n) # First(Album) /\ (n # 1 => First(n) # First(1)) /\ n # Album
      BY RowNames DEF First, Album, Occurrences
    <3>2. outbox[First(n)] = "NONE"
      BY <2>1, <2>3, <3>1 DEF Init
    <3> QED
      BY <3>2 DEF Agrees, Live
  <2> QED
    BY <2>2, <2>3
<1>4. ShownInv
  BY <1>3 DEF ShownInv, Agrees
<1> QED
  BY <1>1, <1>2, <1>4 DEF ShownFacts

LEMMA ShownFactsNext == TypeOK /\ ShownFacts /\ [Next]_vars => ShownFacts'
<1>1. ASSUME TypeOK, ShownFacts, Next PROVE ShownFacts'
  BY <1>1, RuleNext, OwnerNext, AlbumNext, ShownNext DEF ShownFacts, RuleFacts, RowsInv
<1>2. ASSUME TypeOK, ShownFacts, UNCHANGED vars PROVE ShownFacts'
  <2>1. RuleFacts'
    BY <1>2, RuleNext DEF ShownFacts
  <2>2. OwnerInv'
    BY <1>2 DEF ShownFacts, OwnerInv, Holds, vars, rowVars, historyVars
  <2>3. AlbumInv' /\ ShownInv'
    BY <1>2 DEF ShownFacts, AlbumInv, ShownInv, Clean, Exists, vars, rowVars, scheduleVars, historyVars
  <2> QED
    BY <2>1, <2>2, <2>3 DEF ShownFacts
<1> QED
  BY <1>1, <1>2

LEMMA ShownFactsHold == Spec => [](TypeOK /\ ShownFacts)
<1>1. Init => TypeOK /\ ShownFacts
  BY TypeInit, ShownInit
<1>2. (TypeOK /\ ShownFacts) /\ [Next]_vars => (TypeOK /\ ShownFacts)'
  BY TypeNext, ShownFactsNext
<1> QED
  BY <1>1, <1>2, PTL DEF Spec

(* What the CRM is told of a delivered row stays true, whatever a second call,
   a crash or a late request does, except in the two cases the property names. *)
THEOREM TelegramDeliveredIsShown == Spec => []DeliveredIsShown
<1>1. TypeOK /\ ShownFacts => DeliveredIsShown
  BY DEF ShownFacts, AlbumInv, ShownInv, Clean, DeliveredIsShown
<1> QED
  BY <1>1, ShownFactsHold, PTL
-----------------------------------------------------------------------------
(* Actions on one message, and the bot's menu. *)

LEMMA ActNames ==
    ASSUME NEW a \in Actions
    PROVE  /\ Act(a) \in Rows /\ Act(a).kind = "action" /\ Act(a).of = a
           /\ \A b \in Actions : Act(a) = Act(b) => a = b
<1>1. \A b \in Actions : Act(b) \in Rows /\ Act(b).kind = "action" /\ Act(b).of = b
  BY RowNames
<1> QED
  BY <1>1

(* Actions and settings are not read like a message; two actions that have both
   read overlapped, and what an action that SUCCEEDED did is in the copy of
   every other that has read. *)
ActStepInv ==
    \A w \in Workers : call[w].row.kind \in {"action", "menu"} => call[w].step \notin {"skip", "read"}
OverlapInv ==
    \A v, w \in Workers, a, b \in Actions :
        /\ call[v].row = Act(a) /\ call[v].step \notin {"idle", "claimed"}
        /\ call[w].row = Act(b) /\ call[w].step \notin {"idle", "claimed"}
        /\ a # b
        => Act(a) \in raced /\ Act(b) \in raced
CopiesInv ==
    \A w \in Workers, a, b \in Actions :
        /\ call[w].row = Act(a) /\ call[w].step \notin {"idle", "claimed"}
        /\ a # b /\ outbox[Act(b)] = "SUCCEEDED" /\ Act(b) \notin raced
        => b \in call[w].copy
ActionFacts == RowsInv /\ ActStepInv /\ OverlapInv /\ CopiesInv /\ ActionsKept

LEMMA ActStepNext == TypeOK /\ ActStepInv /\ Next => ActStepInv'
<1> SUFFICES ASSUME TypeOK, ActStepInv, Next, NEW v \in Workers,
                    call'[v].row.kind \in {"action", "menu"}, call'[v].step \in {"skip", "read"}
             PROVE  FALSE
  BY DEF ActStepInv
<1>1. CASE call'[v] = call[v]
  BY <1>1 DEF ActStepInv
<1>2. CASE Advances(v) /\ call[v].step = "claimed"
  <2>0. call[v].row = call'[v].row
    BY <1>2 DEF Advances
  <2>1. ASSUME NEW w \in Workers, ReadMessage(w) \/ ReadTarget(w) PROVE FALSE
    <3>1. w = v
      BY <1>2, <2>1, ReadCall
    <3> QED
      BY <2>0, <2>1, <3>1, ReadCall DEF IsMessage
  <2>2. ASSUME NEW w \in Workers, Steps(w) PROVE FALSE
    <3>1. w = v
      BY <1>2, <2>2, StepsCall
    <3>2. First(Album).kind = "first"
      BY RowNames
    <3> QED
      BY <1>2, <2>0, <2>2, <3>1, <3>2, StepFacts
         DEF Steps, ReadAlbum, ReadConfig, MarkProcessing, Accepted, AnswerLost, Refused
  <2>3. ASSUME NEW w \in Workers, Ends(w) PROVE FALSE
    BY <1>2, <2>3, EndsCall
  <2>4. ASSUME NEW w \in Workers, NEW r \in Rows, Claim(w, r) PROVE FALSE
    BY <1>2, <2>4, ClaimCall
  <2>5. ASSUME Aged \/ Asked PROVE FALSE
    BY <1>2, <2>5 DEF Aged, Asked, RecoverRow, Lapse, TimePasses, OperatorRetry, Cancel, CrmRetry,
                      Update, QueueAction, SetMenu
  <2> QED
    BY <2>1, <2>2, <2>3, <2>4, <2>5, NextCases
<1> QED
  BY <1>1, <1>2, CallStep DEF CallMoves, Claims, Advances

(* How the call of an action gets past its read: with the stored state, and
   racing every other action that has read. *)
LEMMA PastRead ==
    ASSUME TypeOK, Next, NEW v \in Workers, NEW a \in Actions,
           call'[v].row = Act(a), call'[v].step \notin {"idle", "claimed"}
    PROVE  \/ /\ call[v].row = Act(a) /\ call[v].step \notin {"idle", "claimed"}
              /\ call'[v].copy = call[v].copy
           \/ ReadTarget(v) /\ call[v].row = Act(a) /\ call'[v].copy = stored
<1>0. Act(a).kind = "action"
  BY RowNames
<1>1. call'[v].row = call[v].row /\ call[v].step # "idle"
  BY CallStep DEF CallMoves, Claims, Advances
<1>2. CASE call[v].step # "claimed"
  <2>1. call[v].step # "read" \/ call'[v] = call[v] \/ \E w \in Workers : Steps(w)
    <3>1. ASSUME NEW w \in Workers, ReadMessage(w) \/ ReadTarget(w) PROVE call'[v] = call[v]
      BY <1>2, <3>1, ReadCall
    <3>2. ASSUME NEW w \in Workers, Ends(w) PROVE call'[v] = call[v]
      <4>1. w # v
        BY <3>2, EndsCall
      <4> QED
        BY <3>2, <4>1, EndsCall
    <3>3. ASSUME NEW w \in Workers, NEW r \in Rows, Claim(w, r) PROVE call'[v] = call[v]
      <4>1. w # v
        BY <1>1, <3>3 DEF Claim
      <4> QED
        BY <3>3, <4>1, ClaimCall
    <3>4. ASSUME Aged \/ Asked PROVE call'[v] = call[v]
      BY <3>4 DEF Aged, Asked, RecoverRow, Lapse, TimePasses, OperatorRetry, Cancel, CrmRetry,
                  Update, QueueAction, SetMenu
    <3> QED
      BY <3>1, <3>2, <3>3, <3>4, NextCases
  <2>2. ASSUME NEW w \in Workers, Steps(w) PROVE call'[v].copy = call[v].copy
    BY <2>2, StepsCall
  <2>3. call'[v].copy = call[v].copy
    BY <1>1, <1>2, <2>1, <2>2, CallStep DEF CallMoves, Claims, Advances
  <2> QED
    BY <1>1, <1>2, <2>3
<1>3. CASE call[v].step = "claimed"
  <2>1. ASSUME NEW w \in Workers, ReadMessage(w) \/ ReadTarget(w)
        PROVE  ReadTarget(v) /\ call'[v].copy = stored
    <3>1. w = v
      BY <1>3, <2>1, ReadCall
    <3>2. ReadTarget(v)
      BY <1>0, <1>1, <2>1, <3>1 DEF ReadMessage, IsMessage
    <3> QED
      BY <3>2, ReadCall, <1>0, <1>1 DEF IsMessage
  <2>2. ASSUME NEW w \in Workers, Steps(w) PROVE FALSE
    <3>1. w = v
      BY <1>3, <2>2, StepsCall
    <3>2. First(Album).kind = "first"
      BY RowNames
    <3>3. call[v].row.kind = "action"
      BY <1>0, <1>1
    <3>4. ~ReadAlbum(v) /\ ~ReadConfig(v)
      BY <3>2, <3>3 DEF ReadAlbum, ReadConfig
    <3>5. ~MarkProcessing(v) /\ ~Accepted(v) /\ ~AnswerLost(v) /\ ~\E why \in {"retry", "final"} : Refused(v, why)
      BY <1>3 DEF MarkProcessing, Accepted, AnswerLost, Refused
    <3> QED
      BY <2>2, <3>1, <3>4, <3>5
         DEF Steps
  <2>3. ASSUME NEW w \in Workers, Ends(w) PROVE FALSE
    BY <1>3, <2>3, EndsCall
  <2>4. ASSUME NEW w \in Workers, NEW r \in Rows, Claim(w, r) PROVE FALSE
    <3>1. w # v
      BY <1>3, <2>4 DEF Claim
    <3> QED
      BY <1>3, <2>4, <3>1, ClaimCall
  <2>5. ASSUME Aged \/ Asked PROVE FALSE
    BY <1>3, <2>5 DEF Aged, Asked, RecoverRow, Lapse, TimePasses, OperatorRetry, Cancel, CrmRetry,
                      Update, QueueAction, SetMenu
  <2> QED
    BY <1>1, <2>1, <2>2, <2>3, <2>4, <2>5, NextCases
<1> QED
  BY <1>2, <1>3

LEMMA OverlapNext == TypeOK /\ OverlapInv /\ Next => OverlapInv'
<1> SUFFICES ASSUME TypeOK, OverlapInv, Next, NEW v \in Workers, NEW w \in Workers,
                    NEW a \in Actions, NEW b \in Actions, a # b,
                    call'[v].row = Act(a), call'[v].step \notin {"idle", "claimed"},
                    call'[w].row = Act(b), call'[w].step \notin {"idle", "claimed"}
             PROVE  Act(a) \in raced' /\ Act(b) \in raced'
  BY DEF OverlapInv
<1>0. Act(a) # Act(b) /\ v # w
  BY ActNames
<1>1. ASSUME NEW x \in Workers, NEW y \in Workers, NEW c \in Actions, NEW d \in Actions, c # d,
             x # y, ReadTarget(x), call[x].row = Act(c),
             call'[y].row = Act(d), call'[y].step \notin {"idle", "claimed"}
      PROVE  Act(c) \in raced' /\ Act(d) \in raced'
  <2>1. call'[y] = call[y] /\ Act(c) # Act(d)
    BY <1>1, ReadCall, ActNames
  <2>2. HasRead(Act(d))
    BY <1>1, <2>1 DEF HasRead, Calls
  <2> QED
    BY <1>1, <2>1, <2>2 DEF ReadTarget
<1>2. CASE ReadTarget(v) /\ call[v].row = Act(a)
  BY <1>0, <1>1, <1>2
<1>3. CASE ReadTarget(w) /\ call[w].row = Act(b)
  BY <1>0, <1>1, <1>3
<1>4. CASE /\ call[v].row = Act(a) /\ call[v].step \notin {"idle", "claimed"}
           /\ call[w].row = Act(b) /\ call[w].step \notin {"idle", "claimed"}
  BY <1>4, HistoryGrows DEF OverlapInv
<1> QED
  BY <1>2, <1>3, <1>4, PastRead

(* An action SUCCEEDS by RecordAction alone, which writes content and metadata
   from its copy; nothing else writes them. *)
LEMMA ActionDone ==
    ASSUME TypeOK, MenuInv, ActStepInv, Next, NEW a \in Actions,
           outbox[Act(a)] # "SUCCEEDED", outbox'[Act(a)] = "SUCCEEDED"
    PROVE  \E w \in Workers : call[w].row = Act(a) /\ RecordAction(w)
<1>0. Act(a) \in Rows /\ Act(a).kind = "action" /\ First(Album).kind = "first"
  BY RowNames
<1>1. PICK w \in Workers :
              /\ call[w].row = Act(a)
              /\ RecordMessage(w) \/ RecordAlbum(w) \/ RecordAction(w) \/ (Finish(w) /\ Holds(w))
  BY <1>0, SuccessStep
<1>2. ~RecordMessage(w) /\ ~RecordAlbum(w)
  BY <1>0, <1>1 DEF RecordMessage, RecordAlbum, IsMessage
<1>3. ~Finish(w)
  BY <1>0, <1>1 DEF Finish, ActStepInv
<1> QED
  BY <1>1, <1>2, <1>3

LEMMA StoredStep ==
    ASSUME Next
    PROVE  \/ stored' = stored
           \/ \E w \in Workers : RecordAction(w) /\ stored' = call[w].copy \cup {call[w].row.of}
BY NextSplit, ZenonT(60)
   DEF Works, Claim, ReadMessage, ReadAlbum, ReadTarget, ReadConfig, MarkProcessing, Accepted,
       AnswerLost, Refused, RecordMessage, RecordAlbum, RecordAction, Finish, RecordTooLate, Fail, Crash,
       Aged, Asked, RecoverRow, Lapse, TimePasses, OperatorRetry, Cancel, CrmRetry, Update,
       QueueAction, SetMenu, targetVars

LEMMA CopiesNext == TypeOK /\ ActionFacts /\ Next => CopiesInv'
<1> SUFFICES ASSUME TypeOK, ActionFacts, Next, NEW v \in Workers, NEW a \in Actions, NEW b \in Actions,
                    call'[v].row = Act(a), call'[v].step \notin {"idle", "claimed"},
                    a # b, outbox'[Act(b)] = "SUCCEEDED", Act(b) \notin raced'
             PROVE  b \in call'[v].copy
  BY DEF CopiesInv
<1>0. Act(b) \notin raced /\ Act(b) \in Rows /\ MenuInv /\ Act(b).kind = "action" /\ ActStepInv /\ OverlapInv
  BY HistoryGrows, RowNames DEF ActionFacts, RowsInv
<1>1. CASE outbox[Act(b)] = "SUCCEEDED"
  <2>1. b \in stored
    BY <1>0, <1>1 DEF ActionFacts, ActionsKept
  <2> QED
    BY <1>0, <1>1, <2>1, PastRead DEF ActionFacts, CopiesInv
<1>2. CASE outbox[Act(b)] # "SUCCEEDED"
  <2>1. PICK w \in Workers : call[w].row = Act(b) /\ RecordAction(w)
    BY <1>0, <1>2, ActionDone
  <2>2. w # v /\ call'[v] = call[v] /\ call[w].step = "answered"
    BY <2>1, EndsCall DEF RecordAction, Ends
  <2> QED
    BY <1>0, <2>1, <2>2 DEF OverlapInv
<1> QED
  BY <1>1, <1>2

LEMMA KeptNext == TypeOK /\ ActionFacts /\ Next => ActionsKept'
<1> SUFFICES ASSUME TypeOK, ActionFacts, Next, NEW b \in Actions,
                    outbox'[Act(b)] = "SUCCEEDED", Act(b) \notin raced'
             PROVE  b \in stored'
  BY DEF ActionsKept
<1>0. /\ Act(b) \notin raced /\ Act(b) \in Rows /\ MenuInv /\ Act(b).kind = "action" /\ Act(b).of = b
      /\ ActStepInv
  BY HistoryGrows, RowNames DEF ActionFacts, RowsInv
<1>1. CASE outbox[Act(b)] = "SUCCEEDED"
  <2>1. b \in stored
    BY <1>0, <1>1 DEF ActionFacts, ActionsKept
  <2>2. ASSUME NEW w \in Workers, RecordAction(w), stored' = call[w].copy \cup {call[w].row.of}
        PROVE  b \in stored'
    <3>1. PICK a \in Actions : call[w].row = Act(a) /\ call[w].row.of = a
      BY <2>2, RowNames DEF RecordAction, TypeOK
    <3>2. call[w].step = "answered"
      BY <2>2 DEF RecordAction
    <3>3. a # b => b \in call[w].copy
      BY <1>0, <1>1, <3>1, <3>2 DEF ActionFacts, CopiesInv
    <3> QED
      BY <2>2, <3>1, <3>3
  <2> QED
    BY <2>1, <2>2, StoredStep
<1>2. CASE outbox[Act(b)] # "SUCCEEDED"
  <2>1. PICK w \in Workers : call[w].row = Act(b) /\ RecordAction(w)
    BY <1>0, <1>2, ActionDone
  <2> QED
    BY <1>0, <2>1 DEF RecordAction
<1> QED
  BY <1>1, <1>2

LEMMA ActionInit == Init => ActionFacts
<1> SUFFICES ASSUME Init PROVE ActionFacts
  OBVIOUS
<1>1. \A w \in Workers : call[w].step = "idle"
  BY DEF Init, NoCall
<1>2. ASSUME NEW a \in Actions PROVE outbox[Act(a)] # "SUCCEEDED"
  BY RowNames DEF Init
<1> QED
  BY <1>1, <1>2, RowsInit DEF ActionFacts, ActStepInv, OverlapInv, CopiesInv, ActionsKept

LEMMA ActionFactsNext == TypeOK /\ ActionFacts /\ [Next]_vars => ActionFacts'
<1>1. ASSUME TypeOK, ActionFacts, Next PROVE ActionFacts'
  <2>1. RowsInv'
    BY <1>1, RowsNext DEF ActionFacts
  <2> QED
    BY <1>1, <2>1, ActStepNext, OverlapNext, CopiesNext, KeptNext DEF ActionFacts
<1>2. ASSUME TypeOK, ActionFacts, UNCHANGED vars PROVE ActionFacts'
  <2>1. RowsInv'
    BY <1>2, RowsNext DEF ActionFacts
  <2> QED
    BY <1>2, <2>1 DEF ActionFacts, ActStepInv, OverlapInv, CopiesInv, ActionsKept, vars, rowVars,
                      targetVars, historyVars
<1> QED
  BY <1>1, <1>2

(* What an action did to a message stays stored, unless two of them overlapped:
   every later action starts from a copy that has it. *)
THEOREM TelegramActionsKept == Spec => []ActionsKept
<1>1. Init => TypeOK /\ ActionFacts
  BY TypeInit, ActionInit
<1>2. (TypeOK /\ ActionFacts) /\ [Next]_vars => (TypeOK /\ ActionFacts)'
  BY TypeNext, ActionFactsNext
<1>3. ActionFacts => ActionsKept
  BY DEF ActionFacts
<1> QED
  BY <1>1, <1>2, <1>3, PTL DEF Spec
LEMMA MenuStep ==
    ASSUME TypeOK, Next
    PROVE  \/ UNCHANGED <<config, shown>>
           \/ config' = config /\ \E w \in Workers, m \in 1..Menus :
                 /\ call[w].row = Menu(m) /\ call[w].step = "ready" /\ shown' = m
           \/ SetMenu
<1>1. ASSUME NEW w \in Workers, Accepted(w) \/ AnswerLost(w)
      PROVE  config' = config /\ (shown' = shown \/ \E m \in 1..Menus :
                 /\ call[w].row = Menu(m) /\ call[w].step = "ready" /\ shown' = m)
  <2>1. call[w].row \in Rows /\ call[w].step = "ready" /\ config' = config /\ Applied(call[w].row)
    BY <1>1 DEF Accepted, AnswerLost, TypeOK
  <2> QED
    BY <2>1, RowNames DEF Applied
<1> QED
  BY <1>1, NextSplit, ZenonT(60)
     DEF Works, Claim, ReadMessage, ReadAlbum, ReadTarget, ReadConfig, MarkProcessing, Refused,
         RecordMessage, RecordAlbum, RecordAction, Finish, RecordTooLate, Fail, Crash,
         Aged, Asked, RecoverRow, Lapse, TimePasses, OperatorRetry, Cancel, CrmRetry, Update,
         QueueAction, targetVars

(* A setting is called for only while it is the newest, and answered by that. *)
LEMMA MenuCall ==
    ASSUME TypeOK, ActStepInv, Next, NEW v \in Workers, NEW n \in 1..Menus,
           call'[v].row = Menu(n), call'[v].step \in {"ready", "answered"}
    PROVE  /\ call[v].row = Menu(n) /\ call[v].step # "idle"
           /\ \/ call'[v] = call[v]
              \/ call'[v].step = "ready" /\ n = config /\ config' = config /\ shown' = shown
              \/ call'[v].step = "answered" /\ call[v].step = "ready" /\ shown' = n /\ config' = config
<1>0. Menu(n).kind = "menu" /\ Menu(n).of = n /\ First(Album).kind = "first"
  BY RowNames
<1>1. call[v].row = Menu(n) /\ call[v].row.kind = "menu" /\ call[v].row.of = n /\ call[v].step # "idle"
  BY <1>0, CallStep DEF CallMoves, Claims, Advances
<1>2. ASSUME NEW w \in Workers, ReadMessage(w) \/ ReadTarget(w) PROVE call'[v] = call[v]
  <2>1. w # v
    BY <1>1, <1>2 DEF ReadMessage, ReadTarget, IsMessage
  <2> QED
    BY <1>2, <2>1, ReadCall
<1>3. ASSUME NEW w \in Workers, Steps(w)
      PROVE  \/ call'[v] = call[v]
             \/ call'[v].step = "ready" /\ n = config /\ config' = config /\ shown' = shown
             \/ call'[v].step = "answered" /\ call[v].step = "ready" /\ shown' = n /\ config' = config
  <2>1. CASE w # v
    BY <1>3, <2>1, StepsCall
  <2>2. CASE w = v
    <3>1. CASE ReadConfig(v)
      BY <1>1, <3>1, StepFacts DEF ReadConfig, targetVars
    <3>2. CASE Accepted(v)
      BY <1>1, <3>2, StepFacts DEF Accepted, Applied
    <3>3. ~MarkProcessing(v) /\ ~ReadAlbum(v)
      BY <1>0, <1>1 DEF MarkProcessing, ReadAlbum, ActStepInv
    <3>4. ~AnswerLost(v) /\ ~\E why \in {"retry", "final"} : Refused(v, why)
      BY StepFacts DEF AnswerLost, Refused
    <3> QED
      BY <1>3, <2>2, <3>1, <3>2, <3>3, <3>4 DEF Steps
  <2> QED
    BY <2>1, <2>2
<1>4. ASSUME NEW w \in Workers, Ends(w) PROVE call'[v] = call[v]
  <2>1. w # v
    BY <1>4, EndsCall
  <2> QED
    BY <1>4, <2>1, EndsCall
<1>5. ASSUME NEW w \in Workers, NEW r \in Rows, Claim(w, r) PROVE call'[v] = call[v]
  <2>1. w # v
    BY <1>1, <1>5 DEF Claim
  <2> QED
    BY <1>5, <2>1, ClaimCall
<1>6. ASSUME Aged \/ Asked PROVE call'[v] = call[v]
  BY <1>6 DEF Aged, Asked, RecoverRow, Lapse, TimePasses, OperatorRetry, Cancel, CrmRetry,
              Update, QueueAction, SetMenu
<1> QED
  BY <1>1, <1>2, <1>3, <1>4, <1>5, <1>6, NextCases

(* As long as no setting is replaced under a call, only the newest is being
   configured, and what is answered is what Telegram shows. *)
Undisturbed == \A n \in 1..Menus : Menu(n) \notin raced
MenuCallsInv ==
    Undisturbed =>
        \A w \in Workers, n \in 1..Menus :
            call[w].row = Menu(n) => /\ call[w].step = "ready" => n = config
                                     /\ call[w].step = "answered" /\ n = config => shown = config
MenuFacts == RowsInv /\ ActStepInv /\ MenuCallsInv /\ NewestMenuShown

(* A new setting finds no call on the way. *)
LEMMA SetMenuAlone ==
    ASSUME TypeOK, MenuFacts, SetMenu, Undisturbed'
    PROVE  /\ config + 1 \in 1..Menus /\ config' = config + 1 /\ shown' = shown
           /\ \A w \in Workers, n \in 1..Menus :
                 call[w].row = Menu(n) => call[w].step # "ready" /\ (call[w].step # "idle" => n # config')
           /\ outbox'[Menu(config + 1)] = "PENDING"
<1>1. config + 1 \in 1..Menus /\ config' = config + 1 /\ shown' = shown /\ config \in Nat
  BY TelegramAssumption DEF SetMenu, TypeOK
<1>2. Undisturbed
  BY DEF SetMenu, Undisturbed
<1>3. Menu(config + 1) \in Rows
  BY <1>1, RowNames
<1>4. outbox'[Menu(config + 1)] = "PENDING"
  BY <1>3 DEF SetMenu, TypeOK
<1>5. ASSUME NEW w \in Workers, NEW n \in 1..Menus, call[w].row = Menu(n), call[w].step = "ready"
      PROVE  FALSE
  <2>1. n = config
    BY <1>2, <1>5 DEF MenuFacts, MenuCallsInv
  <2>2. w \in Calls(Menu(config)) /\ config > 0
    BY <1>1, <1>5, <2>1 DEF Calls
  <2>3. Menu(config) \in raced'
    BY <1>5, <2>2 DEF SetMenu
  <2> QED
    BY <1>5, <2>1, <2>3 DEF Undisturbed
<1>6. ASSUME NEW w \in Workers, NEW n \in 1..Menus, call[w].row = Menu(n), call[w].step # "idle"
      PROVE  n # config'
  <2>1. n <= config
    BY <1>6 DEF MenuFacts, RowsInv, CallInv, MenuInv, Exists
  <2> QED
    BY <1>1, <2>1
<1> QED
  BY <1>1, <1>4, <1>5, <1>6

LEMMA MenuCallsNext == TypeOK /\ MenuFacts /\ Next => MenuCallsInv'
<1> SUFFICES ASSUME TypeOK, MenuFacts, Next, Undisturbed', NEW v \in Workers, NEW n \in 1..Menus,
                    call'[v].row = Menu(n), call'[v].step \in {"ready", "answered"}
             PROVE  /\ call'[v].step = "ready" => n = config'
                    /\ call'[v].step = "answered" /\ n = config' => shown' = config'
  BY DEF MenuCallsInv
<1>0. Undisturbed /\ ActStepInv /\ MenuCallsInv
  BY HistoryGrows DEF Undisturbed, MenuFacts
<1>1. CASE call'[v] = call[v]
  <2>1. CASE SetMenu
    BY <1>1, <2>1, SetMenuAlone
  <2>2. CASE UNCHANGED <<config, shown>>
    BY <1>0, <1>1, <2>2 DEF MenuCallsInv
  <2>3. CASE config' = config /\ \E w \in Workers, m \in 1..Menus :
                 /\ call[w].row = Menu(m) /\ call[w].step = "ready" /\ shown' = m
    BY <1>0, <1>1, <2>3 DEF MenuCallsInv
  <2> QED
    BY <2>1, <2>2, <2>3, MenuStep
<1>2. CASE call'[v].step = "ready" /\ n = config /\ config' = config
  BY <1>2
<1>3. CASE call'[v].step = "answered" /\ shown' = n
  BY <1>3
<1> QED
  BY <1>0, <1>1, <1>2, <1>3, MenuCall

LEMMA NewestNext == TypeOK /\ MenuFacts /\ Next => NewestMenuShown'
<1> SUFFICES ASSUME TypeOK, MenuFacts, Next, Undisturbed', config' > 0,
                    outbox'[Menu(config')] = "SUCCEEDED"
             PROVE  shown' = config'
  BY DEF NewestMenuShown, Undisturbed
<1>0. Undisturbed /\ ActStepInv /\ MenuCallsInv /\ MenuInv /\ NewestMenuShown
  BY HistoryGrows DEF Undisturbed, MenuFacts, RowsInv
<1>1. CASE SetMenu
  BY <1>1, SetMenuAlone
<1>2. CASE config' = config /\ outbox[Menu(config)] = "SUCCEEDED"
  <2>1. shown = config
    BY <1>0, <1>2 DEF NewestMenuShown, Undisturbed
  <2> QED
    BY <1>0, <1>2, <2>1, MenuStep, <1>1 DEF MenuCallsInv
<1>3. CASE config' = config /\ outbox[Menu(config)] # "SUCCEEDED"
  <2>1. config \in 1..Menus
    BY <1>3, TelegramAssumption DEF TypeOK
  <2>2. Menu(config) \in Rows /\ Menu(config).kind = "menu" /\ First(Album).kind = "first"
    BY <2>1, RowNames
  <2>3. PICK w \in Workers :
              /\ call[w].row = Menu(config)
              /\ \/ RecordMessage(w) \/ RecordAlbum(w) \/ RecordAction(w)
                 \/ Finish(w) /\ Holds(w)
    BY <1>0, <1>3, <2>2, SuccessStep
  <2>4. Finish(w)
    BY <2>2, <2>3 DEF RecordMessage, RecordAlbum, RecordAction, IsMessage
  <2>5. call[w].step = "answered" /\ UNCHANGED <<config, shown>>
    BY <1>0, <2>2, <2>3, <2>4 DEF Finish, ActStepInv, targetVars
  <2> QED
    BY <1>0, <2>1, <2>3, <2>5 DEF MenuCallsInv
<1> QED
  BY <1>1, <1>2, <1>3, MenuStep

LEMMA MenuFactsNext == TypeOK /\ MenuFacts /\ [Next]_vars => MenuFacts'
<1>1. ASSUME TypeOK, MenuFacts, Next PROVE MenuFacts'
  <2>1. RowsInv' /\ ActStepInv'
    BY <1>1, RowsNext, ActStepNext DEF MenuFacts
  <2> QED
    BY <1>1, <2>1, MenuCallsNext, NewestNext DEF MenuFacts
<1>2. ASSUME TypeOK, MenuFacts, UNCHANGED vars PROVE MenuFacts'
  <2>1. RowsInv'
    BY <1>2, RowsNext DEF MenuFacts
  <2> QED
    BY <1>2, <2>1 DEF MenuFacts, ActStepInv, MenuCallsInv, Undisturbed, NewestMenuShown, vars, rowVars,
                      targetVars, historyVars
<1> QED
  BY <1>1, <1>2

(* A setting that SUCCEEDED and is the newest is the one Telegram shows, unless
   an older one was on its way when the newer was accepted. *)
THEOREM TelegramNewestMenuShown == Spec => []NewestMenuShown
<1>1. Init => TypeOK /\ MenuFacts
  <2> SUFFICES ASSUME Init PROVE TypeOK /\ MenuFacts
    OBVIOUS
  <2>1. (\A w \in Workers : call[w].step = "idle") /\ config = 0
    BY DEF Init, NoCall
  <2> QED
    BY <2>1, TypeInit, RowsInit DEF MenuFacts, ActStepInv, MenuCallsInv, NewestMenuShown
<1>2. (TypeOK /\ MenuFacts) /\ [Next]_vars => (TypeOK /\ MenuFacts)'
  BY TypeNext, MenuFactsNext
<1>3. MenuFacts => NewestMenuShown
  BY DEF MenuFacts
<1> QED
  BY <1>1, <1>2, <1>3, PTL DEF Spec
===============================================================================
