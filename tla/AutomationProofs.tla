--------------------------- MODULE AutomationProofs ---------------------------
(***************************************************************************)
(* Types and two invariants of the scenario runtime, for every set of      *)
(* graphs, number of workers and of attempts, and depth of subflows.       *)
(*                                                                         *)
(* MutationInv: an HTTP row has one claimer at a time until a call claims  *)
(* it over the lease of another (then it is in raced), so what becomes     *)
(* unknown is held by nobody who could send it, and the row is not due.    *)
(*                                                                         *)
(* StraightInv, for graphs without a cycle: an execution is unborn, walks, *)
(* is being resumed, stands at one node with one thing to wake it, or      *)
(* rests.  What its walk has not come to is fresh, so a step on it claims  *)
(* nothing that another execution waits for.                               *)
(*                                                                         *)
(* A walk that throws puts the tables back, so both invariants hold of the *)
(* tables as they are and as they were saved.                              *)
(***************************************************************************)
EXTENDS Automation, FiniteSetTheorems, TLAPS

HttpOK(h) == h \in [Slots -> RowType]
CallsOK   == /\ calls \in [Workers -> CallType]
             /\ \A w \in Workers : calls[w].pc # "idle" => Slot(w) \in Slots

Claimer(w, s)  == calls[w].pc \in {"claimed", "answered"} /\ Slot(w) = s
Finisher(w, s) == /\ calls[w].pc = "opened" /\ Slot(w) = s
                  /\ calls[w].answer \in {"success", "failure", "permanent"}

(* One row, as the table h has it, and the calls at it. *)
Single(h, s) ==
  /\ \A w, v \in Workers : Claimer(w, s) /\ Claimer(v, s) => w = v
  /\ \A w, v \in Workers : Finisher(w, s) /\ Finisher(v, s) => w = v
  /\ \A w \in Workers : Claimer(w, s) =>
        /\ h[s].status \in {"PROCESSING", "UNKNOWN"}
        /\ h[s].status = "PROCESSING" => h[s].lease = w
  /\ \A w \in Workers : Finisher(w, s) => h[s].status \in {"SUCCEEDED", "FAILED"}
Spent(h, s) ==
  s \in unsure =>
    /\ h[s].status \in {"PROCESSING", "UNKNOWN", "SUCCEEDED", "FAILED"}
    /\ \A w \in Workers : Claimer(w, s) => calls[w].pc = "answered" /\ calls[w].answer = "unknown"
Safe(h) == \A s \in Slots \ raced : Single(h, s) /\ Spent(h, s)

LoadedOK == \A w \in Workers :
  /\ calls[w].pc = "loaded" => calls[w].answer # "PROCESSING"
  /\ calls[w].pc = "answered" => calls[w].answer \in Answers
  /\ calls[w].pc = "opened" => calls[w].answer \in {"delay", "timeout", "success", "failure", "permanent"}
JobOK == /\ job = NoJob \/ job.kind \in {"message", "call"}
         /\ job.kind = "call" => job.by \in Workers /\ calls[job.by].pc = "opened"

MutationInv ==
  /\ HttpOK(http) /\ CallsOK
  /\ ~Quiet => HttpOK(saved[3])
  /\ JobOK
  /\ graph.method # "GET" => /\ LoadedOK /\ Safe(http) /\ (~Quiet => Safe(saved[3]))
                             /\ repeated \subseteq raced
-----------------------------------------------------------------------------
LEMMA MutationInit == Init => MutationInv
<1> SUFFICES ASSUME Init PROVE MutationInv
  OBVIOUS
<1>1. NoCall \in CallType /\ NoCall.pc = "idle"
  BY DEF NoCall, CallType, Answers
<1>2. NoRow \in RowType
  BY DEF NoRow, RowType, Rows
<1>3. calls = [w \in Workers |-> NoCall] /\ http = [s \in Slots |-> NoRow] /\ Quiet /\ unsure = {}
      /\ repeated = {}
  BY DEF Init, Quiet
<1>4. HttpOK(http)
  BY <1>2, <1>3 DEF HttpOK
<1>5. CallsOK /\ (\A w \in Workers : calls[w].pc = "idle")
  BY <1>1, <1>3 DEF CallsOK
<1>6. JobOK
  BY DEF Init, NoJob, JobOK
<1>7. LoadedOK /\ Safe(http)
  BY <1>3, <1>5 DEF LoadedOK, Safe, Single, Spent, Claimer, Finisher
<1> QED
  BY <1>3, <1>4, <1>5, <1>6, <1>7 DEF MutationInv

(* What a step changes of one call. *)
LEMMA CallSet ==
  ASSUME CallsOK, NEW w \in Workers, NEW new \in CallType, calls' = [calls EXCEPT ![w] = new],
         new.pc # "idle" => <<new.x, new.n>> \in Slots
  PROVE  /\ CallsOK' /\ calls'[w] = new
         /\ \A v \in Workers \ {w} : calls'[v] = calls[v]
         /\ Slot(w)' = <<new.x, new.n>>
         /\ \A v \in Workers \ {w} : Slot(v)' = Slot(v)
<1>1. calls' \in [Workers -> CallType] /\ calls'[w] = new /\ \A v \in Workers \ {w} : calls'[v] = calls[v]
  BY DEF CallsOK
<1>2. Slot(w)' = <<new.x, new.n>> /\ \A v \in Workers \ {w} : Slot(v)' = Slot(v)
  BY <1>1 DEF Slot
<1> QED
  BY <1>1, <1>2 DEF CallsOK

(* The rows stay good under a step that leaves calls and history alone and the
   rows of which anything is known. *)
Quietly == UNCHANGED <<calls, unsure, raced>>

LEMMA HttpKept ==
  ASSUME Quietly, Safe(http), \A s \in Slots : http[s].status # "NONE" => http'[s] = http[s]
  PROVE  Safe(http)'
BY DEF Quietly, Safe, Single, Spent, Claimer, Finisher, Slot

LEMMA SavedTaken ==
  ASSUME Quietly, Safe(http), saved'[3] = http PROVE Safe(saved[3])'
BY DEF Quietly, Safe, Single, Spent, Claimer, Finisher, Slot

LEMMA SavedKept ==
  ASSUME Quietly, Safe(saved[3]), saved'[3] = saved[3] PROVE Safe(saved[3])'
BY DEF Quietly, Safe, Single, Spent, Claimer, Finisher, Slot
-----------------------------------------------------------------------------
(* The steps of a walk. *)
LEMMA WalkStep ==
  ASSUME MutationInv,
         \/ ApplyStep \/ ApplyCondition \/ ApplyStop \/ NodeFails \/ ApplyDelay \/ ApplyWait
         \/ QueueHttp \/ StartSubflow \/ FinishGraph \/ ResumeExecution \/ ResolveWait
  PROVE  MutationInv'
<1>1. UNCHANGED <<scenario, job, saved, calls, history>>
  BY ZenonT(60) DEF ApplyStep, ApplyCondition, ApplyStop, NodeFails, ApplyDelay, ApplyWait, QueueHttp,
         StartSubflow, FinishGraph, ResumeExecution, ResolveWait
<1>2. HttpOK(http)' /\ \A s \in Slots : http[s].status # "NONE" => http'[s] = http[s]
  <2>1. CASE http' = http
    BY <2>1 DEF MutationInv, HttpOK
  <2>2. CASE QueueHttp
    <3> DEFINE s == <<Top.x, Top.n>>
    <3>1. CASE http' = http
      BY <2>1, <3>1
    <3>2. ASSUME http[s] = NoRow, http' = [http EXCEPT ![s].status = "PENDING"]
          PROVE  HttpOK(http)' /\ \A t \in Slots : http[t].status # "NONE" => http'[t] = http[t]
      <4> HIDE DEF s
      <4>1. http \in [Slots -> RowType]
        BY DEF MutationInv, HttpOK
      <4>2. http' \in [Slots -> RowType]
        BY <3>2, <4>1 DEF RowType, Rows
      <4>3. http[s].status = "NONE"
        BY <3>2 DEF NoRow
      <4> QED
        BY <3>2, <4>1, <4>2, <4>3 DEF HttpOK
    <3> QED
      BY <2>2, <3>1, <3>2 DEF QueueHttp
  <2> QED
    BY <2>1, <2>2
    DEF rows, ApplyStep, ApplyCondition, ApplyStop, NodeFails, ApplyDelay, ApplyWait, StartSubflow,
        FinishGraph, ResumeExecution, ResolveWait
<1>3. Quietly /\ graph' = graph /\ repeated' = repeated /\ Quiet' = Quiet
  BY <1>1 DEF Quietly, history, scenario, Quiet
<1>4. CallsOK' /\ JobOK' /\ (LoadedOK => LoadedOK') /\ (~Quiet' => HttpOK(saved[3])')
  BY <1>1, <1>3 DEF MutationInv, CallsOK, JobOK, LoadedOK, Slot, HttpOK
<1>5. (Safe(http) => Safe(http)') /\ (Safe(saved[3]) => Safe(saved[3])')
  BY <1>1, <1>2, <1>3, HttpKept, SavedKept
<1> QED
  BY <1>1, <1>2, <1>3, <1>4, <1>5 DEF MutationInv, history

LEMMA BeginStep ==
  ASSUME MutationInv, (\E e \in Events : HandleMessage(e)) \/ (\E w \in Workers : RunContinuation(w))
  PROVE  MutationInv'
<1>1. UNCHANGED <<scenario, http, calls, history>> /\ saved' = rows
  BY DEF HandleMessage, RunContinuation, Begin
<1>2. JobOK'
  <2>1. CASE \E e \in Events : HandleMessage(e)
    BY <2>1 DEF HandleMessage, Begin, JobOK
  <2>2. ASSUME NEW w \in Workers, RunContinuation(w) PROVE JobOK'
    BY <2>2, <1>1 DEF RunContinuation, Begin, JobOK
  <2> QED
    BY <2>1, <2>2
<1>3. Quietly /\ graph' = graph /\ repeated' = repeated /\ saved'[3] = http
  BY <1>1 DEF Quietly, history, scenario, rows
<1>4. CallsOK' /\ (LoadedOK => LoadedOK') /\ HttpOK(http)' /\ HttpOK(saved[3])'
  BY <1>1, <1>3 DEF MutationInv, CallsOK, LoadedOK, Slot, HttpOK
<1>5. Safe(http) => Safe(http)' /\ Safe(saved[3])'
  BY <1>1, <1>3, HttpKept, SavedTaken
<1> QED
  BY <1>1, <1>2, <1>3, <1>4, <1>5 DEF MutationInv, history
-----------------------------------------------------------------------------
(* The call of one worker changes, and perhaps the row it is at. *)
Idles(w) == calls' = [calls EXCEPT ![w] = NoCall]

LEMMA IdleFacts ==
  ASSUME CallsOK, NEW w \in Workers, Idles(w)
  PROVE  /\ CallsOK' /\ calls'[w].pc = "idle"
         /\ \A v \in Workers \ {w} : calls'[v] = calls[v]
         /\ \A v \in Workers \ {w} : Slot(v)' = Slot(v)
<1>1. NoCall \in CallType /\ NoCall.pc = "idle"
  BY DEF NoCall, CallType, Answers
<1> QED
  BY <1>1, CallSet DEF Idles

(* A worker that gives up a row leaves it to nobody. *)
LEMMA IdleSafe ==
  ASSUME MutationInv, NEW w \in Workers, Idles(w), UNCHANGED raced, Safe(http), http' = http,
         \/ unsure' = unsure
         \/ unsure' = unsure \cup {Slot(w)} /\ calls[w].pc \in {"claimed", "answered"}
  PROVE  Safe(http)'
<1>1. /\ CallsOK' /\ calls'[w].pc = "idle"
      /\ \A v \in Workers \ {w} : calls'[v] = calls[v]
      /\ \A v \in Workers \ {w} : Slot(v)' = Slot(v)
  BY IdleFacts DEF MutationInv
<1> SUFFICES ASSUME NEW s \in Slots, s \notin raced PROVE Single(http, s)' /\ Spent(http, s)'
  BY DEF Safe
<1>3. Single(http, s) /\ Spent(http, s)
  BY DEF Safe
<1>4. Single(http, s)'
  BY <1>1, <1>3 DEF Single, Claimer, Finisher, Slot
<1>5. CASE unsure' = unsure \/ s # Slot(w)
  <2>1. s \in unsure' => s \in unsure
    BY <1>5
  <2> QED
    BY <1>1, <1>3, <1>4, <2>1 DEF Spent, Claimer, Slot
<1>6. CASE s = Slot(w) /\ calls[w].pc \in {"claimed", "answered"}
  <2>1. Claimer(w, s)
    BY <1>6 DEF Claimer
  <2>2. http[s].status \in {"PROCESSING", "UNKNOWN"} /\ \A v \in Workers : ~Claimer(v, s)'
    BY <1>1, <1>3, <2>1 DEF Single, Claimer, Slot
  <2> QED
    BY <1>4, <2>2 DEF Spent, Claimer, Slot
<1> QED
  BY <1>4, <1>5, <1>6
(* What a call is at, and what it is not. *)
AtSlot(w) == calls'[w].x = calls[w].x /\ calls'[w].n = calls[w].n
Others(w) == \A v \in Workers \ {w} : calls'[v] = calls[v]
NoBusiness(w, s) ==
  \/ calls'[w].pc \notin {"claimed", "answered", "opened"}
  \/ calls'[w].pc = "opened" /\ calls'[w].answer \notin {"success", "failure", "permanent"}
  \/ <<calls'[w].x, calls'[w].n>> # s

LEMMA Elsewhere ==
  ASSUME NEW w \in Workers, Others(w), NEW s \in Slots, NoBusiness(w, s), Single(http, s), Spent(http, s),
         http'[s].status = http[s].status, http'[s].lease = http[s].lease, s \in unsure' => s \in unsure
  PROVE  Single(http, s)' /\ Spent(http, s)'
<1>1. Single(http, s)'
  BY DEF Others, NoBusiness, Single, Claimer, Finisher, Slot
<1>2. Spent(http, s)'
  BY <1>1 DEF Others, NoBusiness, Spent, Claimer, Slot
<1> QED
  BY <1>1, <1>2

(* The call is the only one at its row, and leaves it with another status. *)
LEMMA Leaves ==
  ASSUME NEW w \in Workers, NEW s \in Slots, Others(w), Single(http, s), Claimer(w, s),
         calls'[w].pc \notin {"claimed", "answered"}, s \notin unsure'
  PROVE  /\ \A v \in Workers : ~Claimer(v, s)'
         /\ \A v \in Workers : Finisher(v, s)' => v = w
<1>1. http[s].status \in {"PROCESSING", "UNKNOWN"}
  BY DEF Single
<1> QED
  BY <1>1 DEF Others, Single, Claimer, Finisher, Slot

(* The parts of the invariant that are easy to keep. *)
LEMMA FrameInv ==
  ASSUME MutationInv, Quiet, Quiet', UNCHANGED <<graph, job>>, HttpOK(http)', CallsOK',
         graph.method # "GET" => LoadedOK' /\ Safe(http)' /\ (repeated \subseteq raced)'
  PROVE  MutationInv'
BY DEF MutationInv, JobOK, Quiet, NoJob

LEMMA QuietKept == ASSUME UNCHANGED walk PROVE job' = job /\ saved' = saved /\ Quiet' = Quiet
BY DEF walk, Quiet
-----------------------------------------------------------------------------
LEMMA OpenContinuation ==
  ASSUME MutationInv, NEW w \in Workers, NEW s \in Slots, ResumeDelayedAction(w, s) \/ TimeoutWait(w, s)
  PROVE  MutationInv'
<1>1. PICK next \in {"delay", "timeout"} : Opened(w, s[1], s[2], next)
  BY DEF ResumeDelayedAction, TimeoutWait
<1>2. /\ UNCHANGED <<graph, http, history>> /\ UNCHANGED walk /\ Quiet /\ calls[w].pc = "idle"
  BY DEF ResumeDelayedAction, TimeoutWait, scenario, NoCall
<1>3. s[1] \in Ids /\ s[2] \in Nodes /\ <<s[1], s[2]>> = s
  BY DEF Slots
<1> DEFINE over == exec[s[1]].status \in Final
           new == [pc |-> "opened", x |-> s[1], n |-> s[2], final |-> over, answer |-> next]
<1>4. calls' = [calls EXCEPT ![w] = new] /\ over \in BOOLEAN
  BY <1>1 DEF Opened
<1> HIDE DEF over
<1>5. /\ new \in CallType /\ new.pc = "opened" /\ <<new.x, new.n>> = s
      /\ new.answer \in {"delay", "timeout"}
  BY <1>1, <1>3, <1>4 DEF CallType
<1> HIDE DEF new
<1>6. CallsOK' /\ calls'[w] = new /\ Others(w)
  BY <1>4, <1>5, CallSet DEF Others, MutationInv
<1>7. Safe(http) => Safe(http)'
  <2> SUFFICES ASSUME Safe(http), NEW t \in Slots, t \notin raced PROVE Single(http, t)' /\ Spent(http, t)'
    BY <1>2 DEF Safe, history
  <2>1. NoBusiness(w, t)
    BY <1>5, <1>6 DEF NoBusiness
  <2> QED
    BY <1>2, <1>6, <2>1, Elsewhere DEF Safe, history
<1>8. LoadedOK => LoadedOK'
  BY <1>5, <1>6 DEF LoadedOK, Others
<1>9. HttpOK(http)'
  BY <1>2 DEF MutationInv, HttpOK
<1> QED
  BY <1>2, <1>6, <1>7, <1>8, <1>9, QuietKept, FrameInv DEF MutationInv, history

LEMMA LoadStep ==
  ASSUME MutationInv, NEW w \in Workers, NEW s \in Slots, LoadHttp(w, s)
  PROVE  MutationInv'
<1>2. /\ UNCHANGED <<graph, http, history>> /\ UNCHANGED walk /\ Quiet /\ Due(s)
  BY DEF LoadHttp, scenario, rows
<1>3. s[1] \in Ids /\ s[2] \in Nodes /\ <<s[1], s[2]>> = s /\ http[s].status \in Rows
  BY DEF Slots, MutationInv, HttpOK, RowType
<1> DEFINE where == IF http[s].status = "PROCESSING" /\ graph.method # "GET" THEN "expired" ELSE "loaded"
           new == [NoCall EXCEPT !.pc = where, !.x = s[1], !.n = s[2], !.answer = http[s].status]
<1>4. calls' = [calls EXCEPT ![w] = new] /\ where \in {"expired", "loaded"}
  BY DEF LoadHttp
<1>5. where = "loaded" /\ graph.method # "GET" => http[s].status # "PROCESSING"
  BY DEF Due
<1> HIDE DEF where
<1>6. /\ new \in CallType /\ new.pc = where /\ <<new.x, new.n>> = s
      /\ new.answer = http[s].status
  BY <1>3, <1>4 DEF CallType, NoCall
<1> HIDE DEF new
<1>7. CallsOK' /\ calls'[w] = new /\ Others(w)
  BY <1>3, <1>4, <1>6, CallSet DEF Others, MutationInv
<1>8. Safe(http) => Safe(http)'
  <2> SUFFICES ASSUME Safe(http), NEW t \in Slots, t \notin raced PROVE Single(http, t)' /\ Spent(http, t)'
    BY <1>2 DEF Safe, history
  <2>1. NoBusiness(w, t)
    BY <1>4, <1>6, <1>7 DEF NoBusiness
  <2> QED
    BY <1>2, <1>7, <2>1, Elsewhere DEF Safe, history
<1>9. LoadedOK /\ graph.method # "GET" => LoadedOK'
  BY <1>4, <1>5, <1>6, <1>7 DEF LoadedOK, Others
<1>10. HttpOK(http)'
  BY <1>2 DEF MutationInv, HttpOK
<1> QED
  BY <1>2, <1>7, <1>8, <1>9, <1>10, QuietKept, FrameInv DEF MutationInv, history

LEMMA ClaimStep ==
  ASSUME MutationInv, NEW w \in Workers, ClaimHttp(w)
  PROVE  MutationInv'
<1> DEFINE s == Slot(w)
<1>1. /\ UNCHANGED <<graph, unsure, repeated>> /\ UNCHANGED walk /\ Quiet /\ calls[w].pc = "loaded"
      /\ calls[w] \in CallType /\ s \in Slots
  BY DEF ClaimHttp, scenario, MutationInv, CallsOK
<1>2. CASE ~Due(s)
  <2>1. Idles(w) /\ UNCHANGED <<http, raced>>
    BY <1>2 DEF ClaimHttp, Idles
  <2>2. CallsOK' /\ calls'[w].pc = "idle" /\ \A v \in Workers \ {w} : calls'[v] = calls[v]
    BY <2>1, IdleFacts DEF MutationInv
  <2>3. Safe(http) => Safe(http)'
    BY <1>1, <2>1, IdleSafe
  <2>4. HttpOK(http)' /\ (LoadedOK => LoadedOK')
    BY <2>1, <2>2 DEF MutationInv, HttpOK, LoadedOK
  <2> QED
    BY <1>1, <2>1, <2>2, <2>3, <2>4, QuietKept, FrameInv DEF MutationInv
<1>3. CASE Due(s)
  <2> DEFINE row == [status |-> "PROCESSING", lease |-> w, stale |-> FALSE, attempts |-> http[s].attempts + 1]
             new == [calls[w] EXCEPT !.pc = "claimed", !.answer = "none"]
  <2>1. /\ http' = [http EXCEPT ![s] = row] /\ calls' = [calls EXCEPT ![w] = new]
        /\ raced' = IF http[s].status = "PROCESSING" /\ calls[w].answer # "PROCESSING"
                    THEN raced \cup {s} ELSE raced
    BY <1>3 DEF ClaimHttp
  <2>2. new \in CallType /\ new.pc = "claimed" /\ new.x = calls[w].x /\ new.n = calls[w].n
    BY <1>1 DEF CallType
  <2> HIDE DEF new
  <2>3. CallsOK' /\ calls'[w] = new /\ Others(w) /\ <<new.x, new.n>> = s
    BY <1>1, <2>1, <2>2, CallSet DEF Others, MutationInv, Slot
  <2>4. http \in [Slots -> RowType]
    BY DEF MutationInv, HttpOK
  <2>5. row \in RowType
    BY <1>1, <2>4 DEF RowType, Rows
  <2>6. http'[s] = row /\ row.status = "PROCESSING" /\ row.lease = w
        /\ \A t \in Slots \ {s} : http'[t] = http[t]
    BY <1>1, <2>1, <2>4
  <2>7. HttpOK(http)'
    BY <2>1, <2>4, <2>5 DEF HttpOK
  <2>8. LoadedOK => LoadedOK'
    BY <2>2, <2>3 DEF LoadedOK, Others
  <2>9. ASSUME Safe(http), LoadedOK PROVE Safe(http)'
    <3> SUFFICES ASSUME NEW t \in Slots, t \notin raced' PROVE Single(http, t)' /\ Spent(http, t)'
      BY DEF Safe
    <3>1. t \notin raced /\ Single(http, t) /\ Spent(http, t)
      BY <2>1, <2>9 DEF Safe
    <3>2. CASE t # s
      <4>1. NoBusiness(w, t)
        BY <2>3, <3>2 DEF NoBusiness
      <4> QED
        BY <1>1, <2>3, <2>6, <3>1, <3>2, <4>1, Elsewhere
    <3>3. CASE t = s
      <4>1. http[t].status \in {"PENDING", "RETRY"}
        BY <1>1, <1>3, <2>1, <2>9, <3>3 DEF Due, LoadedOK
      <4>2. \A v \in Workers : ~Claimer(v, t) /\ ~Finisher(v, t)
        BY <3>1, <4>1 DEF Single
      <4>3. t \notin unsure'
        BY <1>1, <3>1, <4>1 DEF Spent
      <4>4. http'[t].status = "PROCESSING" /\ http'[t].lease = w
        BY <2>6, <3>3
      <4>5. Single(http, t)'
        BY <2>2, <2>3, <4>2, <4>4 DEF Single, Claimer, Finisher, Slot, Others
      <4> QED
        BY <4>3, <4>5 DEF Spent
    <3> QED
      BY <3>2, <3>3
  <2>10. repeated \subseteq raced => (repeated \subseteq raced)'
    BY <1>1, <2>1
  <2> QED
    BY <1>1, <2>3, <2>7, <2>8, <2>9, <2>10, QuietKept, FrameInv DEF MutationInv
<1> QED
  BY <1>2, <1>3
LEMMA SendStep ==
  ASSUME MutationInv, NEW w \in Workers, SendRequest(w)
  PROVE  MutationInv'
<1> DEFINE s == Slot(w)
<1>1. /\ UNCHANGED <<graph, http, raced>> /\ UNCHANGED walk /\ Quiet /\ calls[w].pc = "claimed"
      /\ calls[w] \in CallType /\ s \in Slots
  BY DEF SendRequest, scenario, rows, MutationInv, CallsOK
<1>2. PICK a \in Answers : /\ calls' = [calls EXCEPT ![w].pc = "answered", ![w].answer = a]
                           /\ unsure' = IF a = "unknown" THEN unsure \cup {s} ELSE unsure
  BY DEF SendRequest
<1> DEFINE new == [calls[w] EXCEPT !.pc = "answered", !.answer = a]
<1>3. calls' = [calls EXCEPT ![w] = new]
  BY <1>2
<1>4. new \in CallType /\ new.pc = "answered" /\ new.answer = a /\ new.x = calls[w].x /\ new.n = calls[w].n
  BY <1>1 DEF CallType
<1> HIDE DEF new
<1>5. CallsOK' /\ calls'[w] = new /\ Others(w) /\ <<new.x, new.n>> = s
  BY <1>1, <1>3, <1>4, CallSet DEF Others, MutationInv, Slot
<1>6. HttpOK(http)'
  BY <1>1 DEF MutationInv, HttpOK
<1>7. LoadedOK => LoadedOK'
  BY <1>4, <1>5 DEF LoadedOK, Others
<1>8. ASSUME Safe(http) PROVE Safe(http)'
  <2> SUFFICES ASSUME NEW t \in Slots, t \notin raced PROVE Single(http, t)' /\ Spent(http, t)'
    BY <1>1 DEF Safe
  <2>1. Single(http, t) /\ Spent(http, t)
    BY <1>8 DEF Safe
  <2>2. CASE t # s
    <3>1. NoBusiness(w, t) /\ (t \in unsure' => t \in unsure)
      BY <1>2, <1>5, <2>2 DEF NoBusiness
    <3> QED
      BY <1>1, <1>5, <2>1, <3>1, Elsewhere
  <2>3. CASE t = s
    <3>1. Claimer(w, t)
      BY <1>1, <2>3 DEF Claimer
    <3>2. /\ http[t].status \in {"PROCESSING", "UNKNOWN"}
          /\ t \notin unsure
          /\ \A v \in Workers \ {w} : ~Claimer(v, t)
      BY <1>1, <2>1, <3>1 DEF Single, Spent
    <3>3. \A v \in Workers : ~Finisher(v, t)
      BY <2>1, <3>2 DEF Single
    <3>4. Single(http, t)'
      BY <1>1, <1>4, <1>5, <2>1, <3>1, <3>2, <3>3 DEF Single, Claimer, Finisher, Slot, Others
    <3>5. Spent(http, t)'
      <4>1. t \in unsure' => a = "unknown"
        BY <1>2, <3>2
      <4> QED
        BY <1>1, <1>4, <1>5, <3>2, <4>1 DEF Spent, Claimer, Slot, Others
    <3> QED
      BY <3>4, <3>5
  <2> QED
    BY <2>2, <2>3
<1>9. ASSUME Safe(http), repeated \subseteq raced PROVE (repeated \subseteq raced)'
  <2>1. s \in unsure => s \in raced
    <3> SUFFICES ASSUME s \in unsure, s \notin raced PROVE FALSE
      OBVIOUS
    <3>1. Claimer(w, s) /\ Spent(http, s)
      BY <1>1, <1>9 DEF Claimer, Safe
    <3> QED
      BY <1>1, <3>1 DEF Spent
  <2> QED
    BY <1>1, <1>9, <2>1 DEF SendRequest
<1> QED
  BY <1>1, <1>5, <1>6, <1>7, <1>8, <1>9, QuietKept, FrameInv DEF MutationInv

(* A row goes to another status, and its claimer from it. *)
LEMMA ReleaseStep ==
  ASSUME MutationInv, NEW w \in Workers, calls[w].pc = "answered", Holds(w), CallsOK', Others(w),
         NEW status \in Rows, http' = Release(Slot(w), status),
         UNCHANGED <<graph, unsure, raced>>,
         \/ calls'[w].pc = "idle"
         \/ /\ calls'[w].pc = "opened" /\ AtSlot(w) /\ status \in {"SUCCEEDED", "FAILED"},
         graph.method # "GET" /\ Slot(w) \in unsure /\ Slot(w) \notin raced
             => status \in {"SUCCEEDED", "FAILED", "UNKNOWN"}
  PROVE  HttpOK(http)' /\ (graph.method # "GET" /\ Safe(http) => Safe(http)')
<1> DEFINE s == Slot(w)
           row == [http[s] EXCEPT !.status = status, !.lease = Nobody, !.stale = FALSE]
<1>1. http \in [Slots -> RowType] /\ s \in Slots /\ http[s].status = "PROCESSING" /\ http[s].lease = w
  BY DEF MutationInv, HttpOK, CallsOK, Holds
<1>2. http' = [http EXCEPT ![s] = row]
  BY DEF Release
<1>3. row \in RowType /\ row.status = status
  BY <1>1 DEF RowType
<1> HIDE DEF row
<1>4. HttpOK(http)' /\ http'[s] = row /\ \A t \in Slots \ {s} : http'[t] = http[t]
  BY <1>1, <1>2, <1>3 DEF HttpOK
<1>5. ASSUME graph.method # "GET", Safe(http) PROVE Safe(http)'
  <2> SUFFICES ASSUME NEW t \in Slots, t \notin raced PROVE Single(http, t)' /\ Spent(http, t)'
    BY DEF Safe
  <2>1. Single(http, t) /\ Spent(http, t)
    BY <1>5 DEF Safe
  <2>2. CASE t # s
    <3>1. NoBusiness(w, t)
      BY <2>2 DEF NoBusiness, AtSlot, Slot
    <3> QED
      BY <1>4, <2>1, <2>2, <3>1, Elsewhere
  <2>3. CASE t = s
    <3>1. Claimer(w, t)
      BY <2>3 DEF Claimer
    <3>2. (\A v \in Workers \ {w} : ~Claimer(v, t)) /\ (\A v \in Workers : ~Finisher(v, t))
      BY <1>1, <2>1, <2>3, <3>1 DEF Single
    <3>3. http'[t].status = status
      BY <1>3, <1>4, <2>3
    <3>4. Single(http, t)'
      BY <3>2, <3>3 DEF Single, Claimer, Finisher, Slot, Others
    <3>5. Spent(http, t)'
      BY <1>5, <2>3, <3>2, <3>3 DEF Spent, Claimer, Slot, Others
    <3> QED
      BY <3>4, <3>5
  <2> QED
    BY <2>2, <2>3
<1> QED
  BY <1>4, <1>5

LEMMA IdleStep ==
  ASSUME MutationInv, NEW w \in Workers, Idles(w), Quiet, UNCHANGED walk,
         UNCHANGED <<graph, repeated, raced, http>>,
         \/ unsure' = unsure
         \/ unsure' = unsure \cup {Slot(w)} /\ calls[w].pc \in {"claimed", "answered"}
  PROVE  MutationInv'
<1>1. CallsOK' /\ calls'[w].pc = "idle" /\ \A v \in Workers \ {w} : calls'[v] = calls[v]
  BY IdleFacts DEF MutationInv
<1>2. Safe(http) => Safe(http)'
  BY IdleSafe
<1>3. HttpOK(http)' /\ (LoadedOK => LoadedOK')
  BY <1>1 DEF MutationInv, HttpOK, LoadedOK
<1> QED
  BY <1>1, <1>2, <1>3, QuietKept, FrameInv DEF MutationInv

LEMMA RetryStep ==
  ASSUME MutationInv, NEW w \in Workers, RetryHttp(w)
  PROVE  MutationInv'
<1>1. /\ UNCHANGED <<graph, unsure, raced, repeated>> /\ UNCHANGED walk /\ Quiet
      /\ calls[w].pc = "answered" /\ Idles(w)
  BY DEF RetryHttp, scenario, history, Idles
<1>2. CASE ~Holds(w)
  BY <1>1, <1>2, IdleStep DEF RetryHttp
<1>3. CASE Holds(w)
  <2>1. http' = Release(Slot(w), "RETRY")
    BY <1>3 DEF RetryHttp
  <2>2. CallsOK' /\ calls'[w].pc = "idle" /\ Others(w)
    BY <1>1, IdleFacts DEF MutationInv, Others
  <2>3. graph.method # "GET" /\ Slot(w) \in unsure => Slot(w) \in raced
    <3> SUFFICES ASSUME graph.method # "GET", Slot(w) \in unsure, Slot(w) \notin raced PROVE FALSE
      OBVIOUS
    <3>1. Slot(w) \in Slots /\ Claimer(w, Slot(w))
      BY <1>1 DEF MutationInv, CallsOK, Claimer
    <3>2. calls[w].answer = "unknown"
      BY <3>1 DEF MutationInv, Safe, Spent
    <3> QED
      BY <3>2 DEF RetryHttp, Retries
  <2>4. HttpOK(http)' /\ (graph.method # "GET" /\ Safe(http) => Safe(http)')
    BY <1>1, <1>3, <2>1, <2>2, <2>3, ReleaseStep DEF Rows
  <2>5. LoadedOK => LoadedOK'
    BY <2>2 DEF LoadedOK, Others
  <2> QED
    BY <1>1, <2>2, <2>4, <2>5, QuietKept, FrameInv DEF MutationInv
<1> QED
  BY <1>2, <1>3

LEMMA FinishStep ==
  ASSUME MutationInv, NEW w \in Workers, FinishHttp(w)
  PROVE  MutationInv'
<1>1. /\ UNCHANGED <<graph, unsure, raced, repeated>> /\ UNCHANGED walk /\ Quiet
      /\ calls[w].pc = "answered" /\ calls[w] \in CallType /\ Slot(w) \in Slots
  BY DEF FinishHttp, scenario, history, MutationInv, CallsOK
<1>2. CASE ~Holds(w)
  BY <1>1, <1>2, IdleStep DEF FinishHttp, Idles
<1>3. CASE Holds(w)
  <2> DEFINE status == IF calls[w].answer \in {"success", "failure"} THEN "SUCCEEDED" ELSE "FAILED"
             answer == IF calls[w].answer = "retryable" THEN "permanent" ELSE calls[w].answer
             over == exec[calls[w].x].status \in Final
             new == [pc |-> "opened", x |-> calls[w].x, n |-> calls[w].n, final |-> over, answer |-> answer]
  <2>1. http' = Release(Slot(w), status) /\ calls' = [calls EXCEPT ![w] = new]
    BY <1>3 DEF FinishHttp, Opened
  <2>2. status \in {"SUCCEEDED", "FAILED"} /\ over \in BOOLEAN
    OBVIOUS
  <2>3. answer \in Answers \cup Rows \cup {"none", "delay", "timeout"}
    BY <1>1 DEF CallType, Answers
  <2> HIDE DEF status, answer, over
  <2>4. /\ new \in CallType /\ new.pc = "opened" /\ new.x = calls[w].x /\ new.n = calls[w].n
        /\ new.answer = answer
    BY <1>1, <2>2, <2>3 DEF CallType
  <2> HIDE DEF new
  <2>5. CallsOK' /\ calls'[w] = new /\ Others(w) /\ AtSlot(w)
    BY <1>1, <2>1, <2>4, CallSet DEF Others, MutationInv, Slot, AtSlot
  <2>6. HttpOK(http)' /\ (graph.method # "GET" /\ Safe(http) => Safe(http)')
    BY <1>1, <1>3, <2>1, <2>2, <2>4, <2>5, ReleaseStep DEF Rows
  <2>7. LoadedOK => LoadedOK'
    <3>1. LoadedOK => answer \in {"success", "failure", "permanent"}
      BY <1>1 DEF LoadedOK, FinishHttp, Answers, answer
    <3> QED
      BY <2>4, <2>5, <3>1 DEF LoadedOK, Others
  <2> QED
    BY <1>1, <2>5, <2>6, <2>7, QuietKept, FrameInv DEF MutationInv
<1> QED
  BY <1>2, <1>3
LEMMA MarkStep ==
  ASSUME MutationInv, NEW w \in Workers, MarkUnknown(w)
  PROVE  MutationInv'
<1> DEFINE s == Slot(w)
           row == [http[s] EXCEPT !.status = "UNKNOWN", !.lease = Nobody, !.stale = FALSE]
<1>1. /\ UNCHANGED <<graph, unsure, raced, repeated>> /\ UNCHANGED walk /\ Quiet
      /\ calls[w].pc \in {"expired", "answered"} /\ Idles(w) /\ s \in Slots
      /\ http \in [Slots -> RowType]
  BY DEF MarkUnknown, scenario, history, Idles, MutationInv, CallsOK, HttpOK
<1>2. CASE http' = http
  BY <1>1, <1>2, IdleStep
<1>3. CASE http[s].status = "PROCESSING" /\ (calls[w].pc = "expired" \/ Holds(w))
  <2>1. http' = [http EXCEPT ![s] = row]
    BY <1>3 DEF MarkUnknown, Release
  <2>2. row \in RowType /\ row.status = "UNKNOWN"
    BY <1>1 DEF RowType, Rows
  <2> HIDE DEF row
  <2>3. HttpOK(http)' /\ http'[s] = row /\ \A t \in Slots \ {s} : http'[t] = http[t]
    BY <1>1, <2>1, <2>2 DEF HttpOK
  <2>4. CallsOK' /\ calls'[w].pc = "idle" /\ Others(w)
    BY <1>1, IdleFacts DEF MutationInv, Others
  <2>5. ASSUME Safe(http) PROVE Safe(http)'
    <3> SUFFICES ASSUME NEW t \in Slots, t \notin raced PROVE Single(http, t)' /\ Spent(http, t)'
      BY <1>1 DEF Safe
    <3>1. Single(http, t) /\ Spent(http, t)
      BY <2>5 DEF Safe
    <3>2. CASE t # s
      <4>1. NoBusiness(w, t)
        BY <2>4 DEF NoBusiness
      <4> QED
        BY <1>1, <2>3, <2>4, <3>1, <3>2, <4>1, Elsewhere
    <3>3. CASE t = s
      <4>1. http[t].status = "PROCESSING" /\ http'[t].status = "UNKNOWN"
        BY <1>3, <2>2, <2>3, <3>3
      <4>2. Single(http, t)'
        BY <2>4, <3>1, <4>1 DEF Single, Claimer, Finisher, Slot, Others
      <4>3. Spent(http, t)'
        BY <1>1, <2>4, <3>1, <4>1 DEF Spent, Claimer, Slot, Others
      <4> QED
        BY <4>2, <4>3
    <3> QED
      BY <3>2, <3>3
  <2>6. LoadedOK => LoadedOK'
    BY <2>4 DEF LoadedOK, Others
  <2> QED
    BY <1>1, <2>3, <2>4, <2>5, <2>6, QuietKept, FrameInv DEF MutationInv
<1> QED
  BY <1>2, <1>3 DEF MarkUnknown

LEMMA LapseStep ==
  ASSUME MutationInv, NEW s \in Slots, LeaseLapses(s)
  PROVE  MutationInv'
<1> DEFINE row == [http[s] EXCEPT !.stale = TRUE]
<1>1. /\ UNCHANGED <<graph, unsure, raced, repeated, calls>> /\ UNCHANGED walk /\ Quiet
      /\ http \in [Slots -> RowType]
  BY DEF LeaseLapses, scenario, history, MutationInv, HttpOK
<1>2. http' = [http EXCEPT ![s] = row]
  BY DEF LeaseLapses
<1>3. row \in RowType /\ row.status = http[s].status /\ row.lease = http[s].lease
  BY <1>1 DEF RowType
<1> HIDE DEF row
<1>4. HttpOK(http)' /\ \A t \in Slots : http'[t].status = http[t].status /\ http'[t].lease = http[t].lease
  BY <1>1, <1>2, <1>3 DEF HttpOK
<1>5. Safe(http) => Safe(http)'
  <2> SUFFICES ASSUME Safe(http), NEW t \in Slots, t \notin raced PROVE Single(http, t)' /\ Spent(http, t)'
    BY <1>1 DEF Safe
  <2>1. Single(http, t) /\ Spent(http, t)
    BY DEF Safe
  <2>2. Single(http, t)'
    BY <1>1, <1>4, <2>1 DEF Single, Claimer, Finisher, Slot
  <2>3. Spent(http, t)'
    BY <1>1, <1>4, <2>1 DEF Spent, Claimer, Slot
  <2> QED
    BY <2>2, <2>3
<1>6. CallsOK' /\ (LoadedOK => LoadedOK')
  BY <1>1 DEF MutationInv, CallsOK, LoadedOK, Slot
<1> QED
  BY <1>1, <1>4, <1>5, <1>6, QuietKept, FrameInv DEF MutationInv

LEMMA CrashStep ==
  ASSUME MutationInv, NEW w \in Workers, Crash(w)
  PROVE  MutationInv'
BY IdleStep DEF Crash, Idles, scenario, rows
-----------------------------------------------------------------------------
(* The end of a walk. *)
LEMMA CommitStep == ASSUME MutationInv, Commit PROVE MutationInv'
<1>1. /\ UNCHANGED <<graph, http, unsure, raced, repeated>> /\ job' = NoJob /\ ~Quiet
  BY DEF Commit, scenario, rows, history
<1>2. Quiet' /\ JobOK' /\ HttpOK(http)'
  BY <1>1 DEF Quiet, JobOK, NoJob, MutationInv, HttpOK
<1>3. CASE job.kind = "message"
  <2>1. calls' = calls
    BY <1>3 DEF Commit
  <2>2. CallsOK' /\ (LoadedOK => LoadedOK') /\ (Safe(http) => Safe(http)')
    BY <1>1, <2>1, HttpKept DEF MutationInv, CallsOK, LoadedOK, Slot, Quietly
  <2> QED
    BY <1>1, <1>2, <2>2 DEF MutationInv
<1>4. CASE job.kind # "message"
  <2>1. job.by \in Workers /\ Idles(job.by)
    BY <1>1, <1>4 DEF Commit, MutationInv, JobOK, Quiet, NoJob, Idles
  <2>2. CallsOK' /\ calls'[job.by].pc = "idle" /\ \A v \in Workers \ {job.by} : calls'[v] = calls[v]
    BY <2>1, IdleFacts DEF MutationInv
  <2>3. Safe(http) => Safe(http)'
    BY <1>1, <2>1, IdleSafe
  <2>4. LoadedOK => LoadedOK'
    BY <2>2 DEF LoadedOK
  <2> QED
    BY <1>1, <1>2, <2>2, <2>3, <2>4 DEF MutationInv
<1> QED
  BY <1>3, <1>4

LEMMA SavedBack ==
  ASSUME Quietly, Safe(saved[3]), http' = saved[3] PROVE Safe(http)'
BY DEF Quietly, Safe, Single, Spent, Claimer, Finisher, Slot
LEMMA RollbackMessageStep == ASSUME MutationInv, RollbackMessage PROVE MutationInv'
<1>1. /\ UNCHANGED <<graph, calls, unsure, raced, repeated>> /\ job' = NoJob /\ ~Quiet
      /\ http' = saved[3]
  BY DEF RollbackMessage, Undo, Conflict, Quiet, NoJob, scenario, history
<1>2. Quiet' /\ JobOK' /\ HttpOK(http)' /\ CallsOK' /\ (LoadedOK => LoadedOK')
  BY <1>1 DEF Quiet, JobOK, NoJob, MutationInv, HttpOK, CallsOK, LoadedOK, Slot
<1>3. Safe(saved[3]) => Safe(http)'
  BY <1>1, SavedBack DEF Quietly
<1> QED
  BY <1>1, <1>2, <1>3 DEF MutationInv

LEMMA RollbackCallStep == ASSUME MutationInv, RollbackCall PROVE MutationInv'
<1> DEFINE w == job.by
           s == Slot(w)
           h == saved[3]
<1>1. /\ UNCHANGED <<graph, unsure, raced, repeated>> /\ job' = NoJob /\ ~Quiet /\ w \in Workers
      /\ calls[w].pc = "opened" /\ calls[w] \in CallType /\ s \in Slots /\ h \in [Slots -> RowType]
  BY DEF RollbackCall, Undo, Conflict, Quiet, NoJob, scenario, history, MutationInv, JobOK, CallsOK,
         HttpOK
<1>2. Quiet' /\ JobOK'
  BY <1>1 DEF Quiet, JobOK, NoJob
<1>3. CASE calls[w].answer \in {"delay", "timeout"}
  <2>1. http' = h /\ Idles(w)
    BY <1>3 DEF RollbackCall, Idles
  <2>2. CallsOK' /\ calls'[w].pc = "idle" /\ \A v \in Workers \ {w} : calls'[v] = calls[v]
    BY <1>1, <2>1, IdleFacts DEF MutationInv
  <2>3. HttpOK(http)' /\ (LoadedOK => LoadedOK')
    BY <1>1, <2>1, <2>2 DEF HttpOK, LoadedOK
  <2>4. ASSUME Safe(h) PROVE Safe(http)'
    <3> SUFFICES ASSUME NEW t \in Slots, t \notin raced PROVE Single(http, t)' /\ Spent(http, t)'
      BY <1>1 DEF Safe
    <3>1. Single(h, t) /\ Spent(h, t)
      BY <2>4 DEF Safe
    <3>2. Single(http, t)'
      BY <1>1, <2>1, <2>2, <3>1 DEF Single, Claimer, Finisher, Slot
    <3>3. Spent(http, t)'
      BY <1>1, <2>1, <2>2, <3>1 DEF Spent, Claimer, Slot
    <3> QED
      BY <3>2, <3>3
  <2> QED
    BY <1>1, <1>2, <2>2, <2>3, <2>4 DEF MutationInv
<1>4. CASE calls[w].answer \notin {"delay", "timeout"}
  <2> DEFINE row == [h[s] EXCEPT !.status = "PROCESSING", !.lease = w]
             back == [calls[w] EXCEPT !.pc = "answered", !.answer = "unknown"]
  <2>1. http' = [h EXCEPT ![s] = row]
    BY <1>4 DEF RollbackCall, Slot
  <2>2. row \in RowType /\ row.status = "PROCESSING" /\ row.lease = w
    BY <1>1 DEF RowType, Rows
  <2> HIDE DEF row
  <2>3. HttpOK(http)' /\ http'[s] = row /\ \A t \in Slots \ {s} : http'[t] = h[t]
    BY <1>1, <2>1, <2>2 DEF HttpOK
  <2>4. /\ CallsOK' /\ Others(w)
        /\ \/ calls'[w].pc = "idle"
           \/ /\ calls'[w].pc = "answered" /\ calls'[w].answer = "unknown"
              /\ calls'[w].x = calls[w].x /\ calls'[w].n = calls[w].n
    <3>1. CASE Idles(w)
      BY <1>1, <3>1, IdleFacts DEF MutationInv, Others
    <3>2. CASE calls' = [calls EXCEPT ![w] = back]
      <4>1. back \in CallType /\ back.pc = "answered" /\ back.answer = "unknown"
            /\ back.x = calls[w].x /\ back.n = calls[w].n
        BY <1>1 DEF CallType, Answers
      <4> HIDE DEF back
      <4> QED
        BY <1>1, <3>2, <4>1, CallSet DEF MutationInv, Others, Slot
    <3> QED
      BY <3>1, <3>2 DEF RollbackCall, Idles
  <2>5. LoadedOK => LoadedOK'
    BY <2>4 DEF LoadedOK, Others, Answers
  <2>6. ASSUME Safe(h), LoadedOK PROVE Safe(http)'
    <3> SUFFICES ASSUME NEW t \in Slots, t \notin raced PROVE Single(http, t)' /\ Spent(http, t)'
      BY <1>1 DEF Safe
    <3>1. Single(h, t) /\ Spent(h, t)
      BY <2>6 DEF Safe
    <3>2. CASE t # s
      <4>1. http'[t] = h[t]
        BY <2>3, <3>2
      <4>2. Single(http, t)'
        BY <1>1, <2>4, <3>1, <3>2, <4>1 DEF Single, Claimer, Finisher, Slot, Others
      <4>3. Spent(http, t)'
        BY <1>1, <2>4, <3>1, <3>2, <4>1 DEF Spent, Claimer, Slot, Others
      <4> QED
        BY <4>2, <4>3
    <3>3. CASE t = s
      <4>1. Finisher(w, t)
        BY <1>1, <1>4, <2>6, <3>3 DEF Finisher, LoadedOK
      <4>2. (\A v \in Workers : ~Claimer(v, t)) /\ (\A v \in Workers \ {w} : ~Finisher(v, t))
        BY <1>1, <3>1, <4>1 DEF Single
      <4>3. http'[t].status = "PROCESSING" /\ http'[t].lease = w
        BY <2>2, <2>3, <3>3
      <4>4. Single(http, t)'
        BY <2>4, <4>2, <4>3 DEF Single, Claimer, Finisher, Slot, Others
      <4>5. Spent(http, t)'
        BY <1>1, <2>4, <4>2, <4>3 DEF Spent, Claimer, Slot, Others
      <4> QED
        BY <4>4, <4>5
    <3> QED
      BY <3>2, <3>3
  <2> QED
    BY <1>1, <1>2, <2>3, <2>4, <2>5, <2>6 DEF MutationInv
<1> QED
  BY <1>3, <1>4
-----------------------------------------------------------------------------
LEMMA MutationStutter == ASSUME MutationInv, UNCHANGED vars PROVE MutationInv'
<1>1. UNCHANGED <<graph, http, calls, job, saved, unsure, raced, repeated>>
  BY DEF vars, scenario, rows, walk, history
<1>2. Quietly /\ Quiet' = Quiet /\ JobOK' /\ CallsOK' /\ HttpOK(http)' /\ (~Quiet' => HttpOK(saved[3])')
  BY <1>1 DEF Quietly, Quiet, JobOK, CallsOK, HttpOK, Slot, MutationInv
<1>3. /\ LoadedOK => LoadedOK'
      /\ Safe(http) => Safe(http)'
      /\ Safe(saved[3]) => Safe(saved[3])'
  BY <1>1, <1>2, HttpKept, SavedKept DEF LoadedOK
<1> QED
  BY <1>1, <1>2, <1>3 DEF MutationInv

LEMMA MutationNext == MutationInv /\ [Next]_vars => MutationInv'
BY WalkStep, BeginStep, OpenContinuation, LoadStep, ClaimStep, SendStep, RetryStep, FinishStep,
   MarkStep, LapseStep, CrashStep, CommitStep, RollbackMessageStep, RollbackCallStep,
   MutationStutter DEF Next, Walk

(* A mutation whose fate is unknown is not sent again unless two calls met at
   its row, in any scenario, with any number of scans. *)
THEOREM AutomationMutationNotRepeated == Spec => []MutationNotRepeated
<1>1. MutationInv => MutationNotRepeated
  BY DEF MutationInv, MutationNotRepeated
<1> QED
  BY <1>1, MutationInit, MutationNext, PTL DEF Spec
-----------------------------------------------------------------------------
(* Executions are named by the path that leads to them. *)
Path(x) == /\ x \in Seq(Events \cup Nodes) /\ Len(x) \in 1..MaxDepth + 1
           /\ x[1] \in Events /\ \A i \in 2..Len(x) : x[i] \in Nodes

LEMMA IdsArePaths == \A x : x \in Ids <=> Path(x)
<1>0. MaxDepth + 1 \in Nat
  BY AutomationAssumption
<1>1. ASSUME NEW x \in SeqOf(Events \cup Nodes, MaxDepth + 1)
      PROVE  x \in Seq(Events \cup Nodes) /\ Len(x) \in 0..MaxDepth + 1
  BY <1>0, <1>1 DEF SeqOf
<1>2. ASSUME NEW x \in Seq(Events \cup Nodes), Len(x) \in 1..MaxDepth + 1
      PROVE  x \in SeqOf(Events \cup Nodes, MaxDepth + 1) /\ x # <<>>
  BY <1>0, <1>2 DEF SeqOf
<1>3. ASSUME NEW x \in Ids PROVE Path(x)
  <2>1. x \in Seq(Events \cup Nodes) /\ Len(x) \in 0..MaxDepth + 1 /\ x # <<>>
    BY <1>1, <1>3 DEF Ids
  <2>2. Len(x) # 0
    BY <2>1
  <2> QED
    BY <1>0, <1>3, <2>1, <2>2 DEF Ids, Path
<1>4. ASSUME NEW x, Path(x) PROVE x \in Ids
  BY <1>2, <1>4 DEF Ids, Path
<1> QED
  BY <1>3, <1>4

LEMMA Children ==
  ASSUME NEW x \in Ids, NEW n \in Nodes
  PROVE  /\ Parent(Child(x, n)) = x /\ Starter(Child(x, n)) = n
         /\ IsChild(Child(x, n)) /\ Child(x, n) # x
<1>1. x \in Seq(Events \cup Nodes) /\ Len(x) >= 1
  BY IdsArePaths DEF Path
<1> QED
  BY <1>1 DEF Child, Parent, Starter, IsChild, Front, Last

LEMMA Siblings ==
  ASSUME NEW x \in Ids, NEW y \in Ids, NEW n \in Nodes, NEW m \in Nodes, Child(x, n) = Child(y, m)
  PROVE  x = y /\ n = m
BY Children

LEMMA Parents ==
  ASSUME NEW x \in Ids, IsChild(x)
  PROVE  Parent(x) \in Ids /\ Starter(x) \in Nodes /\ Child(Parent(x), Starter(x)) = x
<1>1. Path(x) /\ Len(x) > 1 /\ MaxDepth \in Nat
  BY IdsArePaths, AutomationAssumption DEF IsChild
<1>2. Path(Parent(x)) /\ Starter(x) \in Nodes
  BY <1>1 DEF Path, Parent, Starter, Front, Last
<1>3. Child(Parent(x), Starter(x)) = x
  BY <1>1 DEF Path, Child, Parent, Starter, Front, Last
<1> QED
  BY <1>2, <1>3, IdsArePaths

LEMMA Firsts ==
  ASSUME NEW e \in Events
  PROVE  /\ <<e>> \in Ids /\ ~IsChild(<<e>>)
         /\ \A x \in Ids, n \in Nodes : Child(x, n) # <<e>>
<1>1. Path(<<e>>)
  BY AutomationAssumption DEF Path
<1>2. <<e>> \in Ids /\ ~IsChild(<<e>>)
  BY <1>1, IdsArePaths DEF IsChild
<1> QED
  BY <1>2, Children
-----------------------------------------------------------------------------
(* Who moves an execution.  The tables of executions ex and of rows rw, where a
   row (continuation or request) is fresh, live or over; the frames fs of the
   walk; and os, the calls that have claimed a row and not yet resumed. *)
RowStates  == {"fresh", "live", "over"}
WithRow    == {"delay", "wait", "http"}
Waits(n)   == [status |-> "WAITING", at |-> n]
Runs(n)    == [status |-> "RUNNING", at |-> n]
Active     == {"RUNNING", "WAITING", "PAUSED", "FAILED"}
Typed(ex, rw, fs, os) == /\ ex \in [Ids -> ExecType] /\ rw \in [Slots -> RowStates]
                         /\ fs \subseteq FrameType /\ os \subseteq Workers \X Slots

(* The nodes of a straight graph in order. *)
Order(g) == CHOOSE rank \in [Nodes -> 1..Cardinality(Nodes)] :
              \A n \in Nodes : \A m \in {g.next[n], g.alt[n]} \ {Nobody} : rank[n] < rank[m]
Before(g, n, m) == Order(g)[n] < Order(g)[m]

(* What a walk has not come to yet. *)
Fresh(ex, rw, x, n) == /\ rw[<<x, n>>] = "fresh"
                       /\ Child(x, n) \in Ids => ex[Child(x, n)].status = "NONE"
FreshFrom(g, ex, rw, x, n)  == \A m \in Nodes : m = n \/ Before(g, n, m) => Fresh(ex, rw, x, m)
FreshAfter(g, ex, rw, x, n) == \A m \in Nodes : Before(g, n, m) => Fresh(ex, rw, x, m)

(* Something will move it on from n: a row, a call that claimed one, a child. *)
Lives(rw, x, n)   == rw[<<x, n>>] = "live"
Claimed(os, x, n) == \E w \in Workers : <<w, <<x, n>>>> \in os
Begets(ex, x, n)  == Child(x, n) \in Ids /\ ex[Child(x, n)].status \in Active
Held(ex, rw, os, x, n) == Lives(rw, x, n) \/ Claimed(os, x, n) \/ Begets(ex, x, n)
Unheld(ex, rw, os, x)  == \A n \in Nodes : ~Held(ex, rw, os, x, n)
Sole(fs, x, f)        == f \in fs /\ f.x = x /\ \A h \in fs : h.x = x => h = f
Unframed(fs, x)        == \A f \in fs : f.x # x

(* What an execution can be doing. *)
Fits(g, ex, rw, x) == \A n \in Nodes :
  /\ rw[<<x, n>>] # "fresh" => g.kind[n] \in WithRow
  /\ Child(x, n) \in Ids /\ ex[Child(x, n)].status # "NONE" => g.kind[n] = "subflow"
Unborn(ex, rw, fs, os, x) ==
  ex[x].status = "NONE" /\ Unheld(ex, rw, os, x) /\ Unframed(fs, x) /\ \A n \in Nodes : Fresh(ex, rw, x, n)
Walks(g, ex, rw, fs, os, x) ==
  ex[x].status = "RUNNING" /\ Unheld(ex, rw, os, x)
  /\ \E f \in fs : /\ Sole(fs, x, f) /\ f.mode = "walk"
                   /\ f.n # Nobody => FreshFrom(g, ex, rw, x, f.n)
Resumes(g, ex, rw, fs, os, x) ==
  ex[x].status = "WAITING" /\ Unheld(ex, rw, os, x)
  /\ \E f \in fs : /\ Sole(fs, x, f) /\ f.mode = "resume" /\ f.n # Nobody
                   /\ FreshFrom(g, ex, rw, x, f.n)
StandsAt(g, ex, rw, fs, os, x, n) ==
  /\ ex[x] = Waits(n) /\ g.kind[n] \in Suspends /\ FreshAfter(g, ex, rw, x, n)
  /\ \A m \in Nodes : Held(ex, rw, os, x, m) <=> m = n
  /\ Claimed(os, x, n) => rw[<<x, n>>] = "over"
  /\ \A v, w \in Workers : <<v, <<x, n>>>> \in os /\ <<w, <<x, n>>>> \in os => v = w
  /\ \A f \in fs : f.x = x => f = Frame(x, n, "reply") /\ g.kind[n] = "wait" /\ Lives(rw, x, n)
Stands(g, ex, rw, fs, os, x) == \E n \in Nodes : StandsAt(g, ex, rw, fs, os, x, n)
Rests(ex, rw, fs, os, x) ==
  ex[x].status \in {"PAUSED", "COMPLETED", "FAILED"} /\ Unheld(ex, rw, os, x) /\ Unframed(fs, x)

Sound(g, ex, rw, fs, os, x) ==
  /\ Fits(g, ex, rw, x)
  /\ \/ Unborn(ex, rw, fs, os, x) \/ Walks(g, ex, rw, fs, os, x) \/ Resumes(g, ex, rw, fs, os, x)
     \/ Stands(g, ex, rw, fs, os, x) \/ Rests(ex, rw, fs, os, x)
Tables(g, ex, rw, fs, os) == /\ Typed(ex, rw, fs, os)
                             /\ \A x \in Ids : Sound(g, ex, rw, fs, os, x)

LEMMA Straightened ==
  ASSUME NEW g \in StraightGraphs
  PROVE  /\ g.kind \in [Nodes -> Kinds] /\ g.start \in Nodes /\ g.flow \in [Nodes -> Nodes]
         /\ g.next \in [Nodes -> Nodes \cup {Nobody}] /\ g.alt \in [Nodes -> Nodes \cup {Nobody}]
         /\ \A n \in Nodes : /\ g.kind[n] \in Suspends => g.next[n] \in Nodes
                             /\ g.kind[n] \in {"wait", "http"} => g.alt[n] \in Nodes
                             /\ g.kind[n] = "subflow" => g.await
<1>1. g \in ScenarioGraph /\ Straight(g)
  BY AutomationAssumption DEF StraightGraphs
<1> QED
  BY <1>1 DEF ScenarioGraph, Straight

LEMMA Ordered ==
  ASSUME NEW g \in StraightGraphs
  PROVE  /\ \A n \in Nodes : ~Before(g, n, n)
         /\ \A n, m, k \in Nodes : Before(g, n, m) /\ Before(g, m, k) => Before(g, n, k)
         /\ \A n \in Nodes : \A m \in {g.next[n], g.alt[n]} \ {Nobody} : Before(g, n, m)
<1>1. \E rank \in [Nodes -> 1..Cardinality(Nodes)] :
        \A k \in Nodes : \A l \in {g.next[k], g.alt[k]} \ {Nobody} : rank[k] < rank[l]
  BY DEF StraightGraphs, Straight
<1>2. /\ Order(g) \in [Nodes -> 1..Cardinality(Nodes)]
      /\ \A k \in Nodes : \A l \in {g.next[k], g.alt[k]} \ {Nobody} : Order(g)[k] < Order(g)[l]
  BY <1>1 DEF Order
<1>3. \A k \in Nodes : Order(g)[k] \in Int
  BY <1>2
<1> QED
  BY <1>2, <1>3 DEF Before

(* What follows n is fresh if everything after n is. *)
LEMMA Onward ==
  ASSUME NEW g \in StraightGraphs, NEW n \in Nodes, NEW m \in {g.next[n], g.alt[n]}, m # Nobody,
         NEW ex, NEW rw, NEW x, FreshAfter(g, ex, rw, x, n)
  PROVE  m \in Nodes /\ FreshFrom(g, ex, rw, x, m)
<1>1. m \in Nodes /\ \A k \in Nodes : k = m \/ Before(g, m, k) => Before(g, n, k)
  BY Straightened, Ordered
<1> QED
  BY <1>1 DEF FreshAfter, FreshFrom

(* An execution is as it was while nobody touches it or what it waits for. *)
Same(ex, rw, fs, os, ex2, rw2, fs2, os2, x) ==
  /\ ex2[x] = ex[x]
  /\ \A n \in Nodes : /\ rw2[<<x, n>>] = rw[<<x, n>>]
                      /\ \A w \in Workers : <<w, <<x, n>>>> \in os2 <=> <<w, <<x, n>>>> \in os
  /\ \A f : f.x = x => (f \in fs2 <=> f \in fs)
SameChildren(ex, ex2, x) == \A n \in Nodes : Child(x, n) \in Ids =>
  /\ ex2[Child(x, n)].status = "NONE" <=> ex[Child(x, n)].status = "NONE"
  /\ ex2[Child(x, n)].status \in Active <=> ex[Child(x, n)].status \in Active

LEMMA StaysSound ==
  ASSUME NEW g, NEW ex, NEW rw, NEW fs, NEW os, NEW ex2, NEW rw2, NEW fs2, NEW os2, NEW x \in Ids,
         Sound(g, ex, rw, fs, os, x), Same(ex, rw, fs, os, ex2, rw2, fs2, os2, x),
         SameChildren(ex, ex2, x)
  PROVE  Sound(g, ex2, rw2, fs2, os2, x)
<1>1. \A n \in Nodes : Fresh(ex2, rw2, x, n) <=> Fresh(ex, rw, x, n)
  BY DEF Same, SameChildren, Fresh
<1>2. \A n \in Nodes : /\ Lives(rw2, x, n) <=> Lives(rw, x, n)
                       /\ Claimed(os2, x, n) <=> Claimed(os, x, n)
                       /\ Begets(ex2, x, n) <=> Begets(ex, x, n)
  BY DEF Same, SameChildren, Lives, Claimed, Begets
<1>3. \A n \in Nodes : Held(ex2, rw2, os2, x, n) <=> Held(ex, rw, os, x, n)
  BY <1>2 DEF Held
<1>4. Unheld(ex2, rw2, os2, x) <=> Unheld(ex, rw, os, x)
  BY <1>3 DEF Unheld
<1>5. \A n : FreshFrom(g, ex2, rw2, x, n) <=> FreshFrom(g, ex, rw, x, n)
  BY <1>1 DEF FreshFrom
<1>6. \A n : FreshAfter(g, ex2, rw2, x, n) <=> FreshAfter(g, ex, rw, x, n)
  BY <1>1 DEF FreshAfter
<1>7. /\ Unframed(fs2, x) <=> Unframed(fs, x)
      /\ \A f : Sole(fs2, x, f) <=> Sole(fs, x, f)
  BY DEF Same, Unframed, Sole
<1>8. Fits(g, ex2, rw2, x)
  BY DEF Sound, Fits, Same, SameChildren
<1>9. Unborn(ex, rw, fs, os, x) => Unborn(ex2, rw2, fs2, os2, x)
  BY <1>1, <1>4, <1>7 DEF Unborn, Same
<1>10. Walks(g, ex, rw, fs, os, x) => Walks(g, ex2, rw2, fs2, os2, x)
  BY <1>4, <1>5, <1>7 DEF Walks, Same, Sole
<1>11. Resumes(g, ex, rw, fs, os, x) => Resumes(g, ex2, rw2, fs2, os2, x)
  BY <1>4, <1>5, <1>7 DEF Resumes, Same, Sole
<1>12. Rests(ex, rw, fs, os, x) => Rests(ex2, rw2, fs2, os2, x)
  BY <1>4, <1>7 DEF Rests, Same
<1>13. ASSUME NEW n \in Nodes, StandsAt(g, ex, rw, fs, os, x, n)
       PROVE  StandsAt(g, ex2, rw2, fs2, os2, x, n)
  BY <1>2, <1>3, <1>6, <1>13 DEF StandsAt, Same
<1>14. Stands(g, ex, rw, fs, os, x) => Stands(g, ex2, rw2, fs2, os2, x)
  BY <1>13 DEF Stands
<1> QED
  BY <1>8, <1>9, <1>10, <1>11, <1>12, <1>14 DEF Sound

(* A step touches the executions X and those alone. *)
Touches(ex, rw, fs, os, ex2, rw2, fs2, os2, X) ==
  /\ Typed(ex2, rw2, fs2, os2)
  /\ \A y \in Ids \ X : Same(ex, rw, fs, os, ex2, rw2, fs2, os2, y)
  /\ \A y \in X : IsChild(y) /\ Parent(y) \notin X =>
       /\ ex2[y].status = "NONE" <=> ex[y].status = "NONE"
       /\ ex2[y].status \in Active <=> ex[y].status \in Active

LEMMA Touched ==
  ASSUME NEW g, NEW ex, NEW rw, NEW fs, NEW os, NEW ex2, NEW rw2, NEW fs2, NEW os2, NEW X,
         Tables(g, ex, rw, fs, os), Touches(ex, rw, fs, os, ex2, rw2, fs2, os2, X),
         \A x \in X : Sound(g, ex2, rw2, fs2, os2, x)
  PROVE  Tables(g, ex2, rw2, fs2, os2)
<1>1. ASSUME NEW y \in Ids \ X PROVE Sound(g, ex2, rw2, fs2, os2, y)
  <2>1. ASSUME NEW n \in Nodes, Child(y, n) \in Ids
        PROVE  /\ ex2[Child(y, n)].status = "NONE" <=> ex[Child(y, n)].status = "NONE"
               /\ ex2[Child(y, n)].status \in Active <=> ex[Child(y, n)].status \in Active
    <3>1. IsChild(Child(y, n)) /\ Parent(Child(y, n)) \notin X
      BY Children
    <3> QED
      BY <2>1, <3>1 DEF Touches, Same
  <2>2. SameChildren(ex, ex2, y)
    BY <2>1 DEF SameChildren
  <2>3. Same(ex, rw, fs, os, ex2, rw2, fs2, os2, y) /\ Sound(g, ex, rw, fs, os, y)
    BY DEF Touches, Tables
  <2> QED
    BY <2>2, <2>3, StaysSound
<1> QED
  BY <1>1 DEF Tables, Touches
-----------------------------------------------------------------------------
(* The steps of a walk, one lemma each. *)
LEMMA Walker ==
  ASSUME NEW g \in StraightGraphs, NEW ex, NEW rw, NEW fs, NEW os, Tables(g, ex, rw, fs, os),
         NEW f \in fs, f.mode = "walk"
  PROVE  /\ f.x \in Ids /\ f.n \in Nodes \cup {Nobody} /\ Fits(g, ex, rw, f.x)
         /\ ex[f.x].status = "RUNNING" /\ Unheld(ex, rw, os, f.x) /\ Sole(fs, f.x, f)
         /\ f.n # Nobody => FreshFrom(g, ex, rw, f.x, f.n)
         /\ Unframed(fs \ {f}, f.x)
<1>1. f.x \in Ids /\ f.n \in Nodes \cup {Nobody}
  BY DEF Tables, Typed, FrameType
<1>2. Sound(g, ex, rw, fs, os, f.x)
  BY <1>1 DEF Tables
<1>3. ~Unborn(ex, rw, fs, os, f.x) /\ ~Rests(ex, rw, fs, os, f.x)
  BY DEF Unborn, Rests, Unframed
<1>4. ~Resumes(g, ex, rw, fs, os, f.x)
  BY DEF Resumes, Sole
<1>5. ~Stands(g, ex, rw, fs, os, f.x)
  <2> SUFFICES ASSUME NEW n \in Nodes, StandsAt(g, ex, rw, fs, os, f.x, n) PROVE FALSE
    BY DEF Stands
  <2>1. f = Frame(f.x, n, "reply")
    BY DEF StandsAt
  <2>2. f.mode = "reply"
    BY ONLY <2>1 DEF Frame
  <2> QED
    BY <2>2
<1>6. Walks(g, ex, rw, fs, os, f.x) /\ Fits(g, ex, rw, f.x)
  BY <1>2, <1>3, <1>4, <1>5 DEF Sound
<1>7. Sole(fs, f.x, f) /\ (f.n # Nobody => FreshFrom(g, ex, rw, f.x, f.n))
  BY <1>6 DEF Walks, Sole
<1> QED
  BY <1>1, <1>6, <1>7 DEF Walks, Sole, Unframed

(* It goes on to another node, or to the end. *)
LEMMA Goes ==
  ASSUME NEW g \in StraightGraphs, NEW ex, NEW rw, NEW fs, NEW os, Tables(g, ex, rw, fs, os),
         NEW f \in fs, f.mode = "walk", f.n \in Nodes, NEW m \in {g.next[f.n], g.alt[f.n], Nobody}
  PROVE  Tables(g, ex, rw, (fs \ {f}) \cup {Frame(f.x, m, "walk")}, os)
<1> DEFINE h == Frame(f.x, m, "walk")
           fs2 == (fs \ {f}) \cup {h}
<1>1. m \in Nodes \cup {Nobody}
  BY Straightened
<1>2. /\ f.x \in Ids /\ ex[f.x].status = "RUNNING" /\ Unheld(ex, rw, os, f.x) /\ Fits(g, ex, rw, f.x)
      /\ FreshFrom(g, ex, rw, f.x, f.n) /\ Sole(fs, f.x, f) /\ Unframed(fs \ {f}, f.x)
  BY Walker, AutomationAssumption
<1>3. h \in FrameType /\ h.x = f.x /\ h.n = m /\ h.mode = "walk"
  BY <1>1, <1>2 DEF Frame, FrameType
<1> HIDE DEF h
<1>4. m # Nobody => FreshFrom(g, ex, rw, f.x, m)
  BY <1>2, Onward DEF FreshFrom, FreshAfter
<1>5. Sole(fs2, f.x, h)
  BY <1>2, <1>3 DEF Sole, Unframed
<1>6. Sound(g, ex, rw, fs2, os, f.x)
  BY <1>2, <1>3, <1>4, <1>5 DEF Sound, Walks, Sole
<1>7. Touches(ex, rw, fs, os, ex, rw, fs2, os, {f.x})
  BY <1>2, <1>3 DEF Touches, Tables, Typed, Same
<1> QED
  BY <1>6, <1>7, Touched DEF h

(* What is fresh, held or framed after one execution changed. *)
LEMMA Suspended ==
  ASSUME NEW g \in StraightGraphs, NEW ex, NEW rw, NEW fs, NEW os, Tables(g, ex, rw, fs, os),
         NEW f \in fs, f.mode = "walk", f.n \in Nodes, g.kind[f.n] \in WithRow
  PROVE  /\ rw[<<f.x, f.n>>] = "fresh"
         /\ Tables(g, [ex EXCEPT ![f.x] = Waits(f.n)], [rw EXCEPT ![<<f.x, f.n>>] = "live"],
                   fs \ {f}, os)
<1> DEFINE x == f.x
           n == f.n
           ex2 == [ex EXCEPT ![f.x] = Waits(f.n)]
           rw2 == [rw EXCEPT ![<<f.x, f.n>>] = "live"]
           fs2 == fs \ {f}
<1>1. /\ x \in Ids /\ ex[x].status = "RUNNING" /\ Unheld(ex, rw, os, x) /\ Fits(g, ex, rw, x)
      /\ FreshFrom(g, ex, rw, x, n) /\ Sole(fs, x, f) /\ Unframed(fs2, x)
  BY Walker, AutomationAssumption
<1>2. n \in Nodes /\ <<x, n>> \in Slots /\ ex \in [Ids -> ExecType] /\ rw \in [Slots -> RowStates]
  BY <1>1 DEF Tables, Typed, Slots
<1>3. /\ ex2 \in [Ids -> ExecType] /\ ex2[x] = Waits(n) /\ \A y \in Ids \ {x} : ex2[y] = ex[y]
      /\ ex2[x].status = "WAITING" /\ ex2[x].at = n
  BY <1>1, <1>2 DEF ExecType, Waits, Execs
<1>4. /\ rw2 \in [Slots -> RowStates] /\ rw2[<<x, n>>] = "live"
      /\ \A y \in Ids, m \in Nodes : y # x \/ m # n => rw2[<<y, m>>] = rw[<<y, m>>]
  BY <1>1, <1>2 DEF RowStates, Slots
<1>5. Touches(ex, rw, fs, os, ex2, rw2, fs2, os, {x})
  <2>1. Typed(ex2, rw2, fs2, os)
    BY <1>3, <1>4 DEF Tables, Typed
  <2>2. \A y \in Ids \ {x} : Same(ex, rw, fs, os, ex2, rw2, fs2, os, y)
    BY <1>3, <1>4 DEF Same
  <2> QED
    BY <1>1, <1>3, <2>1, <2>2 DEF Touches, Active
<1>6. rw[<<x, n>>] = "fresh" /\ Fresh(ex, rw, x, n)
  BY <1>2, <1>1 DEF FreshFrom, Fresh
<1>7. \A m \in Nodes : Child(x, m) \in Ids => ex2[Child(x, m)] = ex[Child(x, m)]
  BY <1>1, <1>3, Children
<1> HIDE DEF x, n, ex2, rw2, fs2
<1>8. FreshAfter(g, ex2, rw2, x, n)
  <2> SUFFICES ASSUME NEW m \in Nodes, Before(g, n, m) PROVE Fresh(ex2, rw2, x, m)
    BY DEF FreshAfter
  <2>1. m # n
    BY <1>2, Ordered
  <2> QED
    BY <1>1, <1>4, <1>7, <2>1 DEF FreshFrom, Fresh
<1>9. \A m \in Nodes : Held(ex2, rw2, os, x, m) <=> m = n
  BY <1>1, <1>4, <1>7 DEF Unheld, Held, Lives, Claimed, Begets
<1>10. ~Claimed(os, x, n)
  BY <1>1, <1>2 DEF Unheld, Held
<1>11. StandsAt(g, ex2, rw2, fs2, os, x, n)
  BY <1>1, <1>3, <1>8, <1>9, <1>10 DEF StandsAt, Unframed, Claimed, WithRow, Suspends, n
<1>12. Fits(g, ex2, rw2, x)
  BY <1>1, <1>4, <1>7 DEF Fits, n
<1>13. Sound(g, ex2, rw2, fs2, os, x)
  BY <1>2, <1>11, <1>12 DEF Sound, Stands
<1> QED
  BY <1>5, <1>6, <1>13, Touched DEF x, n, ex2, rw2, fs2

(* It fails. *)
LEMMA Fails ==
  ASSUME NEW g \in StraightGraphs, NEW ex, NEW rw, NEW fs, NEW os, Tables(g, ex, rw, fs, os),
         NEW f \in fs, f.mode = "walk"
  PROVE  Tables(g, [ex EXCEPT ![f.x] = [status |-> "FAILED", at |-> Nobody]], rw, fs \ {f}, os)
<1> DEFINE x == f.x
           ex2 == [ex EXCEPT ![f.x] = [status |-> "FAILED", at |-> Nobody]]
           fs2 == fs \ {f}
<1>1. /\ x \in Ids /\ ex[x].status = "RUNNING" /\ Unheld(ex, rw, os, x) /\ Fits(g, ex, rw, x)
      /\ Unframed(fs2, x)
  BY Walker
<1>2. ex \in [Ids -> ExecType]
  BY DEF Tables, Typed
<1>3. ex2 \in [Ids -> ExecType] /\ ex2[x].status = "FAILED" /\ \A y \in Ids \ {x} : ex2[y] = ex[y]
  BY <1>1, <1>2 DEF ExecType, Execs
<1>4. \A m \in Nodes : Child(x, m) \in Ids => ex2[Child(x, m)] = ex[Child(x, m)]
  BY <1>1, <1>3, Children
<1>5. Touches(ex, rw, fs, os, ex2, rw, fs2, os, {x})
  BY <1>1, <1>3 DEF Touches, Tables, Typed, Same, Active
<1> HIDE DEF x, ex2, fs2
<1>6. Fits(g, ex2, rw, x) /\ Unheld(ex2, rw, os, x)
  BY <1>1, <1>4 DEF Fits, Unheld, Held, Lives, Claimed, Begets
<1>7. Sound(g, ex2, rw, fs2, os, x)
  BY <1>1, <1>3, <1>6 DEF Sound, Rests
<1> QED
  BY <1>5, <1>7, Touched DEF x, ex2, fs2
-----------------------------------------------------------------------------
(* Whatever holds an execution at a node, it stands there. *)
LEMMA HeldStands ==
  ASSUME NEW g, NEW ex, NEW rw, NEW fs, NEW os, Tables(g, ex, rw, fs, os),
         NEW x \in Ids, NEW n \in Nodes, Held(ex, rw, os, x, n)
  PROVE  StandsAt(g, ex, rw, fs, os, x, n) /\ Fits(g, ex, rw, x)
<1>1. Sound(g, ex, rw, fs, os, x) /\ ~Unheld(ex, rw, os, x)
  BY DEF Tables, Unheld
<1>2. Stands(g, ex, rw, fs, os, x)
  BY <1>1 DEF Sound, Unborn, Walks, Resumes, Rests
<1>3. PICK m \in Nodes : StandsAt(g, ex, rw, fs, os, x, m)
  BY <1>2 DEF Stands
<1>4. m = n
  BY <1>3 DEF StandsAt
<1> QED
  BY <1>1, <1>3, <1>4 DEF Sound

LEMMA NoneFresh ==
  ASSUME NEW g, NEW ex, NEW rw, NEW fs, NEW os, Tables(g, ex, rw, fs, os),
         NEW x \in Ids, ex[x].status = "NONE"
  PROVE  Unborn(ex, rw, fs, os, x) /\ Fits(g, ex, rw, x)
<1>1. Sound(g, ex, rw, fs, os, x)
  BY DEF Tables
<1>2. ~Stands(g, ex, rw, fs, os, x)
  <2> SUFFICES ASSUME NEW n \in Nodes, ex[x] = Waits(n) PROVE FALSE
    BY DEF Stands, StandsAt
  <2> QED
    BY DEF Waits
<1> QED
  BY <1>1, <1>2 DEF Sound, Walks, Resumes, Rests

(* An execution that begins walks from any node. *)
LEMMA Born ==
  ASSUME NEW g, NEW ex, NEW rw, NEW fs, NEW os, Tables(g, ex, rw, fs, os),
         NEW x \in Ids, ex[x].status = "NONE", NEW m \in Nodes,
         NEW ex2, NEW fs2, ex2[x].status = "RUNNING",
         \A n \in Nodes : Child(x, n) \in Ids => ex2[Child(x, n)] = ex[Child(x, n)],
         Sole(fs2, x, Frame(x, m, "walk"))
  PROVE  Sound(g, ex2, rw, fs2, os, x)
<1> DEFINE h == Frame(x, m, "walk")
<1>1. Unborn(ex, rw, fs, os, x) /\ Fits(g, ex, rw, x)
  BY NoneFresh
<1>2. h.x = x /\ h.n = m /\ h.mode = "walk"
  BY DEF Frame
<1>3. Sole(fs2, x, h)
  OBVIOUS
<1> HIDE DEF h
<1>4. FreshFrom(g, ex2, rw, x, m)
  BY <1>1 DEF FreshFrom, Unborn, Fresh
<1>5. Unheld(ex2, rw, os, x) /\ Fits(g, ex2, rw, x)
  BY <1>1 DEF Unborn, Unheld, Held, Lives, Claimed, Begets, Fits
<1> QED
  BY <1>2, <1>3, <1>4, <1>5 DEF Sound, Walks, Sole

(* It starts a subflow and waits for it. *)
LEMMA Starts ==
  ASSUME NEW g \in StraightGraphs, NEW ex, NEW rw, NEW fs, NEW os, Tables(g, ex, rw, fs, os),
         NEW f \in fs, f.mode = "walk", f.n \in Nodes, g.kind[f.n] = "subflow",
         NEW c \in Ids, c = Child(f.x, f.n)
  PROVE  /\ ex[c].status = "NONE" /\ Unframed(fs, c)
         /\ Tables(g, [[ex EXCEPT ![c] = Runs(Nobody)] EXCEPT ![f.x] = Waits(f.n)], rw,
                   (fs \ {f}) \cup {Frame(c, g.flow[f.n], "walk")}, os)
<1> DEFINE x == f.x
           n == f.n
           k == g.flow[f.n]
           h == Frame(c, k, "walk")
           ex2 == [[ex EXCEPT ![c] = Runs(Nobody)] EXCEPT ![f.x] = Waits(f.n)]
           fs2 == (fs \ {f}) \cup {h}
<1>1. /\ x \in Ids /\ ex[x].status = "RUNNING" /\ Unheld(ex, rw, os, x) /\ Fits(g, ex, rw, x)
      /\ FreshFrom(g, ex, rw, x, n) /\ Sole(fs, x, f) /\ Unframed(fs \ {f}, x)
  BY Walker, AutomationAssumption
<1>2. n \in Nodes /\ k \in Nodes /\ ex \in [Ids -> ExecType] /\ c = Child(x, n)
  BY Straightened DEF Tables, Typed
<1>3. h \in FrameType /\ h.x = c /\ h.n = k /\ h.mode = "walk"
  BY <1>2 DEF Frame, FrameType
<1>4. c # x /\ IsChild(c) /\ Parent(c) = x
  BY <1>1, <1>2, Children
<1>5. /\ ex2 \in [Ids -> ExecType] /\ ex2[x] = Waits(n) /\ ex2[c] = Runs(Nobody)
      /\ \A y \in Ids \ {x, c} : ex2[y] = ex[y]
  BY <1>1, <1>2, <1>4 DEF ExecType, Waits, Runs, Execs
<1>6. ex[c].status = "NONE" /\ Fresh(ex, rw, x, n)
  BY <1>1, <1>2 DEF FreshFrom, Fresh
<1>7. Unborn(ex, rw, fs, os, c) /\ Unframed(fs, c)
  BY <1>6, NoneFresh DEF Unborn
<1>8. ex2[x].status = "WAITING" /\ ex2[c].status = "RUNNING"
  BY <1>5 DEF Waits, Runs
<1> HIDE DEF h, ex2, x, n, k
<1>9. Touches(ex, rw, fs, os, ex2, rw, fs2, os, {x, c})
  <2>1. Typed(ex2, rw, fs2, os)
    BY <1>3, <1>5 DEF Tables, Typed
  <2>2. \A y \in Ids \ {x, c} : Same(ex, rw, fs, os, ex2, rw, fs2, os, y)
    BY <1>3, <1>5 DEF Same, x
  <2> QED
    BY <1>1, <1>4, <1>8, <2>1, <2>2 DEF Touches, Active
<1>10. Sound(g, ex2, rw, fs2, os, c)
  <2>1. Sole(fs2, c, h)
    BY <1>3, <1>7 DEF Sole, Unframed
  <2>2. \A m \in Nodes : Child(c, m) \in Ids => ex2[Child(c, m)] = ex[Child(c, m)]
    <3> SUFFICES ASSUME NEW m \in Nodes, Child(c, m) \in Ids PROVE ex2[Child(c, m)] = ex[Child(c, m)]
      OBVIOUS
    <3>1. Child(c, m) # c
      BY Children
    <3>2. Child(c, m) # x
      BY <1>1, <1>7 DEF Unborn, Fresh
    <3> QED
      BY <1>5, <3>1, <3>2
  <2> QED
    BY <1>2, <1>6, <1>8, <2>1, <2>2, Born DEF h
<1>11. \A m \in Nodes : m # n /\ Child(x, m) \in Ids => ex2[Child(x, m)] = ex[Child(x, m)]
  BY <1>1, <1>2, <1>5, Children, Siblings
<1>12. FreshAfter(g, ex2, rw, x, n)
  <2> SUFFICES ASSUME NEW m \in Nodes, Before(g, n, m) PROVE Fresh(ex2, rw, x, m)
    BY DEF FreshAfter
  <2>1. m # n
    BY <1>2, Ordered
  <2> QED
    BY <1>1, <1>11, <2>1 DEF FreshFrom, Fresh
<1>13. \A m \in Nodes : Held(ex2, rw, os, x, m) <=> m = n
  <2>1. Held(ex2, rw, os, x, n)
    BY <1>2, <1>8 DEF Held, Begets, Active
  <2>2. ASSUME NEW m \in Nodes, m # n PROVE ~Held(ex2, rw, os, x, m)
    BY <1>1, <1>11, <2>2 DEF Unheld, Held, Lives, Claimed, Begets
  <2> QED
    BY <2>1, <2>2
<1>14. ~Claimed(os, x, n) /\ Unframed(fs2, x)
  BY <1>1, <1>2, <1>3, <1>4 DEF Unheld, Held, Unframed
<1>15. StandsAt(g, ex2, rw, fs2, os, x, n)
  BY <1>5, <1>12, <1>13, <1>14 DEF StandsAt, Unframed, Claimed, Suspends, n
<1>16. Fits(g, ex2, rw, x)
  BY <1>1, <1>11 DEF Fits, n
<1>17. Sound(g, ex2, rw, fs2, os, x)
  BY <1>2, <1>15, <1>16 DEF Sound, Stands
<1> QED
  BY <1>6, <1>7, <1>9, <1>10, <1>17, Touched DEF x, n, k, h, ex2

(* It completes. *)
Completed == [status |-> "COMPLETED", at |-> Nobody]

LEMMA Rested ==
  ASSUME NEW g \in StraightGraphs, NEW ex, NEW rw, NEW fs, NEW os, Tables(g, ex, rw, fs, os),
         NEW f \in fs, f.mode = "walk", NEW fs2, Unframed(fs2, f.x)
  PROVE  Sound(g, [ex EXCEPT ![f.x] = Completed], rw, fs2, os, f.x)
<1> DEFINE x == f.x
           ex2 == [ex EXCEPT ![f.x] = Completed]
<1>1. x \in Ids /\ Unheld(ex, rw, os, x) /\ Fits(g, ex, rw, x)
  BY Walker
<1>2. ex \in [Ids -> ExecType]
  BY DEF Tables, Typed
<1>3. ex2[x].status = "COMPLETED" /\ \A y \in Ids \ {x} : ex2[y] = ex[y]
  BY <1>1, <1>2 DEF Completed
<1>4. \A m \in Nodes : Child(x, m) \in Ids => ex2[Child(x, m)] = ex[Child(x, m)]
  BY <1>1, <1>3, Children
<1>5. Unframed(fs2, x)
  OBVIOUS
<1> HIDE DEF x, ex2
<1>6. Fits(g, ex2, rw, x) /\ Unheld(ex2, rw, os, x)
  BY <1>1, <1>4 DEF Fits, Unheld, Held, Lives, Claimed, Begets
<1> QED
  BY <1>3, <1>5, <1>6 DEF Sound, Rests, x, ex2

LEMMA Finishes ==
  ASSUME NEW g \in StraightGraphs, NEW ex, NEW rw, NEW fs, NEW os, Tables(g, ex, rw, fs, os),
         NEW f \in fs, f.mode = "walk", ~IsChild(f.x)
  PROVE  Tables(g, [ex EXCEPT ![f.x] = Completed], rw, fs \ {f}, os)
<1> DEFINE ex2 == [ex EXCEPT ![f.x] = Completed]
<1>1. f.x \in Ids /\ Unframed(fs \ {f}, f.x)
  BY Walker
<1>2. ex2 \in [Ids -> ExecType] /\ \A y \in Ids \ {f.x} : ex2[y] = ex[y]
  BY <1>1 DEF Tables, Typed, ExecType, Completed, Execs
<1>3. Sound(g, ex2, rw, fs \ {f}, os, f.x)
  BY <1>1, Rested
<1> HIDE DEF ex2
<1>4. Touches(ex, rw, fs, os, ex2, rw, fs \ {f}, os, {f.x})
  BY <1>2 DEF Touches, Tables, Typed, Same
<1> QED
  BY <1>3, <1>4, Touched DEF ex2
-----------------------------------------------------------------------------
(* The parent of what completes is waiting for it, and goes on. *)
LEMMA Returns ==
  ASSUME NEW g \in StraightGraphs, NEW ex, NEW rw, NEW fs, NEW os, Tables(g, ex, rw, fs, os),
         NEW f \in fs, f.mode = "walk", IsChild(f.x), NEW y \in Ids, y = Parent(f.x)
  PROVE  /\ ex[y].status = "WAITING" /\ Unframed(fs, y)
         /\ Tables(g, [ex EXCEPT ![f.x] = Completed], rw,
                   (fs \ {f}) \cup {Frame(y, g.next[Starter(f.x)], "resume")}, os)
<1> DEFINE x == f.x
           n == Starter(f.x)
           k == g.next[Starter(f.x)]
           h == Frame(y, k, "resume")
           ex2 == [ex EXCEPT ![f.x] = Completed]
           fs2 == (fs \ {f}) \cup {h}
<1>1. x \in Ids /\ ex[x].status = "RUNNING" /\ Unframed(fs \ {f}, x)
  BY Walker
<1>2. n \in Nodes /\ Child(y, n) = x /\ y # x /\ y = Parent(x)
  BY <1>1, Parents, Children
<1>3. ex \in [Ids -> ExecType] /\ k \in Nodes \cup {Nobody}
  BY <1>2, Straightened DEF Tables, Typed
<1>4. /\ ex2 \in [Ids -> ExecType] /\ ex2[x].status = "COMPLETED" /\ ex2[y] = ex[y]
      /\ \A z \in Ids \ {x} : ex2[z] = ex[z]
  BY <1>1, <1>2, <1>3 DEF ExecType, Completed, Execs
<1>5. h \in FrameType /\ h.x = y /\ h.n = k /\ h.mode = "resume"
  BY <1>3 DEF Frame, FrameType
<1>6. Begets(ex, y, n) /\ Held(ex, rw, os, y, n)
  BY <1>1, <1>2 DEF Begets, Held, Active
<1>7. StandsAt(g, ex, rw, fs, os, y, n) /\ Fits(g, ex, rw, y)
  BY <1>2, <1>6, HeldStands
<1>8. g.kind[n] = "subflow" /\ ~Lives(rw, y, n) /\ ~Claimed(os, y, n)
  <2>1. g.kind[n] = "subflow"
    BY <1>1, <1>2, <1>7 DEF Fits
  <2> QED
    BY <1>2, <1>7, <2>1 DEF Fits, StandsAt, Lives, WithRow
<1>9. k \in Nodes /\ k # Nobody /\ g.kind[n] \in Suspends
  BY <1>2, <1>8, Straightened, AutomationAssumption DEF Suspends
<1>10. Unframed(fs, y)
  BY <1>7, <1>8 DEF StandsAt, Unframed
<1>11. Sound(g, ex2, rw, fs2, os, x)
  <2>1. Unframed(fs2, x)
    BY <1>1, <1>2, <1>5 DEF Unframed
  <2> QED
    BY <2>1, Rested
<1>12. k \in {g.next[n], g.alt[n]} /\ ex[y].status = "WAITING"
  BY <1>7 DEF StandsAt, Waits
<1> HIDE DEF x, n, k, h, ex2
<1>13. \A m \in Nodes : m # n /\ Child(y, m) \in Ids => ex2[Child(y, m)] = ex[Child(y, m)]
  BY <1>2, <1>4, Siblings
<1>14. FreshFrom(g, ex2, rw, y, k)
  <2>1. FreshFrom(g, ex, rw, y, k)
    BY <1>2, <1>7, <1>9, <1>12, Onward DEF StandsAt
  <2>2. \A m \in Nodes : Fresh(ex, rw, y, m) => Fresh(ex2, rw, y, m)
    BY <1>1, <1>2, <1>13 DEF Fresh
  <2> QED
    BY <2>1, <2>2 DEF FreshFrom
<1>15. Unheld(ex2, rw, os, y)
  <2>1. ~Held(ex2, rw, os, y, n)
    BY <1>2, <1>4, <1>8 DEF Held, Begets, Active
  <2>2. ASSUME NEW m \in Nodes, m # n PROVE ~Held(ex2, rw, os, y, m)
    BY <1>7, <1>13, <2>2 DEF StandsAt, Held, Begets
  <2> QED
    BY <2>1, <2>2 DEF Unheld
<1>16. Fits(g, ex2, rw, y)
  BY <1>7, <1>8, <1>13 DEF Fits
<1>17. Sole(fs2, y, h)
  BY <1>5, <1>10 DEF Sole, Unframed
<1>18. Sound(g, ex2, rw, fs2, os, y)
  BY <1>4, <1>5, <1>9, <1>12, <1>14, <1>15, <1>16, <1>17 DEF Sound, Resumes, Sole
<1>19. Touches(ex, rw, fs, os, ex2, rw, fs2, os, {x, y})
  <2>1. Typed(ex2, rw, fs2, os)
    BY <1>4, <1>5 DEF Tables, Typed
  <2>2. \A z \in Ids \ {x, y} : Same(ex, rw, fs, os, ex2, rw, fs2, os, z)
    BY <1>4, <1>5 DEF Same, x
  <2> QED
    BY <1>2, <1>4, <2>1, <2>2 DEF Touches
<1> QED
  BY <1>10, <1>11, <1>12, <1>18, <1>19, Touched DEF x, n, k, h, ex2

(* A parent that is resumed is waiting, and walks on. *)
LEMMA Resumed ==
  ASSUME NEW g \in StraightGraphs, NEW ex, NEW rw, NEW fs, NEW os, Tables(g, ex, rw, fs, os),
         NEW f \in fs, f.mode = "resume"
  PROVE  /\ ex[f.x].status = "WAITING" /\ f.n # Nobody
         /\ Tables(g, [ex EXCEPT ![f.x] = Runs(f.n)], rw,
                   (fs \ {f}) \cup {Frame(f.x, f.n, "walk")}, os)
<1> DEFINE x == f.x
           h == Frame(f.x, f.n, "walk")
           ex2 == [ex EXCEPT ![f.x] = Runs(f.n)]
           fs2 == (fs \ {f}) \cup {h}
<1>1. x \in Ids /\ f.n \in Nodes \cup {Nobody} /\ ex \in [Ids -> ExecType]
  BY DEF Tables, Typed, FrameType
<1>2. Resumes(g, ex, rw, fs, os, x) /\ Fits(g, ex, rw, x)
  <2>1. Sound(g, ex, rw, fs, os, x)
    BY <1>1 DEF Tables
  <2>2. ~Unborn(ex, rw, fs, os, x) /\ ~Rests(ex, rw, fs, os, x) /\ ~Walks(g, ex, rw, fs, os, x)
    BY DEF Unborn, Rests, Unframed, Walks, Sole
  <2>3. ASSUME NEW n \in Nodes, StandsAt(g, ex, rw, fs, os, x, n) PROVE FALSE
    <3>1. f = Frame(x, n, "reply")
      BY <2>3 DEF StandsAt
    <3>2. f.mode = "reply"
      BY ONLY <3>1 DEF Frame
    <3> QED
      BY <3>2
  <2> QED
    BY <2>1, <2>2, <2>3 DEF Sound, Stands
<1>3. /\ Sole(fs, x, f) /\ f.n # Nobody /\ FreshFrom(g, ex, rw, x, f.n)
      /\ Unheld(ex, rw, os, x) /\ ex[x].status = "WAITING"
  BY <1>2 DEF Resumes, Sole
<1>4. h \in FrameType /\ h.x = x /\ h.n = f.n /\ h.mode = "walk"
  BY <1>1 DEF Frame, FrameType
<1>5. /\ ex2 \in [Ids -> ExecType] /\ ex2[x].status = "RUNNING"
      /\ \A z \in Ids \ {x} : ex2[z] = ex[z]
  BY <1>1 DEF ExecType, Runs, Execs
<1>6. Sole(fs2, x, h)
  BY <1>3, <1>4 DEF Sole
<1>7. \A m \in Nodes : Child(x, m) \in Ids => ex2[Child(x, m)] = ex[Child(x, m)]
  BY <1>1, <1>5, Children
<1>8. Touches(ex, rw, fs, os, ex2, rw, fs2, os, {x})
  BY <1>1, <1>3, <1>4, <1>5 DEF Touches, Tables, Typed, Same, Active
<1> HIDE DEF x, h, ex2, fs2
<1>9. FreshFrom(g, ex2, rw, x, f.n) /\ Fits(g, ex2, rw, x) /\ Unheld(ex2, rw, os, x)
  BY <1>2, <1>3, <1>7 DEF FreshFrom, Fresh, Fits, Unheld, Held, Begets
<1>10. Sound(g, ex2, rw, fs2, os, x)
  BY <1>4, <1>5, <1>6, <1>9 DEF Sound, Walks, Sole
<1> QED
  BY <1>3, <1>8, <1>10, Touched DEF x, h, ex2, fs2
-----------------------------------------------------------------------------
(* The steps of the calls and of the messages. *)
LEMMA RowSet ==
  ASSUME NEW rw \in [Slots -> RowStates], NEW x \in Ids, NEW n \in Nodes, NEW v \in RowStates
  PROVE  /\ [rw EXCEPT ![<<x, n>>] = v] \in [Slots -> RowStates]
         /\ [rw EXCEPT ![<<x, n>>] = v][<<x, n>>] = v
         /\ \A y \in Ids, m \in Nodes : y # x \/ m # n => [rw EXCEPT ![<<x, n>>] = v][<<y, m>>] = rw[<<y, m>>]
BY DEF Slots

LEMMA LiveStands ==
  ASSUME NEW g, NEW ex, NEW rw, NEW fs, NEW os, Tables(g, ex, rw, fs, os),
         NEW x \in Ids, NEW n \in Nodes, rw[<<x, n>>] = "live"
  PROVE  /\ StandsAt(g, ex, rw, fs, os, x, n) /\ Fits(g, ex, rw, x) /\ g.kind[n] \in WithRow
         /\ ex[x] = Waits(n) /\ ex[x].status = "WAITING"
         /\ ~Claimed(os, x, n) /\ ~Begets(ex, x, n)
<1>1. StandsAt(g, ex, rw, fs, os, x, n) /\ Fits(g, ex, rw, x)
  BY HeldStands DEF Held, Lives
<1>2. g.kind[n] \in WithRow
  BY <1>1 DEF Fits
<1>3. ~Begets(ex, x, n)
  <2> SUFFICES ASSUME Begets(ex, x, n) PROVE FALSE
    OBVIOUS
  <2>1. Child(x, n) \in Ids /\ ex[Child(x, n)].status # "NONE"
    BY DEF Begets, Active
  <2>2. g.kind[n] = "subflow"
    BY <1>1, <2>1 DEF Fits
  <2> QED
    BY <1>2, <2>2 DEF WithRow
<1>4. ~Claimed(os, x, n) /\ ex[x] = Waits(n)
  BY <1>1 DEF StandsAt
<1>5. ex[x].status = "WAITING"
  BY <1>4 DEF Waits
<1> QED
  BY <1>1, <1>2, <1>3, <1>4, <1>5

(* An answer resolves its wait and resumes. *)
LEMMA Replied ==
  ASSUME NEW g \in StraightGraphs, NEW ex, NEW rw, NEW fs, NEW os, Tables(g, ex, rw, fs, os),
         NEW f \in fs, f.mode = "reply"
  PROVE  /\ f.n \in Nodes /\ g.kind[f.n] = "wait" /\ rw[<<f.x, f.n>>] = "live"
         /\ Tables(g, ex, [rw EXCEPT ![<<f.x, f.n>>] = "over"],
                   (fs \ {f}) \cup {Frame(f.x, g.next[f.n], "resume")}, os)
<1> DEFINE x == f.x
           n == f.n
           k == g.next[f.n]
           h == Frame(f.x, k, "resume")
           rw2 == [rw EXCEPT ![<<x, n>>] = "over"]
           fs2 == (fs \ {f}) \cup {h}
<1>1. x \in Ids /\ rw \in [Slots -> RowStates]
  BY DEF Tables, Typed, FrameType
<1>2. PICK i \in Nodes : StandsAt(g, ex, rw, fs, os, x, i)
  <2>1. Sound(g, ex, rw, fs, os, x)
    BY <1>1 DEF Tables
  <2>2. ~Unborn(ex, rw, fs, os, x) /\ ~Rests(ex, rw, fs, os, x) /\ ~Walks(g, ex, rw, fs, os, x)
    BY DEF Unborn, Rests, Unframed, Walks, Sole
  <2>3. ~Resumes(g, ex, rw, fs, os, x)
    BY DEF Resumes, Sole
  <2> QED
    BY <2>1, <2>2, <2>3 DEF Sound, Stands
<1>3. f = Frame(x, i, "reply") /\ g.kind[i] = "wait" /\ Lives(rw, x, i)
  BY <1>2 DEF StandsAt
<1>4. f.n = i
  BY ONLY <1>3 DEF Frame
<1>5. n \in Nodes /\ g.kind[n] = "wait" /\ rw[<<x, n>>] = "live" /\ StandsAt(g, ex, rw, fs, os, x, n)
  BY <1>2, <1>3, <1>4 DEF Lives
<1>6. /\ Fits(g, ex, rw, x) /\ ~Claimed(os, x, n) /\ ~Begets(ex, x, n) /\ ex[x].status = "WAITING"
  BY <1>1, <1>5, LiveStands
<1>7. k \in Nodes /\ k # Nobody
  BY <1>5, Straightened, AutomationAssumption DEF Suspends
<1>8. h \in FrameType /\ h.x = x /\ h.n = k /\ h.mode = "resume"
  BY <1>1, <1>7 DEF Frame, FrameType
<1>9. /\ rw2 \in [Slots -> RowStates] /\ rw2[<<x, n>>] = "over"
      /\ \A y \in Ids, m \in Nodes : y # x \/ m # n => rw2[<<y, m>>] = rw[<<y, m>>]
  BY <1>1, <1>5, RowSet DEF RowStates
<1>10. Sole(fs2, x, h)
  BY <1>4, <1>5, <1>3, <1>8 DEF StandsAt, Sole
<1>11. FreshFrom(g, ex, rw, x, k)
  BY <1>5, <1>7, Onward DEF StandsAt
<1> HIDE DEF x, h, rw2, fs2, n
<1>12. ~Fresh(ex, rw, x, n)
  BY <1>5 DEF Fresh
<1>13. FreshFrom(g, ex, rw2, x, k)
  BY <1>1, <1>9, <1>11, <1>12 DEF FreshFrom, Fresh
<1>14. Unheld(ex, rw2, os, x)
  <2>1. ~Held(ex, rw2, os, x, n)
    BY <1>6, <1>9 DEF Held, Lives
  <2>2. ASSUME NEW m \in Nodes, m # n PROVE ~Held(ex, rw2, os, x, m)
    BY <1>1, <1>5, <1>9, <2>2 DEF StandsAt, Held, Lives
  <2> QED
    BY <2>1, <2>2 DEF Unheld
<1>15. Fits(g, ex, rw2, x)
  BY <1>1, <1>5, <1>6, <1>9 DEF Fits, WithRow
<1>16. Sound(g, ex, rw2, fs2, os, x)
  BY <1>6, <1>7, <1>8, <1>10, <1>13, <1>14, <1>15 DEF Sound, Resumes, Sole
<1>17. Touches(ex, rw, fs, os, ex, rw2, fs2, os, {x})
  <2>1. Typed(ex, rw2, fs2, os)
    BY <1>8, <1>9 DEF Tables, Typed, fs2
  <2>2. \A y \in Ids \ {x} : Same(ex, rw, fs, os, ex, rw2, fs2, os, y)
    BY <1>8, <1>9 DEF Same, fs2, x
  <2> QED
    BY <2>1, <2>2 DEF Touches
<1> QED
  BY <1>5, <1>16, <1>17, Touched DEF x, n, h, rw2, fs2

(* The call that claimed a row resumes its execution. *)
Follows(g, n, m) == m \in {g.next[n], g.alt[n]} \ {Nobody}

LEMMA Continues ==
  ASSUME NEW g \in StraightGraphs, NEW ex, NEW rw, NEW os, Tables(g, ex, rw, {}, os),
         NEW w \in Workers, NEW x \in Ids, NEW n \in Nodes, <<w, <<x, n>>>> \in os,
         NEW m, Follows(g, n, m)
  PROVE  /\ ex[x].status = "WAITING"
         /\ Tables(g, [ex EXCEPT ![x] = Runs(m)], rw, {Frame(x, m, "walk")}, os \ {<<w, <<x, n>>>>})
<1> DEFINE h == Frame(x, m, "walk")
           ex2 == [ex EXCEPT ![x] = Runs(m)]
           os2 == os \ {<<w, <<x, n>>>>}
<1>0. m \in {g.next[n], g.alt[n]} /\ m # Nobody
  BY DEF Follows
<1>1. Claimed(os, x, n) /\ Held(ex, rw, os, x, n)
  BY DEF Claimed, Held
<1>2. StandsAt(g, ex, rw, {}, os, x, n) /\ Fits(g, ex, rw, x)
  BY <1>1, HeldStands
<1>3. rw[<<x, n>>] = "over" /\ ex[x] = Waits(n)
  BY <1>1, <1>2 DEF StandsAt
<1>4. ex[x].status = "WAITING" /\ ~Lives(rw, x, n)
  BY <1>3 DEF Waits, Lives
<1>5. ~Begets(ex, x, n)
  <2> SUFFICES ASSUME Begets(ex, x, n) PROVE FALSE
    OBVIOUS
  <2>1. g.kind[n] \in WithRow
    BY <1>2, <1>3 DEF Fits
  <2>2. Child(x, n) \in Ids /\ ex[Child(x, n)].status # "NONE"
    BY DEF Begets, Active
  <2> QED
    BY <1>2, <2>1, <2>2 DEF Fits, WithRow
<1>6. m \in Nodes /\ FreshFrom(g, ex, rw, x, m)
  BY <1>0, <1>2, Onward DEF StandsAt
<1>7. ex \in [Ids -> ExecType]
  BY DEF Tables, Typed
<1>8. h \in FrameType /\ h.x = x /\ h.n = m /\ h.mode = "walk"
  BY <1>6 DEF Frame, FrameType
<1>9. /\ ex2 \in [Ids -> ExecType] /\ ex2[x].status = "RUNNING"
      /\ \A y \in Ids \ {x} : ex2[y] = ex[y]
  BY <1>6, <1>7 DEF ExecType, Runs, Execs
<1>10. \A i \in Nodes : Child(x, i) \in Ids => ex2[Child(x, i)] = ex[Child(x, i)]
  BY <1>9, Children
<1>11. Touches(ex, rw, {}, os, ex2, rw, {h}, os2, {x})
  <2>1. Typed(ex2, rw, {h}, os2)
    BY <1>8, <1>9 DEF Tables, Typed
  <2>2. \A y \in Ids \ {x} : Same(ex, rw, {}, os, ex2, rw, {h}, os2, y)
    BY <1>8, <1>9 DEF Same
  <2> QED
    BY <1>4, <1>9, <2>1, <2>2 DEF Touches, Active
<1>12. ~Claimed(os2, x, n)
  BY <1>2 DEF StandsAt, Claimed
<1> HIDE DEF h, ex2
<1>13. Unheld(ex2, rw, os2, x)
  <2>1. ~Held(ex2, rw, os2, x, n)
    BY <1>4, <1>5, <1>10, <1>12 DEF Held, Begets
  <2>2. ASSUME NEW i \in Nodes, i # n PROVE ~Held(ex2, rw, os2, x, i)
    BY <1>2, <1>10, <2>2 DEF StandsAt, Held, Claimed, Begets
  <2> QED
    BY <2>1, <2>2 DEF Unheld
<1>14. FreshFrom(g, ex2, rw, x, m) /\ Fits(g, ex2, rw, x)
  BY <1>2, <1>6, <1>10 DEF FreshFrom, Fresh, Fits
<1>15. Sole({h}, x, h)
  BY <1>8 DEF Sole
<1>16. Sound(g, ex2, rw, {h}, os2, x)
  BY <1>8, <1>9, <1>13, <1>14, <1>15 DEF Sound, Walks
<1> QED
  BY <1>4, <1>11, <1>16, Touched DEF h, ex2

(* A message starts an execution. *)
LEMMA Begins ==
  ASSUME NEW g \in StraightGraphs, NEW ex, NEW rw, NEW os, Tables(g, ex, rw, {}, os),
         NEW e \in Events, ex[<<e>>].status = "NONE"
  PROVE  Tables(g, [ex EXCEPT ![<<e>>] = Runs(Nobody)], rw, {Frame(<<e>>, g.start, "walk")}, os)
<1> DEFINE x == <<e>>
           h == Frame(x, g.start, "walk")
           ex2 == [ex EXCEPT ![<<e>>] = Runs(Nobody)]
<1>1. x \in Ids /\ ~IsChild(x) /\ g.start \in Nodes /\ ex \in [Ids -> ExecType]
  BY Firsts, Straightened DEF Tables, Typed
<1>2. h \in FrameType /\ h.x = x /\ h.n = g.start /\ h.mode = "walk"
  BY <1>1 DEF Frame, FrameType
<1>3. /\ ex2 \in [Ids -> ExecType] /\ ex2[x].status = "RUNNING" /\ \A y \in Ids \ {x} : ex2[y] = ex[y]
  BY <1>1 DEF ExecType, Runs, Execs
<1>4. \A m \in Nodes : Child(x, m) \in Ids => ex2[Child(x, m)] = ex[Child(x, m)]
  BY <1>1, <1>3, Children
<1>5. Sole({h}, x, h) /\ ex[x].status = "NONE"
  BY <1>2 DEF Sole
<1>6. Touches(ex, rw, {}, os, ex2, rw, {h}, os, {x})
  BY <1>1, <1>2, <1>3 DEF Touches, Tables, Typed, Same
<1> HIDE DEF x, ex2
<1>7. Sound(g, ex2, rw, {h}, os, x)
  BY <1>1, <1>3, <1>4, <1>5, Born
<1> QED
  BY <1>6, <1>7, Touched DEF x, ex2
-----------------------------------------------------------------------------
(* A message answers a set of waits. *)
ReplyFrames(hits) == {Frame(s[1], s[2], "reply") : s \in hits}

LEMMA Answered ==
  ASSUME NEW g \in StraightGraphs, NEW ex, NEW rw, NEW os, Tables(g, ex, rw, {}, os),
         NEW hits \in SUBSET Slots, \A s \in hits : rw[s] = "live" /\ g.kind[s[2]] = "wait"
  PROVE  /\ Tables(g, ex, rw, ReplyFrames(hits), os)
         /\ \A s, t \in hits : s[1] = t[1] => s = t
<1> DEFINE fs2 == ReplyFrames(hits)
<1>1. ASSUME NEW s \in hits
      PROVE  /\ s = <<s[1], s[2]>> /\ s[1] \in Ids /\ s[2] \in Nodes /\ Frame(s[1], s[2], "reply").x = s[1]
             /\ ex[s[1]] = Waits(s[2]) /\ Frame(s[1], s[2], "reply") \in FrameType
             /\ StandsAt(g, ex, rw, {}, os, s[1], s[2]) /\ Fits(g, ex, rw, s[1])
  <2>1. s = <<s[1], s[2]>> /\ s[1] \in Ids /\ s[2] \in Nodes
    BY DEF Slots
  <2>2. rw[<<s[1], s[2]>>] = "live"
    BY <2>1
  <2> QED
    BY <2>1, <2>2, LiveStands DEF Frame, FrameType
<1>2. \A s, t \in hits : s[1] = t[1] => s = t
  <2> SUFFICES ASSUME NEW s \in hits, NEW t \in hits, s[1] = t[1] PROVE s = t
    OBVIOUS
  <2>1. Waits(s[2]) = Waits(t[2])
    BY <1>1
  <2>2. s[2] = t[2]
    BY <2>1 DEF Waits
  <2> QED
    BY <1>1, <2>2
<1>3. fs2 \subseteq FrameType
  BY <1>1 DEF ReplyFrames
<1> DEFINE X == {s[1] : s \in hits}
<1>4. ASSUME NEW x \in X PROVE Sound(g, ex, rw, fs2, os, x)
  <2>1. PICK s \in hits : x = s[1]
    OBVIOUS
  <2>2. \A f \in fs2 : f.x = x => f = Frame(x, s[2], "reply")
    <3> SUFFICES ASSUME NEW t \in hits, Frame(t[1], t[2], "reply").x = x
                 PROVE  Frame(t[1], t[2], "reply") = Frame(x, s[2], "reply")
      BY DEF ReplyFrames
    <3>1. t = s
      BY <1>1, <1>2, <2>1
    <3> QED
      BY <2>1, <3>1
  <2>3. StandsAt(g, ex, rw, {}, os, x, s[2]) /\ s[2] \in Nodes /\ Fits(g, ex, rw, x)
    BY <1>1, <2>1
  <2>4. g.kind[s[2]] = "wait" /\ Lives(rw, x, s[2])
    BY <1>1, <2>1 DEF Lives
  <2>5. StandsAt(g, ex, rw, fs2, os, x, s[2])
    BY <2>2, <2>3, <2>4 DEF StandsAt
  <2> QED
    BY <2>3, <2>5 DEF Sound, Stands
<1>5. ASSUME NEW y \in Ids \ X, NEW f, f.x = y PROVE f \notin fs2
  <2> SUFFICES ASSUME NEW s \in hits, f = Frame(s[1], s[2], "reply") PROVE FALSE
    BY DEF ReplyFrames
  <2>1. f.x = s[1]
    BY <1>1
  <2> QED
    BY <1>5, <2>1
<1>6. Touches(ex, rw, {}, os, ex, rw, fs2, os, X)
  BY <1>3, <1>5 DEF Touches, Tables, Typed, Same
<1> QED
  BY <1>2, <1>4, <1>6, Touched

(* A call claims a live row. *)
LEMMA Opens ==
  ASSUME NEW g \in StraightGraphs, NEW ex, NEW rw, NEW os, Tables(g, ex, rw, {}, os),
         NEW w \in Workers, NEW x \in Ids, NEW n \in Nodes, rw[<<x, n>>] = "live"
  PROVE  Tables(g, ex, [rw EXCEPT ![<<x, n>>] = "over"], {}, os \cup {<<w, <<x, n>>>>})
<1> DEFINE rw2 == [rw EXCEPT ![<<x, n>>] = "over"]
           os2 == os \cup {<<w, <<x, n>>>>}
<1>1. /\ StandsAt(g, ex, rw, {}, os, x, n) /\ Fits(g, ex, rw, x) /\ g.kind[n] \in WithRow
      /\ ~Claimed(os, x, n)
  BY LiveStands
<1>2. rw \in [Slots -> RowStates] /\ <<x, n>> \in Slots
  BY DEF Tables, Typed, Slots
<1>3. /\ rw2 \in [Slots -> RowStates] /\ rw2[<<x, n>>] = "over"
      /\ \A y \in Ids, m \in Nodes : y # x \/ m # n => rw2[<<y, m>>] = rw[<<y, m>>]
  BY <1>2, RowSet DEF RowStates
<1> HIDE DEF rw2
<1>4. Touches(ex, rw, {}, os, ex, rw2, {}, os2, {x})
  BY <1>2, <1>3 DEF Touches, Tables, Typed, Same
<1>5. FreshAfter(g, ex, rw2, x, n)
  <2> SUFFICES ASSUME NEW m \in Nodes, Before(g, n, m) PROVE Fresh(ex, rw2, x, m)
    BY DEF FreshAfter
  <2>1. m # n
    BY Ordered
  <2> QED
    BY <1>1, <1>3, <2>1 DEF StandsAt, FreshAfter, Fresh
<1>6. \A m \in Nodes : Held(ex, rw2, os2, x, m) <=> m = n
  <2>1. Held(ex, rw2, os2, x, n)
    BY DEF Held, Claimed
  <2>2. ASSUME NEW m \in Nodes, m # n PROVE ~Held(ex, rw2, os2, x, m)
    BY <1>1, <1>3, <2>2 DEF StandsAt, Held, Lives, Claimed
  <2> QED
    BY <2>1, <2>2
<1>7. \A u, v \in Workers : <<u, <<x, n>>>> \in os2 /\ <<v, <<x, n>>>> \in os2 => u = v
  BY <1>1 DEF Claimed
<1>8. StandsAt(g, ex, rw2, {}, os2, x, n)
  BY <1>1, <1>3, <1>5, <1>6, <1>7 DEF StandsAt
<1>9. Fits(g, ex, rw2, x)
  BY <1>1, <1>3 DEF Fits
<1>10. Sound(g, ex, rw2, {}, os2, x)
  BY <1>8, <1>9 DEF Sound, Stands
<1> QED
  BY <1>4, <1>10, Touched DEF rw2

(* A request whose fate nobody knows pauses its execution. *)
LEMMA Pauses ==
  ASSUME NEW g \in StraightGraphs, NEW ex, NEW rw, NEW os, Tables(g, ex, rw, {}, os),
         NEW x \in Ids, NEW n \in Nodes, rw[<<x, n>>] = "live"
  PROVE  /\ ex[x].status = "WAITING"
         /\ Tables(g, [ex EXCEPT ![x].status = "PAUSED"], [rw EXCEPT ![<<x, n>>] = "over"], {}, os)
<1> DEFINE ex2 == [ex EXCEPT ![x].status = "PAUSED"]
           rw2 == [rw EXCEPT ![<<x, n>>] = "over"]
<1>1. /\ StandsAt(g, ex, rw, {}, os, x, n) /\ Fits(g, ex, rw, x) /\ g.kind[n] \in WithRow
      /\ ~Claimed(os, x, n) /\ ~Begets(ex, x, n) /\ ex[x].status = "WAITING"
  BY LiveStands
<1>2. ex \in [Ids -> ExecType] /\ rw \in [Slots -> RowStates]
  BY DEF Tables, Typed
<1>3. /\ rw2 \in [Slots -> RowStates] /\ rw2[<<x, n>>] = "over"
      /\ \A y \in Ids, m \in Nodes : y # x \/ m # n => rw2[<<y, m>>] = rw[<<y, m>>]
  BY <1>2, RowSet DEF RowStates
<1>4. /\ ex2 \in [Ids -> ExecType] /\ ex2[x].status = "PAUSED" /\ \A y \in Ids \ {x} : ex2[y] = ex[y]
  BY <1>2 DEF ExecType, Execs
<1>5. \A i \in Nodes : Child(x, i) \in Ids => ex2[Child(x, i)] = ex[Child(x, i)]
  BY <1>4, Children
<1> HIDE DEF ex2, rw2
<1>6. Touches(ex, rw, {}, os, ex2, rw2, {}, os, {x})
  BY <1>1, <1>3, <1>4 DEF Touches, Tables, Typed, Same, Active
<1>7. Unheld(ex2, rw2, os, x)
  <2>1. ~Held(ex2, rw2, os, x, n)
    BY <1>1, <1>3, <1>5 DEF Held, Lives, Begets
  <2>2. ASSUME NEW m \in Nodes, m # n PROVE ~Held(ex2, rw2, os, x, m)
    BY <1>1, <1>3, <1>5, <2>2 DEF StandsAt, Held, Lives, Begets
  <2> QED
    BY <2>1, <2>2 DEF Unheld
<1>8. Fits(g, ex2, rw2, x)
  BY <1>1, <1>3, <1>5 DEF Fits
<1>9. Sound(g, ex2, rw2, {}, os, x)
  BY <1>4, <1>7, <1>8 DEF Sound, Rests, Unframed
<1> QED
  BY <1>1, <1>6, <1>9, Touched DEF ex2, rw2

(* A transaction that throws gives a claimed row back. *)
LEMMA Reopens ==
  ASSUME NEW g \in StraightGraphs, NEW ex, NEW rw, NEW os, Tables(g, ex, rw, {}, os),
         NEW w \in Workers, NEW x \in Ids, NEW n \in Nodes, <<w, <<x, n>>>> \in os
  PROVE  Tables(g, ex, [rw EXCEPT ![<<x, n>>] = "live"], {}, os \ {<<w, <<x, n>>>>})
<1> DEFINE rw2 == [rw EXCEPT ![<<x, n>>] = "live"]
           os2 == os \ {<<w, <<x, n>>>>}
<1>1. Claimed(os, x, n)
  BY DEF Claimed
<1>2. StandsAt(g, ex, rw, {}, os, x, n) /\ Fits(g, ex, rw, x)
  BY <1>1, HeldStands DEF Held
<1>3. rw[<<x, n>>] = "over" /\ rw \in [Slots -> RowStates] /\ g.kind[n] \in WithRow
  BY <1>1, <1>2 DEF StandsAt, Fits, Tables, Typed
<1>4. /\ rw2 \in [Slots -> RowStates] /\ rw2[<<x, n>>] = "live"
      /\ \A y \in Ids, m \in Nodes : y # x \/ m # n => rw2[<<y, m>>] = rw[<<y, m>>]
  BY <1>3, RowSet DEF RowStates
<1> HIDE DEF rw2
<1>5. Touches(ex, rw, {}, os, ex, rw2, {}, os2, {x})
  BY <1>4 DEF Touches, Tables, Typed, Same
<1>6. FreshAfter(g, ex, rw2, x, n)
  <2> SUFFICES ASSUME NEW m \in Nodes, Before(g, n, m) PROVE Fresh(ex, rw2, x, m)
    BY DEF FreshAfter
  <2>1. m # n
    BY Ordered
  <2> QED
    BY <1>2, <1>4, <2>1 DEF StandsAt, FreshAfter, Fresh
<1>7. \A m \in Nodes : Held(ex, rw2, os2, x, m) <=> m = n
  <2>1. Held(ex, rw2, os2, x, n)
    BY <1>4 DEF Held, Lives
  <2>2. ASSUME NEW m \in Nodes, m # n PROVE ~Held(ex, rw2, os2, x, m)
    BY <1>2, <1>4, <2>2 DEF StandsAt, Held, Lives, Claimed
  <2> QED
    BY <2>1, <2>2
<1>8. ~Claimed(os2, x, n)
  BY <1>2 DEF StandsAt, Claimed
<1>9. StandsAt(g, ex, rw2, {}, os2, x, n)
  BY <1>2, <1>6, <1>7, <1>8 DEF StandsAt
<1>10. Fits(g, ex, rw2, x)
  BY <1>2, <1>3, <1>4 DEF Fits
<1>11. Sound(g, ex, rw2, {}, os2, x)
  BY <1>9, <1>10 DEF Sound, Stands
<1> QED
  BY <1>5, <1>11, Touched DEF rw2
-----------------------------------------------------------------------------
(* The invariant: the tables are sound as they are and as they would be after
   the walk threw. *)
RowState(co, ht) == [s \in Slots |->
  IF co[s] = "NONE" /\ ht[s] = NoRow THEN "fresh"
  ELSE IF co[s] \in {"PENDING", "ACTIVE"} \/ ht[s].status \in {"PENDING", "RETRY", "PROCESSING"}
       THEN "live" ELSE "over"]
RowKinds(g, co, ht) == \A x \in Ids, n \in Nodes :
  /\ co[<<x, n>>] \in {"PENDING", "COMPLETED"} => g.kind[n] = "delay"
  /\ co[<<x, n>>] \in {"ACTIVE", "RESOLVED", "TIMED_OUT"} => g.kind[n] = "wait"
  /\ ht[<<x, n>>] # NoRow => g.kind[n] = "http" /\ ht[<<x, n>>].status # "NONE"
Store(g, ex, co, ht, fs, os) ==
  co \in [Slots -> Conts] /\ RowKinds(g, co, ht) /\ Tables(g, ex, RowState(co, ht), fs, os)

CallFits(g, call) ==
  /\ call.pc = "opened" =>
       /\ ~call.final
       /\ \/ call.answer = "delay" /\ g.kind[call.n] = "delay"
          \/ call.answer = "timeout" /\ g.kind[call.n] = "wait"
          \/ call.answer \in {"success", "failure", "permanent"} /\ g.kind[call.n] = "http"
  /\ call.pc = "answered" => call.answer \in Answers
Openings(ca, ws) == {o \in ws \X Slots : ca[o[1]].pc = "opened" /\ o[2] = <<ca[o[1]].x, ca[o[1]].n>>}
Free(jb)   == IF jb.kind = "call" THEN Workers \ {jb.by} ELSE Workers
Frames(st) == {st[i] : i \in 1..Len(st)}
Apart(st)  == \A i, j \in 1..Len(st) : st[i].x = st[j].x => i = j

NotBegun(ib, ex, jb) == \A e \in Events :
  ib[e] = "PENDING" /\ ~(jb.kind = "message" /\ jb.by = e) => ex[<<e>>].status = "NONE"
FinalKept(ex, sv) == \A x \in Ids : sv[1][x].status \in Final => ex[x] = sv[1][x]

StackOK  == stack \in Seq(FrameType) /\ Apart(stack) /\ (Quiet => stack = <<>>)
InboxOK  == inbox \in [Events -> {"PENDING", "COMPLETED", "DEAD_LETTER"}] /\ NotBegun(inbox, exec, job)
FitsOK   == \A w \in Workers : CallFits(graph, calls[w])
TablesOK == Store(graph, exec, cont, http, Frames(stack), Openings(calls, Free(job)))
SavedOK  == ~Quiet => /\ job.kind = "message" => job.by \in Events
                      /\ Store(graph, saved[1], saved[2], saved[3], {}, Openings(calls, Workers))
                      /\ NotBegun(inbox, saved[1], NoJob)
                      /\ FinalKept(exec, saved)
StraightInv == graph \in StraightGraphs => StackOK /\ InboxOK /\ FitsOK /\ TablesOK /\ SavedOK
-----------------------------------------------------------------------------
(* The stack as a set of frames. *)
LEMMA Pop ==
  ASSUME NEW st \in Seq(FrameType), st # <<>>, Apart(st)
  PROVE  /\ Head(st) \in Frames(st) /\ Head(st) \in FrameType
         /\ Tail(st) \in Seq(FrameType) /\ Apart(Tail(st))
         /\ Frames(Tail(st)) = Frames(st) \ {Head(st)}
<1>1. /\ Len(st) \in Nat \ {0} /\ Head(st) = st[1] /\ Tail(st) \in Seq(FrameType)
      /\ Len(Tail(st)) = Len(st) - 1 /\ \A i \in 1..Len(st) - 1 : Tail(st)[i] = st[i + 1]
      /\ \A i \in 1..Len(st) : st[i] \in FrameType
  OBVIOUS
<1>2. Head(st) \in Frames(st) /\ Head(st) \in FrameType
  BY <1>1 DEF Frames
<1>3. Apart(Tail(st))
  <2> SUFFICES ASSUME NEW i \in 1..Len(st) - 1, NEW j \in 1..Len(st) - 1, st[i + 1].x = st[j + 1].x
               PROVE  i = j
    BY <1>1 DEF Apart
  <2>1. i + 1 \in 1..Len(st) /\ j + 1 \in 1..Len(st)
    BY <1>1
  <2> QED
    BY <1>1, <2>1 DEF Apart
<1>4. ASSUME NEW f \in Frames(Tail(st)) PROVE f \in Frames(st) \ {Head(st)}
  <2>1. PICK i \in 1..Len(st) - 1 : f = st[i + 1]
    BY <1>1, <1>4 DEF Frames
  <2>2. i + 1 \in 1..Len(st) /\ i + 1 # 1 /\ 1 \in 1..Len(st)
    BY <1>1
  <2>3. st[i + 1].x # st[1].x
    BY <2>2 DEF Apart
  <2> QED
    BY <1>1, <2>1, <2>2, <2>3 DEF Frames
<1>5. ASSUME NEW f \in Frames(st) \ {Head(st)} PROVE f \in Frames(Tail(st))
  <2>1. PICK i \in 1..Len(st) : f = st[i]
    BY <1>5 DEF Frames
  <2>2. i # 1
    BY <1>1, <1>5, <2>1
  <2>3. i - 1 \in 1..Len(st) - 1 /\ Tail(st)[i - 1] = st[i]
    BY <1>1, <2>2
  <2> QED
    BY <1>1, <2>1, <2>3 DEF Frames
<1> QED
  BY <1>1, <1>2, <1>3, <1>4, <1>5

LEMMA Push ==
  ASSUME NEW st \in Seq(FrameType), Apart(st), NEW f \in FrameType, Unframed(Frames(st), f.x)
  PROVE  /\ <<f>> \o st \in Seq(FrameType) /\ Apart(<<f>> \o st)
         /\ Frames(<<f>> \o st) = Frames(st) \cup {f}
<1> DEFINE new == <<f>> \o st
<1>1. /\ new \in Seq(FrameType) /\ Len(st) \in Nat /\ Len(new) = Len(st) + 1 /\ new[1] = f
      /\ \A i \in 1..Len(st) : new[i + 1] = st[i]
  OBVIOUS
<1> HIDE DEF new
<1>2. \A i \in 2..Len(new) : i - 1 \in 1..Len(st) /\ new[i] = st[i - 1] /\ st[i - 1] \in Frames(st)
  BY <1>1 DEF Frames
<1>3. Apart(new)
  <2> SUFFICES ASSUME NEW i \in 1..Len(new), NEW j \in 1..Len(new), new[i].x = new[j].x PROVE i = j
    BY DEF Apart
  <2>1. CASE i = 1 /\ j = 1
    BY <2>1
  <2>2. CASE i = 1 /\ j # 1
    BY <1>1, <1>2, <2>2 DEF Unframed
  <2>3. CASE i # 1 /\ j = 1
    BY <1>1, <1>2, <2>3 DEF Unframed
  <2>4. CASE i # 1 /\ j # 1
    <3>1. st[i - 1].x = st[j - 1].x /\ i - 1 \in 1..Len(st) /\ j - 1 \in 1..Len(st)
      BY <1>1, <1>2, <2>4
    <3>2. i - 1 = j - 1
      BY <3>1 DEF Apart
    <3> QED
      BY <3>2
  <2> QED
    BY <2>1, <2>2, <2>3, <2>4
<1>4. ASSUME NEW h \in Frames(new) PROVE h \in Frames(st) \cup {f}
  <2>1. PICK i \in 1..Len(new) : h = new[i]
    BY <1>4 DEF Frames
  <2> QED
    BY <1>1, <1>2, <2>1
<1>5. ASSUME NEW h \in Frames(st) \cup {f} PROVE h \in Frames(new)
  <2>1. CASE h = f
    BY <1>1, <2>1 DEF Frames
  <2>2. CASE h \in Frames(st)
    <3>1. PICK i \in 1..Len(st) : h = st[i]
      BY <2>2 DEF Frames
    <3>2. i + 1 \in 1..Len(new) /\ new[i + 1] = h
      BY <1>1, <3>1
    <3> QED
      BY <3>2 DEF Frames
  <2> QED
    BY <1>5, <2>1, <2>2
<1> QED
  BY <1>1, <1>3, <1>4, <1>5 DEF new

LEMMA Bottom == Frames(<<>>) = {} /\ Apart(<<>>) /\ <<>> \in Seq(FrameType)
BY DEF Frames, Apart

(* The rows as fresh, live or over. *)
RowMoves(co, ht, co2, ht2, s) == \A t \in Slots \ {s} : co2[t] = co[t] /\ ht2[t] = ht[t]

LEMMA RowStateAt ==
  ASSUME NEW co, NEW ht, NEW co2, NEW ht2, NEW s \in Slots, NEW v,
         RowMoves(co, ht, co2, ht2, s), RowState(co2, ht2)[s] = v
  PROVE  RowState(co2, ht2) = [RowState(co, ht) EXCEPT ![s] = v]
<1>1. \A t \in Slots \ {s} : RowState(co2, ht2)[t] = RowState(co, ht)[t]
  BY DEF RowState, RowMoves
<1>2. /\ DOMAIN RowState(co2, ht2) = Slots /\ RowState(co2, ht2) = [t \in Slots |-> RowState(co2, ht2)[t]]
      /\ DOMAIN RowState(co, ht) = Slots /\ RowState(co, ht) = [t \in Slots |-> RowState(co, ht)[t]]
  BY DEF RowState
<1> HIDE DEF RowState
<1> QED
  BY <1>1, <1>2

LEMMA SlotNames ==
  /\ \A x \in Ids, n \in Nodes : <<x, n>> \in Slots
  /\ \A s \in Slots : s[1] \in Ids /\ s[2] \in Nodes /\ s = <<s[1], s[2]>>
BY DEF Slots

(* What is opened by whom. *)
LEMMA OpeningAt ==
  ASSUME NEW ca, NEW ws, NEW w, NEW s
  PROVE  <<w, s>> \in Openings(ca, ws) <=>
           w \in ws /\ s \in Slots /\ ca[w].pc = "opened" /\ s = <<ca[w].x, ca[w].n>>
BY DEF Openings

LEMMA OpeningsKept ==
  ASSUME NEW ca, NEW cb, NEW ws,
         \A w \in ws : \/ cb[w] = ca[w]
                       \/ ca[w].pc # "opened" /\ cb[w].pc # "opened"
  PROVE  Openings(cb, ws) = Openings(ca, ws)
BY DEF Openings

LEMMA OpeningsGained ==
  ASSUME NEW ca, NEW cb, NEW ws, NEW w \in ws, NEW s \in Slots,
         \A v \in ws \ {w} : cb[v] = ca[v],
         ca[w].pc # "opened", cb[w].pc = "opened", s = <<cb[w].x, cb[w].n>>
  PROVE  Openings(cb, ws) = Openings(ca, ws) \cup {<<w, s>>}
BY DEF Openings

LEMMA OpeningsLost ==
  ASSUME NEW ca, NEW ws, NEW w \in ws, NEW s \in Slots, s = <<ca[w].x, ca[w].n>>
  PROVE  Openings(ca, ws \ {w}) = Openings(ca, ws) \ {<<w, s>>}
BY DEF Openings

LEMMA OpeningsDone ==
  ASSUME NEW ca, NEW cb, NEW ws, NEW w, \A v \in ws \ {w} : cb[v] = ca[v], cb[w].pc # "opened"
  PROVE  Openings(cb, ws) = Openings(ca, ws \ {w})
BY DEF Openings
-----------------------------------------------------------------------------
(* The steps of a walk.  What was final stays, what had not begun has not. *)
Keeps(ex, ex2) == /\ \A x \in Ids : ex[x].status \in Final => ex2[x] = ex[x]
                  /\ \A e \in Events : ex[<<e>>].status = "NONE" => ex2[<<e>>].status = "NONE"
Going == /\ graph \in StraightGraphs /\ StackOK /\ InboxOK /\ FitsOK /\ TablesOK /\ SavedOK
         /\ MutationInv /\ MutationInv' /\ stack # <<>>
         /\ UNCHANGED <<scenario, messages, job, saved, calls>>

LEMMA WalkGoes ==
  ASSUME Going, Keeps(exec, exec'), stack' \in Seq(FrameType), Apart(stack)',
         cont' \in [Slots -> Conts], RowKinds(graph, cont', http'),
         Tables(graph, exec', RowState(cont', http'), Frames(stack'), Openings(calls, Free(job)))
  PROVE  StraightInv'
<1>1. /\ graph' = graph /\ inbox' = inbox /\ job' = job /\ saved' = saved /\ calls' = calls
      /\ ~Quiet /\ Quiet' = Quiet
  BY DEF Going, StackOK, Quiet, scenario, messages
<1>2. StackOK'
  BY <1>1 DEF StackOK
<1>3. InboxOK'
  BY <1>1 DEF Going, InboxOK, NotBegun, Keeps
<1>4. FitsOK'
  BY <1>1 DEF Going, FitsOK
<1>5. TablesOK'
  BY <1>1 DEF TablesOK, Store
<1>6. SavedOK'
  BY <1>1 DEF Going, SavedOK, FinalKept, Keeps
<1> QED
  BY <1>2, <1>3, <1>4, <1>5, <1>6 DEF StraightInv

LEMMA GoingFacts ==
  ASSUME Going
  PROVE  /\ Top \in Frames(stack) /\ Top \in FrameType
         /\ Below \in Seq(FrameType) /\ Apart(Below) /\ Frames(Below) = Frames(stack) \ {Top}
         /\ \A f \in Frames(Below) : f.x # Top.x
         /\ cont \in [Slots -> Conts] /\ http \in [Slots -> RowType] /\ http' \in [Slots -> RowType]
         /\ RowKinds(graph, cont, http)
         /\ Tables(graph, exec, RowState(cont, http), Frames(stack), Openings(calls, Free(job)))
         /\ exec \in [Ids -> ExecType]
<1>1. stack \in Seq(FrameType) /\ stack # <<>> /\ Apart(stack)
  BY DEF Going, StackOK
<1>2. \A f \in Frames(Below) : f.x # Top.x
  <2> SUFFICES ASSUME NEW i \in 1..Len(Below), Below[i].x = Top.x PROVE FALSE
    BY DEF Frames
  <2>1. i + 1 \in 1..Len(stack) /\ 1 \in 1..Len(stack) /\ stack[i + 1].x = stack[1].x
    BY <1>1 DEF Below, Top
  <2>2. i + 1 = 1
    BY <1>1, <2>1 DEF Apart
  <2> QED
    BY <1>1, <2>2 DEF Below
<1>3. /\ cont \in [Slots -> Conts] /\ http \in [Slots -> RowType] /\ http' \in [Slots -> RowType]
      /\ RowKinds(graph, cont, http)
      /\ Tables(graph, exec, RowState(cont, http), Frames(stack), Openings(calls, Free(job)))
  BY DEF Going, TablesOK, Store, MutationInv, HttpOK
<1>4. exec \in [Ids -> ExecType]
  BY <1>3 DEF Tables, Typed
<1> QED
  BY <1>1, <1>2, <1>3, <1>4, Pop DEF Top, Below

LEMMA TopWalks ==
  ASSUME Going, Top.mode = "walk"
  PROVE  /\ Top.x \in Ids /\ exec[Top.x].status = "RUNNING"
         /\ Unheld(exec, RowState(cont, http), Openings(calls, Free(job)), Top.x)
         /\ Unframed(Frames(stack) \ {Top}, Top.x)
<1>1. /\ Top \in Frames(stack) /\ graph \in StraightGraphs
      /\ Tables(graph, exec, RowState(cont, http), Frames(stack), Openings(calls, Free(job)))
  BY GoingFacts DEF Going
<1> QED
  BY <1>1, Walker

(* It goes on at m, whichever of the three ways. *)
LEMMA StepGoes ==
  ASSUME Going, Top.mode = "walk", Top.n \in Nodes,
         NEW m \in {graph.next[Top.n], graph.alt[Top.n], Nobody}, Go(m), UNCHANGED rows
  PROVE  StraightInv'
<1> DEFINE h == Frame(Top.x, m, "walk")
<1>1. Tables(graph, exec, RowState(cont, http), (Frames(stack) \ {Top}) \cup {h}, Openings(calls, Free(job)))
  BY GoingFacts, Goes DEF Going
<1>2. h \in FrameType /\ h.x = Top.x
  BY GoingFacts, Straightened DEF Frame, FrameType, Going
<1>3. stack' = <<h>> \o Below
  BY DEF Go
<1> HIDE DEF h
<1>4. Unframed(Frames(Below), h.x)
  BY <1>2, GoingFacts DEF Unframed
<1>5. /\ stack' \in Seq(FrameType) /\ Apart(stack)' /\ Frames(stack') = Frames(Below) \cup {h}
  BY <1>2, <1>3, <1>4, GoingFacts, Push
<1>6. Frames(stack') = (Frames(stack) \ {Top}) \cup {h}
  BY <1>5, GoingFacts
<1>7. exec' = exec /\ cont' = cont /\ http' = http
  BY DEF rows
<1>8. Tables(graph, exec', RowState(cont', http'), Frames(stack'), Openings(calls, Free(job)))
  BY <1>1, <1>6, <1>7
<1>9. cont' \in [Slots -> Conts] /\ RowKinds(graph, cont', http') /\ Keeps(exec, exec')
  BY <1>7, GoingFacts DEF Keeps
<1> QED
  BY <1>5, <1>8, <1>9, WalkGoes

LEMMA GoStep ==
  ASSUME Going, ApplyStep \/ ApplyCondition \/ ApplyStop
  PROVE  StraightInv'
<1>1. /\ Top.mode = "walk" /\ Top.n # Nobody /\ UNCHANGED rows
      /\ \E m \in {graph.next[Top.n], graph.alt[Top.n], Nobody} : Go(m)
  BY DEF ApplyStep, ApplyCondition, ApplyStop, Walking
<1>2. Top.n \in Nodes
  BY <1>1, GoingFacts DEF FrameType
<1> QED
  BY <1>1, <1>2, StepGoes

LEMMA FailStep ==
  ASSUME Going, NodeFails
  PROVE  StraightInv'
<1> DEFINE ex2 == [exec EXCEPT ![Top.x] = [status |-> "FAILED", at |-> Nobody]]
<1>1. /\ Top.mode = "walk" /\ exec' = ex2 /\ cont' = cont /\ http' = http /\ stack' = Below
  BY DEF NodeFails, Walking, Set
<1>2. Tables(graph, ex2, RowState(cont, http), Frames(stack) \ {Top}, Openings(calls, Free(job)))
  BY <1>1, GoingFacts, Fails DEF Going
<1>3. exec[Top.x].status = "RUNNING" /\ Top.x \in Ids
  BY <1>1, TopWalks
<1>4. Keeps(exec, exec')
  BY <1>1, <1>3, GoingFacts DEF Keeps, Final
<1> HIDE DEF ex2
<1>5. stack' \in Seq(FrameType) /\ Apart(stack)' /\ Frames(stack') = Frames(stack) \ {Top}
  BY <1>1, GoingFacts
<1>6. Tables(graph, exec', RowState(cont', http'), Frames(stack'), Openings(calls, Free(job)))
  BY <1>1, <1>2, <1>5
<1>7. cont' \in [Slots -> Conts] /\ RowKinds(graph, cont', http')
  BY <1>1, GoingFacts
<1> QED
  BY <1>4, <1>5, <1>6, <1>7, WalkGoes

(* It suspends on a row of its own. *)
LEMMA SuspendStep ==
  ASSUME Going, Top.mode = "walk", Top.n \in Nodes, graph.kind[Top.n] \in WithRow,
         Set("WAITING", Top.n), stack' = Below,
         RowMoves(cont, http, cont', http', <<Top.x, Top.n>>),
         RowState(cont', http')[<<Top.x, Top.n>>] = "live",
         cont' \in [Slots -> Conts], RowKinds(graph, cont', http')
  PROVE  StraightInv'
<1> DEFINE ex2 == [exec EXCEPT ![Top.x] = Waits(Top.n)]
           rw2 == [RowState(cont, http) EXCEPT ![<<Top.x, Top.n>>] = "live"]
<1>1. exec' = ex2
  BY DEF Set, Waits
<1>2. Tables(graph, ex2, rw2, Frames(stack) \ {Top}, Openings(calls, Free(job)))
  BY GoingFacts, Suspended DEF Going
<1>3. exec[Top.x].status = "RUNNING" /\ Top.x \in Ids
  BY TopWalks
<1>4. Keeps(exec, exec')
  BY <1>1, <1>3, GoingFacts DEF Keeps, Final
<1>5. <<Top.x, Top.n>> \in Slots
  BY <1>3 DEF Slots
<1>6. RowState(cont', http') = rw2
  BY <1>5, RowStateAt
<1> HIDE DEF ex2, rw2
<1>7. stack' \in Seq(FrameType) /\ Apart(stack)' /\ Frames(stack') = Frames(stack) \ {Top}
  BY GoingFacts
<1>8. Tables(graph, exec', RowState(cont', http'), Frames(stack'), Openings(calls, Free(job)))
  BY <1>1, <1>2, <1>6, <1>7
<1> QED
  BY <1>4, <1>7, <1>8, WalkGoes
-----------------------------------------------------------------------------
LEMMA TopFresh ==
  ASSUME Going, Top.mode = "walk", Top.n \in Nodes, graph.kind[Top.n] \in WithRow
  PROVE  /\ <<Top.x, Top.n>> \in Slots /\ Top.x \in Ids
         /\ cont[<<Top.x, Top.n>>] = "NONE" /\ http[<<Top.x, Top.n>>] = NoRow
<1>1. <<Top.x, Top.n>> \in Slots /\ Top.x \in Ids
  BY TopWalks DEF Slots
<1>2. /\ RowState(cont, http)[<<Top.x, Top.n>>] = "fresh"
      /\ Tables(graph, [exec EXCEPT ![Top.x] = Waits(Top.n)],
                [RowState(cont, http) EXCEPT ![<<Top.x, Top.n>>] = "live"],
                Frames(stack) \ {Top}, Openings(calls, Free(job)))
  BY GoingFacts, Suspended DEF Going
<1> QED
  BY <1>1, <1>2 DEF RowState

LEMMA DelayStep ==
  ASSUME Going, ApplyDelay \/ ApplyWait
  PROVE  StraightInv'
<1> DEFINE s == <<Top.x, Top.n>>
<1>1. /\ Top.mode = "walk" /\ Top.n # Nobody /\ Set("WAITING", Top.n) /\ stack' = Below /\ http' = http
      /\ graph.kind[Top.n] \in WithRow
  BY DEF ApplyDelay, ApplyWait, Walking, WithRow
<1>2. Top.n \in Nodes
  BY <1>1, GoingFacts DEF FrameType
<1>3. s \in Slots /\ Top.x \in Ids /\ cont[s] = "NONE" /\ http[s] = NoRow
  BY <1>1, <1>2, TopFresh
<1>4. \/ cont' = [cont EXCEPT ![s] = "PENDING"] /\ graph.kind[Top.n] = "delay"
      \/ cont' = [cont EXCEPT ![s] = "ACTIVE"] /\ graph.kind[Top.n] = "wait"
  BY <1>3 DEF ApplyDelay, ApplyWait, Walking
<1>5. cont' \in [Slots -> Conts] /\ cont'[s] \in {"PENDING", "ACTIVE"}
      /\ \A t \in Slots \ {s} : cont'[t] = cont[t]
  BY <1>3, <1>4, GoingFacts DEF Conts
<1>6. RowKinds(graph, cont', http')
  <2> SUFFICES ASSUME NEW x \in Ids, NEW n \in Nodes
               PROVE  /\ cont'[<<x, n>>] \in {"PENDING", "COMPLETED"} => graph.kind[n] = "delay"
                      /\ cont'[<<x, n>>] \in {"ACTIVE", "RESOLVED", "TIMED_OUT"} => graph.kind[n] = "wait"
                      /\ http[<<x, n>>] # NoRow => graph.kind[n] = "http" /\ http[<<x, n>>].status # "NONE"
    BY <1>1 DEF RowKinds
  <2>1. CASE <<x, n>> = s
    BY <1>3, <1>4, <2>1, GoingFacts
  <2>2. CASE <<x, n>> # s
    BY <1>5, <2>2, GoingFacts DEF RowKinds, Slots
  <2> QED
    BY <2>1, <2>2
<1>7. RowState(cont', http')[s] = "live"
  BY <1>3, <1>5 DEF RowState
<1>8. RowMoves(cont, http, cont', http', s)
  BY <1>1, <1>5 DEF RowMoves
<1> QED
  BY <1>1, <1>2, <1>5, <1>6, <1>7, <1>8, SuspendStep

LEMMA QueueStep ==
  ASSUME Going, QueueHttp
  PROVE  StraightInv'
<1> DEFINE s == <<Top.x, Top.n>>
<1>1. /\ Top.mode = "walk" /\ Top.n # Nobody /\ Set("WAITING", Top.n) /\ stack' = Below /\ cont' = cont
      /\ graph.kind[Top.n] = "http"
  BY DEF QueueHttp, Walking
<1>2. Top.n \in Nodes /\ graph.kind[Top.n] \in WithRow
  BY <1>1, GoingFacts DEF FrameType, WithRow
<1>3. s \in Slots /\ Top.x \in Ids /\ cont[s] = "NONE" /\ http[s] = NoRow
  BY <1>1, <1>2, TopFresh
<1>4. http' = [http EXCEPT ![s].status = "PENDING"]
  BY <1>3 DEF QueueHttp
<1>5. http'[s].status = "PENDING" /\ \A t \in Slots \ {s} : http'[t] = http[t]
  BY <1>3, <1>4, GoingFacts DEF RowType
<1>6. http'[s] # NoRow
  BY <1>5 DEF NoRow
<1>7. RowKinds(graph, cont', http')
  <2> SUFFICES ASSUME NEW x \in Ids, NEW n \in Nodes
               PROVE  /\ cont[<<x, n>>] \in {"PENDING", "COMPLETED"} => graph.kind[n] = "delay"
                      /\ cont[<<x, n>>] \in {"ACTIVE", "RESOLVED", "TIMED_OUT"} => graph.kind[n] = "wait"
                      /\ http'[<<x, n>>] # NoRow => graph.kind[n] = "http" /\ http'[<<x, n>>].status # "NONE"
    BY <1>1 DEF RowKinds
  <2>1. CASE <<x, n>> = s
    BY <1>1, <1>3, <1>5, <2>1
  <2>2. CASE <<x, n>> # s
    BY <1>5, <2>2, GoingFacts DEF RowKinds, Slots
  <2> QED
    BY <2>1, <2>2
<1>8. RowState(cont', http')[s] = "live"
  BY <1>3, <1>5, <1>6 DEF RowState
<1>9. RowMoves(cont, http, cont', http', s)
  BY <1>1, <1>5 DEF RowMoves
<1>10. cont' \in [Slots -> Conts]
  BY <1>1, GoingFacts
<1> QED
  BY <1>1, <1>2, <1>7, <1>8, <1>9, <1>10, SuspendStep

LEMMA SubflowStep ==
  ASSUME Going, StartSubflow
  PROVE  StraightInv'
<1> DEFINE c == Child(Top.x, Top.n)
           k == graph.flow[Top.n]
           ex2 == [[exec EXCEPT ![c] = Runs(Nobody)] EXCEPT ![Top.x] = Waits(Top.n)]
           h == Frame(c, k, "walk")
           os == Openings(calls, Free(job))
<1>1. /\ Top.mode = "walk" /\ Top.n # Nobody /\ graph.kind[Top.n] = "subflow" /\ c \in Ids
      /\ cont' = cont /\ http' = http
  BY DEF StartSubflow, Walking
<1>2. Top.n \in Nodes /\ graph.await /\ k \in Nodes
  BY <1>1, GoingFacts, Straightened DEF FrameType, Going
<1>3. /\ exec[c].status = "NONE" /\ Unframed(Frames(stack), c)
      /\ Tables(graph, ex2, RowState(cont, http), (Frames(stack) \ {Top}) \cup {h}, os)
  BY <1>1, <1>2, GoingFacts, Starts DEF Going
<1>4. Top.x \in Ids /\ exec[Top.x].status = "RUNNING"
  BY <1>1, TopWalks
<1>5. Scenario(c) = k
  <2>1. IsChild(c) /\ Starter(c) = Top.n
    BY <1>2, <1>4, Children
  <2> QED
    BY <2>1 DEF Scenario
<1>6. exec' = ex2 /\ stack' = <<h>> \o Below
  BY <1>2, <1>3, <1>5 DEF StartSubflow, Waits, Runs, Final
<1>7. h \in FrameType /\ h.x = c
  BY <1>1, <1>2 DEF Frame, FrameType
<1>8. Unframed(Frames(Below), c)
  BY <1>3, GoingFacts DEF Unframed
<1>9. stack' \in Seq(FrameType) /\ Apart(stack)' /\ Frames(stack') = Frames(Below) \cup {h}
  BY <1>6, <1>7, <1>8, GoingFacts, Push
<1>10. Keeps(exec, exec')
  <2>1. \A e \in Events : <<e>> # c
    BY <1>2, <1>4, Firsts
  <2> HIDE DEF c
  <2>2. \A x \in Ids : x # c /\ x # Top.x => exec'[x] = exec[x]
    BY <1>1, <1>6, GoingFacts
  <2> QED
    BY <1>3, <1>4, <2>1, <2>2, Firsts DEF Keeps, Final
<1> HIDE DEF ex2, h, c, k
<1>11. Frames(stack') = (Frames(stack) \ {Top}) \cup {h}
  BY <1>9, GoingFacts
<1>12. Tables(graph, exec', RowState(cont', http'), Frames(stack'), Openings(calls, Free(job)))
  BY <1>1, <1>3, <1>6, <1>11
<1>13. cont' \in [Slots -> Conts] /\ RowKinds(graph, cont', http')
  BY <1>1, GoingFacts
<1> QED
  BY <1>9, <1>10, <1>12, <1>13, WalkGoes
-----------------------------------------------------------------------------
LEMMA FinishStepInv ==
  ASSUME Going, FinishGraph
  PROVE  StraightInv'
<1> DEFINE x == Top.x
           ex2 == [exec EXCEPT ![Top.x] = Completed]
           os == Openings(calls, Free(job))
<1>1. /\ Top.mode = "walk" /\ Top.n = Nobody /\ exec' = ex2 /\ cont' = cont /\ http' = http
  BY DEF FinishGraph, Set, Completed
<1>2. x \in Ids /\ exec[x].status = "RUNNING"
  BY <1>1, TopWalks
<1>3. Keeps(exec, exec')
  BY <1>1, <1>2, GoingFacts DEF Keeps, Final
<1>4. cont' \in [Slots -> Conts] /\ RowKinds(graph, cont', http')
  BY <1>1, GoingFacts
<1>5. CASE ~IsChild(x)
  <2>1. Tables(graph, ex2, RowState(cont, http), Frames(stack) \ {Top}, os)
    BY <1>1, <1>5, GoingFacts, Finishes DEF Going
  <2>2. stack' = Below
    BY <1>5 DEF FinishGraph
  <2> HIDE DEF ex2, x
  <2>3. stack' \in Seq(FrameType) /\ Apart(stack)' /\ Frames(stack') = Frames(stack) \ {Top}
    BY <2>2, GoingFacts
  <2>4. Tables(graph, exec', RowState(cont', http'), Frames(stack'), os)
    BY <1>1, <2>1, <2>3
  <2> QED
    BY <1>3, <1>4, <2>3, <2>4, WalkGoes
<1>6. CASE IsChild(x)
  <2> DEFINE y == Parent(x)
             k == graph.next[Starter(x)]
             h == Frame(y, k, "resume")
  <2>1. y \in Ids /\ Starter(x) \in Nodes
    BY <1>2, <1>6, Parents
  <2>2. /\ exec[y].status = "WAITING" /\ Unframed(Frames(stack), y)
        /\ Tables(graph, ex2, RowState(cont, http), (Frames(stack) \ {Top}) \cup {h}, os)
    BY <1>1, <1>6, <2>1, GoingFacts, Returns DEF Going
  <2>3. stack' = <<h>> \o Below
    BY <1>6, <2>2 DEF FinishGraph
  <2>4. h \in FrameType /\ h.x = y
    BY <2>1, Straightened DEF Frame, FrameType, Going
  <2> HIDE DEF ex2, x, h, y
  <2>5. Unframed(Frames(Below), h.x)
    BY <2>2, <2>4, GoingFacts DEF Unframed
  <2>6. stack' \in Seq(FrameType) /\ Apart(stack)' /\ Frames(stack') = Frames(Below) \cup {h}
    BY <2>3, <2>4, <2>5, GoingFacts, Push
  <2>7. Frames(stack') = (Frames(stack) \ {Top}) \cup {h}
    BY <2>6, GoingFacts
  <2>8. Tables(graph, exec', RowState(cont', http'), Frames(stack'), os)
    BY <1>1, <2>2, <2>7
  <2> QED
    BY <1>3, <1>4, <2>6, <2>8, WalkGoes
<1> QED
  BY <1>5, <1>6

LEMMA ResumeStep ==
  ASSUME Going, ResumeExecution
  PROVE  StraightInv'
<1> DEFINE ex2 == [exec EXCEPT ![Top.x] = Runs(Top.n)]
           h == Frame(Top.x, Top.n, "walk")
           os == Openings(calls, Free(job))
<1>1. Top.mode = "resume" /\ cont' = cont /\ http' = http
  BY DEF ResumeExecution
<1>2. /\ exec[Top.x].status = "WAITING" /\ Top.n # Nobody
      /\ Tables(graph, ex2, RowState(cont, http), (Frames(stack) \ {Top}) \cup {h}, os)
  BY <1>1, GoingFacts, Resumed DEF Going
<1>3. Top.x \in Ids /\ Top.n \in Nodes \cup {Nobody}
  BY GoingFacts DEF FrameType
<1>4. exec' = ex2 /\ stack' = <<h>> \o Below
  BY <1>2 DEF ResumeExecution, Set, Go, Target, Runs, Final
<1>5. Keeps(exec, exec')
  <2>1. \A x \in Ids : x # Top.x => exec'[x] = exec[x]
    BY <1>3, <1>4, GoingFacts
  <2> QED
    BY <1>2, <1>3, <2>1, Firsts DEF Keeps, Final
<1>6. h \in FrameType /\ h.x = Top.x
  BY <1>3 DEF Frame, FrameType
<1> HIDE DEF ex2, h
<1>7. Unframed(Frames(Below), h.x)
  BY <1>6, GoingFacts DEF Unframed
<1>8. stack' \in Seq(FrameType) /\ Apart(stack)' /\ Frames(stack') = Frames(Below) \cup {h}
  BY <1>4, <1>6, <1>7, GoingFacts, Push
<1>9. Frames(stack') = (Frames(stack) \ {Top}) \cup {h}
  BY <1>8, GoingFacts
<1>10. Tables(graph, exec', RowState(cont', http'), Frames(stack'), os)
  BY <1>1, <1>2, <1>4, <1>9
<1>11. cont' \in [Slots -> Conts] /\ RowKinds(graph, cont', http')
  BY <1>1, GoingFacts
<1> QED
  BY <1>5, <1>8, <1>10, <1>11, WalkGoes

LEMMA ReplyStep ==
  ASSUME Going, ResolveWait
  PROVE  StraightInv'
<1> DEFINE s == <<Top.x, Top.n>>
           rw2 == [RowState(cont, http) EXCEPT ![<<Top.x, Top.n>>] = "over"]
           h == Frame(Top.x, graph.next[Top.n], "resume")
           os == Openings(calls, Free(job))
<1>1. /\ Top.mode = "reply" /\ exec' = exec /\ http' = http /\ cont' = [cont EXCEPT ![s] = "RESOLVED"]
      /\ stack' = <<h>> \o Below
  BY DEF ResolveWait
<1>2. /\ Top.n \in Nodes /\ graph.kind[Top.n] = "wait"
      /\ RowState(cont, http)[<<Top.x, Top.n>>] = "live"
      /\ Tables(graph, exec, rw2, (Frames(stack) \ {Top}) \cup {h}, os)
  <2>1. /\ Top \in Frames(stack) /\ graph \in StraightGraphs /\ Top.mode = "reply"
        /\ Tables(graph, exec, RowState(cont, http), Frames(stack), os)
    BY <1>1, GoingFacts DEF Going
  <2> HIDE DEF os
  <2> QED
    BY <2>1, Replied
<1>3. Top.x \in Ids /\ s \in Slots
  BY <1>2, GoingFacts DEF FrameType, Slots
<1>4. cont' \in [Slots -> Conts] /\ cont'[s] = "RESOLVED" /\ \A t \in Slots \ {s} : cont'[t] = cont[t]
  BY <1>1, <1>3, GoingFacts DEF Conts
<1>5. http[s] = NoRow
  BY <1>2, <1>3, GoingFacts DEF RowKinds
<1>6. RowState(cont', http')[s] = "over"
  BY <1>1, <1>3, <1>4, <1>5 DEF RowState, NoRow
<1>7. RowState(cont', http') = rw2
  <2>1. RowMoves(cont, http, cont', http', s)
    BY <1>1, <1>4 DEF RowMoves
  <2> QED
    BY <1>3, <1>6, <2>1, RowStateAt
<1>8. RowKinds(graph, cont', http')
  <2> SUFFICES ASSUME NEW x \in Ids, NEW n \in Nodes
               PROVE  /\ cont'[<<x, n>>] \in {"PENDING", "COMPLETED"} => graph.kind[n] = "delay"
                      /\ cont'[<<x, n>>] \in {"ACTIVE", "RESOLVED", "TIMED_OUT"} => graph.kind[n] = "wait"
                      /\ http[<<x, n>>] # NoRow => graph.kind[n] = "http" /\ http[<<x, n>>].status # "NONE"
    BY <1>1 DEF RowKinds
  <2>1. CASE <<x, n>> = s
    BY <1>2, <1>4, <1>5, <2>1
  <2>2. CASE <<x, n>> # s
    BY <1>4, <2>2, GoingFacts DEF RowKinds, Slots
  <2> QED
    BY <2>1, <2>2
<1>9. h \in FrameType /\ h.x = Top.x
  BY <1>2, <1>3, Straightened DEF Frame, FrameType, Going
<1> HIDE DEF rw2, h, s
<1>10. Unframed(Frames(Below), h.x)
  BY <1>9, GoingFacts DEF Unframed
<1>11. stack' \in Seq(FrameType) /\ Apart(stack)' /\ Frames(stack') = Frames(Below) \cup {h}
  BY <1>1, <1>9, <1>10, GoingFacts, Push
<1>12. Frames(stack') = (Frames(stack) \ {Top}) \cup {h}
  BY <1>11, GoingFacts
<1>13. Tables(graph, exec', RowState(cont', http'), Frames(stack'), os)
  BY <1>1, <1>2, <1>7, <1>12
<1>14. Keeps(exec, exec')
  BY <1>1 DEF Keeps
<1> QED
  BY <1>4, <1>8, <1>11, <1>13, <1>14, WalkGoes
-----------------------------------------------------------------------------
(* There are finitely many executions, so a message answers finitely many. *)
LEMMA SlotsFinite == IsFiniteSet(Slots)
<1> DEFINE T == (1..MaxDepth + 1) \X (Events \cup Nodes)
           graphOf == [x \in Ids |-> {p \in T : p[1] \in 1..Len(x) /\ p[2] = x[p[1]]}]
<1>1. IsFiniteSet(SUBSET T)
  <2>1. 1 \in Int /\ MaxDepth + 1 \in Int
    BY AutomationAssumption
  <2>2. IsFiniteSet(1..MaxDepth + 1)
    BY <2>1, FS_Interval
  <2>3. IsFiniteSet(Events \cup Nodes)
    BY AutomationAssumption, FS_Union
  <2> QED
    BY <2>2, <2>3, FS_Product, FS_SUBSET
<1>2. ASSUME NEW x \in Ids, NEW y \in Ids, graphOf[x] = graphOf[y] PROVE x = y
  <2>1. /\ x \in Seq(Events \cup Nodes) /\ Len(x) \in 1..MaxDepth + 1
        /\ y \in Seq(Events \cup Nodes) /\ Len(y) \in 1..MaxDepth + 1 /\ MaxDepth \in Nat
    BY IdsArePaths, AutomationAssumption DEF Path
  <2>2. \A i \in 1..Len(x) : <<i, x[i]>> \in graphOf[x]
    BY <2>1
  <2>3. \A i \in 1..Len(y) : <<i, y[i]>> \in graphOf[y]
    BY <2>1
  <2>4. \A i \in 1..Len(x) : i \in 1..Len(y) /\ x[i] = y[i]
    BY <1>2, <2>2
  <2>5. \A i \in 1..Len(y) : i \in 1..Len(x)
    BY <1>2, <2>3
  <2>6. Len(x) = Len(y)
    BY <2>1, <2>4, <2>5
  <2> QED
    BY <2>1, <2>4, <2>6
<1>3. graphOf \in Injection(Ids, SUBSET T)
  BY <1>2 DEF Injection, IsInjective
<1> HIDE DEF graphOf, T
<1>4. IsFiniteSet(Ids)
  BY <1>1, <1>3, FS_Injection
<1> QED
  BY <1>4, AutomationAssumption, FS_Product DEF Slots

LEMMA Answering ==
  ASSUME NEW hits \in SUBSET Slots, NEW order \in SetToSeqs(hits)
  PROVE  /\ order \in Seq(hits) /\ DOMAIN order = 1..Len(order)
         /\ \A i, j \in 1..Len(order) : order[i] = order[j] => i = j
<1>1. Cardinality(hits) \in Nat
  BY SlotsFinite, FS_Subset, FS_CardinalityType
<1>2. /\ order \in [1..Cardinality(hits) -> hits]
      /\ \A i, j \in 1..Cardinality(hits) : i # j => order[i] # order[j]
  BY DEF SetToSeqs
<1> QED
  BY <1>1, <1>2
-----------------------------------------------------------------------------
(* Between two walks. *)
Ready == /\ graph \in StraightGraphs /\ StackOK /\ InboxOK /\ FitsOK /\ TablesOK /\ SavedOK
         /\ MutationInv /\ MutationInv' /\ UNCHANGED scenario

LEMMA ReadyFacts ==
  ASSUME Ready
  PROVE  /\ graph \in StraightGraphs /\ graph' = graph
         /\ calls \in [Workers -> CallType] /\ calls' \in [Workers -> CallType]
         /\ \A w \in Workers : calls[w].pc # "idle" => Slot(w) \in Slots
         /\ \A w \in Workers : Slot(w) = <<calls[w].x, calls[w].n>>
         /\ http \in [Slots -> RowType] /\ http' \in [Slots -> RowType]
         /\ cont \in [Slots -> Conts] /\ RowKinds(graph, cont, http)
         /\ \A w \in Workers : CallFits(graph, calls[w])
<1>1. graph \in StraightGraphs /\ graph' = graph
  BY DEF Ready, scenario
<1>2. MutationInv /\ MutationInv' /\ FitsOK /\ TablesOK
  BY DEF Ready
<1>3. calls' \in [Workers -> CallType] /\ http' \in [Slots -> RowType]
  BY <1>2 DEF MutationInv, CallsOK, HttpOK
<1>4. /\ calls \in [Workers -> CallType] /\ \A w \in Workers : calls[w].pc # "idle" => Slot(w) \in Slots
      /\ http \in [Slots -> RowType]
  BY <1>2 DEF MutationInv, CallsOK, HttpOK
<1>5. cont \in [Slots -> Conts] /\ RowKinds(graph, cont, http)
  BY <1>2 DEF TablesOK, Store
<1>6. \A w \in Workers : Slot(w) = <<calls[w].x, calls[w].n>>
  BY DEF Slot
<1> QED
  BY <1>1, <1>2, <1>3, <1>4, <1>5, <1>6 DEF FitsOK

LEMMA QuietFacts ==
  ASSUME Ready, Quiet
  PROVE  /\ stack = <<>> /\ job = NoJob /\ NotBegun(inbox, exec, NoJob)
         /\ Tables(graph, exec, RowState(cont, http), {}, Openings(calls, Workers))
         /\ exec \in [Ids -> ExecType]
<1>1. stack = <<>> /\ job = NoJob /\ NotBegun(inbox, exec, job)
  BY DEF Ready, StackOK, InboxOK, Quiet
<1>2. Frames(stack) = {} /\ Free(job) = Workers
  BY <1>1, Bottom DEF Free, NoJob
<1>3. Tables(graph, exec, RowState(cont, http), Frames(stack), Openings(calls, Free(job)))
  BY DEF Ready, TablesOK, Store
<1>4. Tables(graph, exec, RowState(cont, http), {}, Openings(calls, Workers))
  BY <1>2, <1>3
<1> QED
  BY <1>1, <1>4 DEF Tables, Typed

(* A step of a call begins no walk and no execution. *)
LEMMA QuietGoes ==
  ASSUME Ready, Quiet, UNCHANGED <<messages, walk>>,
         \A e \in Events : exec[<<e>>].status = "NONE" => exec'[<<e>>].status = "NONE",
         \A w \in Workers : calls'[w] = calls[w] \/ CallFits(graph, calls'[w]),
         cont' \in [Slots -> Conts], RowKinds(graph, cont', http'),
         Tables(graph, exec', RowState(cont', http'), {}, Openings(calls', Workers))
  PROVE  StraightInv'
<1>1. /\ inbox' = inbox /\ job' = job /\ saved' = saved /\ stack' = stack /\ graph' = graph
      /\ Quiet' /\ job = NoJob /\ stack = <<>>
  BY QuietFacts, ReadyFacts DEF messages, walk, Quiet
<1>2. StackOK'
  BY <1>1, Bottom DEF StackOK
<1>3. InboxOK'
  <2>1. inbox \in [Events -> {"PENDING", "COMPLETED", "DEAD_LETTER"}] /\ NotBegun(inbox, exec, job)
    BY DEF Ready, InboxOK
  <2>2. NotBegun(inbox, exec', job)
    BY <2>1 DEF NotBegun
  <2> QED
    BY <1>1, <2>1, <2>2 DEF InboxOK
<1>4. FitsOK'
  BY <1>1, ReadyFacts DEF FitsOK
<1>5. TablesOK'
  <2>1. Frames(stack') = {} /\ Free(job') = Workers
    BY <1>1, Bottom DEF Free, NoJob
  <2> QED
    BY <1>1, <2>1 DEF TablesOK, Store
<1>6. SavedOK'
  BY <1>1 DEF SavedOK
<1> QED
  BY <1>2, <1>3, <1>4, <1>5, <1>6 DEF StraightInv

(* One call changes, or none, and the rows mean what they meant. *)
LEMMA PlainGoes ==
  ASSUME Ready, Quiet, UNCHANGED <<exec, cont, messages, walk>>, NEW w \in Workers,
         \A v \in Workers \ {w} : calls'[v] = calls[v],
         calls[w].pc # "opened", calls'[w].pc # "opened",
         calls'[w].pc = "answered" => calls'[w].answer \in Answers,
         RowKinds(graph, cont, http'), RowState(cont, http') = RowState(cont, http)
  PROVE  StraightInv'
<1>1. \A v \in Workers \ {w} : calls'[v] = calls[v]
  OBVIOUS
<1>2. CallFits(graph, calls'[w])
  BY DEF CallFits
<1>3. Openings(calls', Workers) = Openings(calls, Workers)
  BY <1>1, OpeningsKept
<1>4. exec' = exec /\ cont' = cont
  OBVIOUS
<1>5. Tables(graph, exec', RowState(cont', http'), {}, Openings(calls', Workers))
  BY <1>3, <1>4, QuietFacts
<1>6. cont' \in [Slots -> Conts] /\ RowKinds(graph, cont', http')
  BY <1>4, ReadyFacts
<1> QED
  BY <1>1, <1>2, <1>4, <1>5, <1>6, QuietGoes

(* A request that stays live. *)
LEMMA LiveRow ==
  ASSUME Ready, NEW s \in Slots, NEW r, http' = [http EXCEPT ![s] = r],
         http[s].status \in {"PENDING", "RETRY", "PROCESSING"}, r.status \in {"PENDING", "RETRY", "PROCESSING"}
  PROVE  RowKinds(graph, cont, http') /\ RowState(cont, http') = RowState(cont, http)
<1>1. http'[s] = r /\ \A t \in Slots \ {s} : http'[t] = http[t]
  BY ReadyFacts
<1>2. http[s] # NoRow /\ r # NoRow
  BY DEF NoRow
<1>3. \A t \in Slots : RowState(cont, http')[t] = RowState(cont, http)[t]
  BY <1>1, <1>2 DEF RowState
<1>4. RowState(cont, http') = RowState(cont, http)
  BY <1>3 DEF RowState
<1>5. RowKinds(graph, cont, http')
  <2> SUFFICES ASSUME NEW x \in Ids, NEW n \in Nodes
               PROVE  /\ cont[<<x, n>>] \in {"PENDING", "COMPLETED"} => graph.kind[n] = "delay"
                      /\ cont[<<x, n>>] \in {"ACTIVE", "RESOLVED", "TIMED_OUT"} => graph.kind[n] = "wait"
                      /\ http'[<<x, n>>] # NoRow => graph.kind[n] = "http" /\ http'[<<x, n>>].status # "NONE"
    BY DEF RowKinds
  <2>1. CASE <<x, n>> = s
    BY <1>1, <1>2, <2>1, ReadyFacts DEF RowKinds
  <2>2. CASE <<x, n>> # s
    BY <1>1, <2>2, ReadyFacts, SlotNames DEF RowKinds
  <2> QED
    BY <2>1, <2>2
<1> QED
  BY <1>4, <1>5
-----------------------------------------------------------------------------
LEMMA SameRow ==
  ASSUME Ready, http' = http
  PROVE  RowKinds(graph, cont, http') /\ RowState(cont, http') = RowState(cont, http)
BY ReadyFacts

LEMMA Idling ==
  ASSUME Ready, NEW w \in Workers, calls' = [calls EXCEPT ![w] = NoCall]
  PROVE  calls'[w].pc = "idle" /\ calls'[w] = NoCall /\ \A v \in Workers \ {w} : calls'[v] = calls[v]
BY ReadyFacts DEF NoCall

LEMMA LoadGoes ==
  ASSUME Ready, NEW w \in Workers, NEW s \in Slots, LoadHttp(w, s)
  PROVE  StraightInv'
<1> DEFINE new == [NoCall EXCEPT
       !.pc = IF http[s].status = "PROCESSING" /\ graph.method # "GET" THEN "expired" ELSE "loaded",
       !.x = s[1], !.n = s[2], !.answer = http[s].status]
<1>1. /\ Quiet /\ calls[w] = NoCall /\ calls' = [calls EXCEPT ![w] = new]
      /\ UNCHANGED <<rows, messages, walk>>
  BY DEF LoadHttp
<1>2. new.pc \in {"expired", "loaded"} /\ NoCall.pc = "idle"
  BY DEF NoCall
<1> HIDE DEF new
<1>3. calls'[w] = new /\ \A v \in Workers \ {w} : calls'[v] = calls[v]
  BY <1>1, ReadyFacts
<1>4. UNCHANGED <<exec, cont, messages, walk>> /\ http' = http
  BY <1>1 DEF rows
<1> QED
  BY <1>1, <1>2, <1>3, <1>4, SameRow, PlainGoes

LEMMA SendGoes ==
  ASSUME Ready, NEW w \in Workers, SendRequest(w)
  PROVE  StraightInv'
<1>1. PICK a \in Answers : calls' = [calls EXCEPT ![w].pc = "answered", ![w].answer = a]
  BY DEF SendRequest
<1>2. /\ Quiet /\ calls[w].pc = "claimed" /\ UNCHANGED <<exec, cont, messages, walk>> /\ http' = http
  BY DEF SendRequest, rows
<1>3. /\ calls'[w].pc = "answered" /\ calls'[w].answer = a /\ \A v \in Workers \ {w} : calls'[v] = calls[v]
  BY <1>1, ReadyFacts DEF CallType
<1> QED
  BY <1>2, <1>3, SameRow, PlainGoes

LEMMA CrashGoes ==
  ASSUME Ready, NEW w \in Workers, Crash(w)
  PROVE  StraightInv'
<1>1. /\ Quiet /\ calls[w].pc \in {"claimed", "answered"} /\ calls' = [calls EXCEPT ![w] = NoCall]
      /\ UNCHANGED <<exec, cont, messages, walk>> /\ http' = http
  BY DEF Crash, rows
<1>2. calls'[w].pc = "idle" /\ \A v \in Workers \ {w} : calls'[v] = calls[v]
  BY <1>1, Idling
<1> QED
  BY <1>1, <1>2, SameRow, PlainGoes

LEMMA ClaimGoes ==
  ASSUME Ready, NEW w \in Workers, ClaimHttp(w)
  PROVE  StraightInv'
<1> DEFINE s == Slot(w)
           r == [status |-> "PROCESSING", lease |-> w, stale |-> FALSE, attempts |-> http[s].attempts + 1]
<1>1. Quiet /\ calls[w].pc = "loaded" /\ UNCHANGED <<exec, cont, messages, walk>>
  BY DEF ClaimHttp
<1>2. CASE Due(s)
  <2>1. http' = [http EXCEPT ![s] = r] /\ calls' = [calls EXCEPT ![w].pc = "claimed", ![w].answer = "none"]
    BY <1>2 DEF ClaimHttp
  <2>2. s \in Slots /\ http[s].status \in {"PENDING", "RETRY", "PROCESSING"} /\ r.status = "PROCESSING"
    BY <1>1, <1>2, ReadyFacts DEF Due
  <2>3. calls'[w].pc = "claimed" /\ \A v \in Workers \ {w} : calls'[v] = calls[v]
    BY <2>1, ReadyFacts DEF CallType
  <2> HIDE DEF s, r
  <2>4. RowKinds(graph, cont, http') /\ RowState(cont, http') = RowState(cont, http)
    BY <2>1, <2>2, LiveRow
  <2> QED
    BY <1>1, <2>3, <2>4, PlainGoes
<1>3. CASE ~Due(s)
  <2>1. calls' = [calls EXCEPT ![w] = NoCall] /\ http' = http
    BY <1>3 DEF ClaimHttp
  <2>2. calls'[w].pc = "idle" /\ \A v \in Workers \ {w} : calls'[v] = calls[v]
    BY <2>1, Idling
  <2> QED
    BY <1>1, <2>1, <2>2, SameRow, PlainGoes
<1> QED
  BY <1>2, <1>3

LEMMA RetryGoes ==
  ASSUME Ready, NEW w \in Workers, RetryHttp(w)
  PROVE  StraightInv'
<1> DEFINE s == Slot(w)
           r == [http[s] EXCEPT !.status = "RETRY", !.lease = Nobody, !.stale = FALSE]
<1>1. /\ Quiet /\ calls[w].pc = "answered" /\ UNCHANGED <<exec, cont, messages, walk>>
      /\ calls' = [calls EXCEPT ![w] = NoCall]
  BY DEF RetryHttp
<1>2. calls'[w].pc = "idle" /\ \A v \in Workers \ {w} : calls'[v] = calls[v]
  BY <1>1, Idling
<1>3. RowKinds(graph, cont, http') /\ RowState(cont, http') = RowState(cont, http)
  <2>1. CASE Holds(w)
    <3>1. http' = [http EXCEPT ![s] = r]
      BY <2>1 DEF RetryHttp, Release
    <3>2. s \in Slots /\ http[s].status = "PROCESSING" /\ r.status = "RETRY"
      BY <1>1, <2>1, ReadyFacts DEF Holds, RowType
    <3> HIDE DEF s, r
    <3> QED
      BY <3>1, <3>2, LiveRow
  <2>2. CASE ~Holds(w)
    BY <2>2, SameRow DEF RetryHttp
  <2> QED
    BY <2>1, <2>2
<1> QED
  BY <1>1, <1>2, <1>3, PlainGoes

LEMMA LapseGoes ==
  ASSUME Ready, NEW s \in Slots, LeaseLapses(s)
  PROVE  StraightInv'
<1> DEFINE r == [http[s] EXCEPT !.stale = TRUE]
<1>1. /\ Quiet /\ http[s].status = "PROCESSING" /\ http' = [http EXCEPT ![s] = r]
      /\ exec' = exec /\ cont' = cont /\ calls' = calls /\ UNCHANGED <<messages, walk>>
  BY DEF LeaseLapses
<1>2. r.status = "PROCESSING"
  BY <1>1, ReadyFacts DEF RowType
<1> HIDE DEF r
<1>3. RowKinds(graph, cont, http') /\ RowState(cont, http') = RowState(cont, http)
  BY <1>1, <1>2, LiveRow
<1>4. Tables(graph, exec', RowState(cont', http'), {}, Openings(calls', Workers))
  BY <1>1, <1>3, QuietFacts
<1>5. cont' \in [Slots -> Conts] /\ RowKinds(graph, cont', http')
  BY <1>1, <1>3, ReadyFacts
<1> QED
  BY <1>1, <1>4, <1>5, QuietGoes
-----------------------------------------------------------------------------
(* A call claims the row it will resume from; the execution is waiting there. *)
LEMMA OpenGoes ==
  ASSUME Ready, Quiet, exec' = exec, UNCHANGED <<messages, walk>>, NEW w \in Workers, NEW s \in Slots,
         RowState(cont, http)[s] = "live", RowState(cont', http')[s] = "over",
         RowMoves(cont, http, cont', http', s), cont' \in [Slots -> Conts], RowKinds(graph, cont', http'),
         calls[w].pc # "opened", calls'[w].pc = "opened", s = <<calls'[w].x, calls'[w].n>>,
         \A v \in Workers \ {w} : calls'[v] = calls[v], CallFits(graph, calls'[w])
  PROVE  StraightInv'
<1> DEFINE x == s[1]
           n == s[2]
<1>1. x \in Ids /\ n \in Nodes /\ s = <<x, n>>
  BY SlotNames
<1>2. Tables(graph, exec, RowState(cont, http), {}, Openings(calls, Workers)) /\ graph \in StraightGraphs
  BY QuietFacts, ReadyFacts
<1>3. RowState(cont, http)[<<x, n>>] = "live"
  BY <1>1
<1> HIDE DEF x, n
<1>4. Tables(graph, exec, [RowState(cont, http) EXCEPT ![<<x, n>>] = "over"], {},
             Openings(calls, Workers) \cup {<<w, <<x, n>>>>})
  BY <1>1, <1>2, <1>3, Opens
<1>5. RowState(cont', http') = [RowState(cont, http) EXCEPT ![<<x, n>>] = "over"]
  BY <1>1, RowStateAt
<1>6. Openings(calls', Workers) = Openings(calls, Workers) \cup {<<w, <<x, n>>>>}
  <2>1. Openings(calls', Workers) = Openings(calls, Workers) \cup {<<w, s>>}
    BY OpeningsGained
  <2> QED
    BY <1>1, <2>1
<1>7. Tables(graph, exec', RowState(cont', http'), {}, Openings(calls', Workers))
  BY <1>4, <1>5, <1>6
<1> QED
  BY <1>7, QuietGoes

LEMMA LiveNotFinal ==
  ASSUME Ready, Quiet, NEW s \in Slots, RowState(cont, http)[s] = "live"
  PROVE  exec[s[1]].status = "WAITING"
<1>1. s[1] \in Ids /\ s[2] \in Nodes /\ s = <<s[1], s[2]>>
  BY SlotNames
<1>2. Tables(graph, exec, RowState(cont, http), {}, Openings(calls, Workers))
  BY QuietFacts
<1>3. RowState(cont, http)[<<s[1], s[2]>>] = "live"
  BY <1>1
<1>4. /\ StandsAt(graph, exec, RowState(cont, http), {}, Openings(calls, Workers), s[1], s[2])
      /\ Fits(graph, exec, RowState(cont, http), s[1]) /\ graph.kind[s[2]] \in WithRow
      /\ exec[s[1]] = Waits(s[2]) /\ exec[s[1]].status = "WAITING"
      /\ ~Claimed(Openings(calls, Workers), s[1], s[2]) /\ ~Begets(exec, s[1], s[2])
  BY <1>1, <1>2, <1>3, LiveStands
<1> QED
  BY <1>4

LEMMA ContinuationGoes ==
  ASSUME Ready, NEW w \in Workers, NEW s \in Slots, ResumeDelayedAction(w, s) \/ TimeoutWait(w, s)
  PROVE  StraightInv'
<1>1. /\ Quiet /\ calls[w] = NoCall /\ exec' = exec /\ http' = http /\ UNCHANGED <<messages, walk>>
  BY DEF ResumeDelayedAction, TimeoutWait
<1>2. \/ /\ cont[s] = "PENDING" /\ cont' = [cont EXCEPT ![s] = "COMPLETED"]
         /\ graph.kind[s[2]] = "delay" /\ Opened(w, s[1], s[2], "delay")
      \/ /\ cont[s] = "ACTIVE" /\ cont' = [cont EXCEPT ![s] = "TIMED_OUT"]
         /\ graph.kind[s[2]] = "wait" /\ Opened(w, s[1], s[2], "timeout")
  <2>1. /\ cont[<<s[1], s[2]>>] = "PENDING" => graph.kind[s[2]] = "delay"
        /\ cont[<<s[1], s[2]>>] = "ACTIVE" => graph.kind[s[2]] = "wait"
    BY ReadyFacts, SlotNames DEF RowKinds
  <2> QED
    BY <2>1, SlotNames DEF ResumeDelayedAction, TimeoutWait
<1>3. /\ cont' \in [Slots -> Conts] /\ \A t \in Slots \ {s} : cont'[t] = cont[t]
      /\ cont[s] \in {"PENDING", "ACTIVE"} /\ cont'[s] \in {"COMPLETED", "TIMED_OUT"}
  BY <1>2, ReadyFacts DEF Conts
<1>4. RowState(cont, http)[s] = "live"
  BY <1>3 DEF RowState
<1>5. http[s] = NoRow
  <2>1. http[<<s[1], s[2]>>] # NoRow => graph.kind[s[2]] = "http"
    BY ReadyFacts, SlotNames DEF RowKinds
  <2> QED
    BY <1>2, <2>1, SlotNames
<1>6. RowState(cont', http')[s] = "over"
  BY <1>1, <1>3, <1>5 DEF RowState, NoRow
<1>7. RowMoves(cont, http, cont', http', s)
  BY <1>1, <1>3 DEF RowMoves
<1>8. RowKinds(graph, cont', http')
  <2> SUFFICES ASSUME NEW x \in Ids, NEW n \in Nodes
               PROVE  /\ cont'[<<x, n>>] \in {"PENDING", "COMPLETED"} => graph.kind[n] = "delay"
                      /\ cont'[<<x, n>>] \in {"ACTIVE", "RESOLVED", "TIMED_OUT"} => graph.kind[n] = "wait"
                      /\ http[<<x, n>>] # NoRow => graph.kind[n] = "http" /\ http[<<x, n>>].status # "NONE"
    BY <1>1 DEF RowKinds
  <2>1. CASE <<x, n>> = s
    <3>1. s[2] = n
      BY <2>1
    <3> QED
      BY <1>2, <1>5, <2>1, <3>1, ReadyFacts
  <2>2. CASE <<x, n>> # s
    BY <1>3, <2>2, ReadyFacts, SlotNames DEF RowKinds
  <2> QED
    BY <2>1, <2>2
<1>9. exec[s[1]].status = "WAITING"
  BY <1>1, <1>4, LiveNotFinal
<1>10. /\ calls'[w].pc = "opened" /\ ~calls'[w].final /\ calls'[w].x = s[1] /\ calls'[w].n = s[2]
       /\ \/ calls'[w].answer = "delay" /\ graph.kind[s[2]] = "delay"
          \/ calls'[w].answer = "timeout" /\ graph.kind[s[2]] = "wait"
       /\ \A v \in Workers \ {w} : calls'[v] = calls[v]
  <2>1. ASSUME NEW a \in {"delay", "timeout"}, Opened(w, s[1], s[2], a)
        PROVE  /\ calls'[w].pc = "opened" /\ ~calls'[w].final /\ calls'[w].x = s[1] /\ calls'[w].n = s[2]
               /\ calls'[w].answer = a /\ \A v \in Workers \ {w} : calls'[v] = calls[v]
    BY <1>9, <2>1, ReadyFacts DEF Opened, Final
  <2> QED
    BY <1>2, <2>1
<1>11. CallFits(graph, calls'[w]) /\ s = <<calls'[w].x, calls'[w].n>> /\ calls[w].pc # "opened"
  BY <1>1, <1>10, SlotNames DEF CallFits, NoCall
<1> QED
  BY <1>1, <1>3, <1>4, <1>6, <1>7, <1>8, <1>10, <1>11, OpenGoes

(* A request is answered, or its fate is unknown: in both cases it is over. *)
LEMMA OverRow ==
  ASSUME Ready, NEW s \in Slots, NEW r, http' = [http EXCEPT ![s] = r], cont' = cont,
         http[s].status = "PROCESSING", r.status \in {"SUCCEEDED", "FAILED", "UNKNOWN"}
  PROVE  /\ RowState(cont, http)[s] = "live" /\ RowState(cont', http')[s] = "over"
         /\ RowMoves(cont, http, cont', http', s) /\ RowKinds(graph, cont', http')
         /\ graph.kind[s[2]] = "http"
<1>1. http'[s] = r /\ \A t \in Slots \ {s} : http'[t] = http[t]
  BY ReadyFacts
<1>2. http[s] # NoRow /\ r # NoRow
  BY DEF NoRow
<1>3. graph.kind[s[2]] = "http" /\ cont[s] = "NONE"
  <2>1. /\ http[<<s[1], s[2]>>] # NoRow => graph.kind[s[2]] = "http"
        /\ cont[<<s[1], s[2]>>] \in {"PENDING", "COMPLETED"} => graph.kind[s[2]] = "delay"
        /\ cont[<<s[1], s[2]>>] \in {"ACTIVE", "RESOLVED", "TIMED_OUT"} => graph.kind[s[2]] = "wait"
    BY ReadyFacts, SlotNames DEF RowKinds
  <2>2. cont[s] \in Conts
    BY ReadyFacts
  <2> QED
    BY <1>2, <2>1, <2>2, SlotNames DEF Conts
<1>4. RowState(cont, http)[s] = "live"
  BY <1>2 DEF RowState
<1>5. RowState(cont', http')[s] = "over"
  BY <1>1, <1>2, <1>3 DEF RowState
<1>6. RowMoves(cont, http, cont', http', s)
  BY <1>1 DEF RowMoves
<1>7. RowKinds(graph, cont', http')
  <2> SUFFICES ASSUME NEW x \in Ids, NEW n \in Nodes
               PROVE  /\ cont[<<x, n>>] \in {"PENDING", "COMPLETED"} => graph.kind[n] = "delay"
                      /\ cont[<<x, n>>] \in {"ACTIVE", "RESOLVED", "TIMED_OUT"} => graph.kind[n] = "wait"
                      /\ http'[<<x, n>>] # NoRow => graph.kind[n] = "http" /\ http'[<<x, n>>].status # "NONE"
    BY DEF RowKinds
  <2>1. CASE <<x, n>> = s
    BY <1>1, <1>2, <2>1, ReadyFacts DEF RowKinds
  <2>2. CASE <<x, n>> # s
    BY <1>1, <2>2, ReadyFacts, SlotNames DEF RowKinds
  <2> QED
    BY <2>1, <2>2
<1> QED
  BY <1>3, <1>4, <1>5, <1>6, <1>7

LEMMA FinishGoes ==
  ASSUME Ready, NEW w \in Workers, FinishHttp(w)
  PROVE  StraightInv'
<1> DEFINE s == Slot(w)
           r == [http[s] EXCEPT !.status = IF calls[w].answer \in {"success", "failure"}
                                           THEN "SUCCEEDED" ELSE "FAILED",
                                !.lease = Nobody, !.stale = FALSE]
           a == IF calls[w].answer = "retryable" THEN "permanent" ELSE calls[w].answer
<1>1. /\ Quiet /\ calls[w].pc = "answered" /\ calls[w].answer # "unknown"
      /\ exec' = exec /\ cont' = cont /\ UNCHANGED <<messages, walk>>
  BY DEF FinishHttp
<1>2. CASE Holds(w)
  <2>1. http' = [http EXCEPT ![s] = r] /\ Opened(w, calls[w].x, calls[w].n, a)
    BY <1>2 DEF FinishHttp, Release
  <2>2. /\ s \in Slots /\ http[s].status = "PROCESSING" /\ r.status \in {"SUCCEEDED", "FAILED"}
        /\ s = <<calls[w].x, calls[w].n>>
    BY <1>1, <1>2, ReadyFacts DEF Holds, RowType
  <2>3. a \in {"success", "failure", "permanent"}
    BY <1>1, ReadyFacts DEF CallFits, Answers
  <2> HIDE DEF r, a, s
  <2>4. /\ RowState(cont, http)[s] = "live" /\ RowState(cont', http')[s] = "over"
        /\ RowMoves(cont, http, cont', http', s) /\ RowKinds(graph, cont', http')
        /\ graph.kind[s[2]] = "http"
    BY <1>1, <2>1, <2>2, OverRow
  <2>5. exec[s[1]].status = "WAITING"
    BY <1>1, <2>2, <2>4, LiveNotFinal
  <2>6. s[1] = calls[w].x /\ s[2] = calls[w].n
    BY <2>2
  <2>7. /\ calls'[w].pc = "opened" /\ ~calls'[w].final /\ calls'[w].x = calls[w].x
        /\ calls'[w].n = calls[w].n /\ calls'[w].answer = a
        /\ \A v \in Workers \ {w} : calls'[v] = calls[v]
    BY <2>1, <2>5, <2>6, ReadyFacts DEF Opened, Final
  <2>8. CallFits(graph, calls'[w]) /\ s = <<calls'[w].x, calls'[w].n>> /\ calls[w].pc # "opened"
    BY <1>1, <2>2, <2>3, <2>4, <2>6, <2>7 DEF CallFits
  <2>9. cont' \in [Slots -> Conts]
    BY <1>1, ReadyFacts
  <2> QED
    BY <1>1, <2>2, <2>4, <2>7, <2>8, <2>9, OpenGoes
<1>3. CASE ~Holds(w)
  <2>1. calls' = [calls EXCEPT ![w] = NoCall] /\ http' = http
    BY <1>3 DEF FinishHttp
  <2>2. calls'[w].pc = "idle" /\ \A v \in Workers \ {w} : calls'[v] = calls[v]
    BY <2>1, Idling
  <2> QED
    BY <1>1, <2>1, <2>2, SameRow, PlainGoes
<1> QED
  BY <1>2, <1>3

LEMMA MarkGoes ==
  ASSUME Ready, NEW w \in Workers, MarkUnknown(w)
  PROVE  StraightInv'
<1> DEFINE s == Slot(w)
           r == [http[s] EXCEPT !.status = "UNKNOWN", !.lease = Nobody, !.stale = FALSE]
<1>1. /\ Quiet /\ calls[w].pc \in {"expired", "answered"} /\ calls' = [calls EXCEPT ![w] = NoCall]
      /\ cont' = cont /\ UNCHANGED <<messages, walk>>
  BY DEF MarkUnknown
<1>2. calls'[w].pc = "idle" /\ \A v \in Workers \ {w} : calls'[v] = calls[v]
  BY <1>1, Idling
<1>3. CASE http[s].status = "PROCESSING" /\ (calls[w].pc = "expired" \/ Holds(w))
  <2>1. /\ http' = [http EXCEPT ![s] = r]
        /\ exec' = IF exec[s[1]].status = "WAITING" THEN [exec EXCEPT ![s[1]].status = "PAUSED"] ELSE exec
    BY <1>3 DEF MarkUnknown, Release
  <2>2. s \in Slots /\ http[s].status = "PROCESSING" /\ r.status = "UNKNOWN"
    BY <1>1, <1>3, ReadyFacts DEF RowType
  <2> DEFINE x == s[1]
             n == s[2]
  <2>3. x \in Ids /\ n \in Nodes /\ s = <<x, n>>
    BY <2>2, SlotNames
  <2> HIDE DEF r, s
  <2>4. /\ RowState(cont, http)[s] = "live" /\ RowState(cont', http')[s] = "over"
        /\ RowMoves(cont, http, cont', http', s) /\ RowKinds(graph, cont', http')
        /\ graph.kind[s[2]] = "http"
    BY <1>1, <2>1, <2>2, OverRow
  <2>5. Tables(graph, exec, RowState(cont, http), {}, Openings(calls, Workers)) /\ graph \in StraightGraphs
    BY <1>1, QuietFacts, ReadyFacts
  <2>6. RowState(cont', http') = [RowState(cont, http) EXCEPT ![s] = "over"]
    BY <2>2, <2>4, RowStateAt
  <2> HIDE DEF x, n
  <2>7. RowState(cont, http)[<<x, n>>] = "live"
    BY <2>3, <2>4
  <2>8. /\ exec[x].status = "WAITING"
        /\ Tables(graph, [exec EXCEPT ![x].status = "PAUSED"],
                  [RowState(cont, http) EXCEPT ![<<x, n>>] = "over"], {}, Openings(calls, Workers))
    BY <2>3, <2>5, <2>7, Pauses
  <2>9. exec' = [exec EXCEPT ![x].status = "PAUSED"]
    BY <2>1, <2>8 DEF x
  <2>10. Openings(calls', Workers) = Openings(calls, Workers)
    <3>1. calls[w].pc # "opened" /\ calls'[w].pc # "opened"
      BY <1>1, <1>2
    <3>2. \A v \in Workers : calls'[v] = calls[v] \/ (calls[v].pc # "opened" /\ calls'[v].pc # "opened")
      BY <1>2, <3>1
    <3> QED
      BY <3>2, OpeningsKept
  <2>11. Tables(graph, exec', RowState(cont', http'), {}, Openings(calls', Workers))
    BY <2>3, <2>6, <2>8, <2>9, <2>10
  <2>12. \A e \in Events : exec[<<e>>].status = "NONE" => exec'[<<e>>].status = "NONE"
    BY <1>1, <2>8, <2>9, QuietFacts, Firsts
  <2>13. \A v \in Workers : calls'[v] = calls[v] \/ CallFits(graph, calls'[v])
    BY <1>2 DEF CallFits
  <2>14. cont' \in [Slots -> Conts]
    BY <1>1, ReadyFacts
  <2> QED
    BY <1>1, <2>4, <2>11, <2>12, <2>13, <2>14, QuietGoes
<1>4. CASE ~(http[s].status = "PROCESSING" /\ (calls[w].pc = "expired" \/ Holds(w)))
  <2>1. http' = http /\ exec' = exec
    BY <1>4 DEF MarkUnknown
  <2> QED
    BY <1>1, <1>2, <2>1, SameRow, PlainGoes
<1> QED
  BY <1>3, <1>4
-----------------------------------------------------------------------------
(* A walk begins, and the tables as they are are what a throw gives back. *)
LEMMA WalkBegins ==
  ASSUME Ready, Quiet, NEW k \in {"message", "call"}, NEW b, Begin(k, b), k = "message" => b \in Events,
         UNCHANGED <<cont, http, messages, calls>>, stack' \in Seq(FrameType), Apart(stack)',
         \A x \in Ids : exec[x].status \in Final => exec'[x] = exec[x],
         \A e \in Events : exec[<<e>>].status = "NONE" =>
                             exec'[<<e>>].status = "NONE" \/ (k = "message" /\ e = b),
         Tables(graph, exec', RowState(cont, http), Frames(stack'), Openings(calls, Free(job')))
  PROVE  StraightInv'
<1>1. /\ graph' = graph /\ inbox' = inbox /\ calls' = calls /\ cont' = cont /\ http' = http
      /\ saved' = <<exec, cont, http>> /\ job'.kind = k /\ job'.by = b /\ job = NoJob
  BY ReadyFacts, QuietFacts DEF messages, Begin, rows
<1>2. ~Quiet'
  BY <1>1 DEF Quiet, NoJob
<1>3. StackOK'
  BY <1>2 DEF StackOK
<1>4. inbox \in [Events -> {"PENDING", "COMPLETED", "DEAD_LETTER"}] /\ NotBegun(inbox, exec, NoJob)
  BY QuietFacts DEF Ready, InboxOK
<1>5. InboxOK'
  <2>1. NotBegun(inbox, exec', job')
    BY <1>1, <1>4 DEF NotBegun, NoJob
  <2> QED
    BY <1>1, <1>4, <2>1 DEF InboxOK
<1>6. FitsOK'
  BY <1>1, ReadyFacts DEF FitsOK
<1>7. TablesOK'
  BY <1>1, ReadyFacts DEF TablesOK, Store
<1>8. SavedOK'
  <2>1. Store(graph, exec, cont, http, {}, Openings(calls, Workers))
    BY QuietFacts, ReadyFacts DEF Store
  <2>2. FinalKept(exec', saved')
    BY <1>1 DEF FinalKept
  <2>3. saved'[1] = exec /\ saved'[2] = cont /\ saved'[3] = http
    BY <1>1
  <2> QED
    BY <1>1, <1>4, <2>1, <2>2, <2>3 DEF SavedOK
<1> QED
  BY <1>3, <1>5, <1>6, <1>7, <1>8 DEF StraightInv

LEMMA Stack1 ==
  ASSUME NEW f \in FrameType
  PROVE  <<f>> \in Seq(FrameType) /\ Apart(<<f>>) /\ Frames(<<f>>) = {f}
BY DEF Apart, Frames

(* A message answers the waits it matches. *)
LEMMA AnswerGoes ==
  ASSUME Ready, NEW e \in Events, HandleMessage(e), NEW hits,
         hits = {s \in Slots : cont[s] = "ACTIVE"}, NEW order \in SetToSeqs(hits), exec' = exec,
         stack' = [i \in DOMAIN order |-> Frame(order[i][1], order[i][2], "reply")]
  PROVE  StraightInv'
<1>1. Quiet /\ Begin("message", e) /\ UNCHANGED <<cont, http, messages, calls>>
  BY DEF HandleMessage
<1>2. Free(job') = Workers
  BY <1>1 DEF Begin, Free
<1>3. Tables(graph, exec, RowState(cont, http), {}, Openings(calls, Workers)) /\ graph \in StraightGraphs
  BY <1>1, QuietFacts, ReadyFacts
<1>4. /\ order \in Seq(hits) /\ DOMAIN order = 1..Len(order) /\ Len(order) \in Nat
      /\ \A i, j \in 1..Len(order) : order[i] = order[j] => i = j
  BY Answering
<1> DEFINE heard == {order[i] : i \in 1..Len(order)}
<1>5. heard \in SUBSET Slots /\ \A s \in heard : RowState(cont, http)[s] = "live" /\ graph.kind[s[2]] = "wait"
  <2> SUFFICES ASSUME NEW s \in Slots, cont[s] = "ACTIVE"
               PROVE  RowState(cont, http)[s] = "live" /\ graph.kind[s[2]] = "wait"
    BY <1>4
  <2>1. cont[<<s[1], s[2]>>] = "ACTIVE" /\ s[1] \in Ids /\ s[2] \in Nodes
    BY SlotNames
  <2>2. graph.kind[s[2]] = "wait"
    BY <2>1, ReadyFacts DEF RowKinds
  <2> QED
    BY <2>2 DEF RowState
<1> HIDE DEF heard
<1>6. /\ Tables(graph, exec, RowState(cont, http), ReplyFrames(heard), Openings(calls, Workers))
      /\ \A s, t \in heard : s[1] = t[1] => s = t
  BY <1>3, <1>5, Answered
<1>7. \A i \in 1..Len(order) : /\ order[i] \in heard
                               /\ Frame(order[i][1], order[i][2], "reply") \in FrameType
                               /\ Frame(order[i][1], order[i][2], "reply").x = order[i][1]
  <2> SUFFICES ASSUME NEW i \in 1..Len(order)
               PROVE  /\ order[i] \in heard
                      /\ Frame(order[i][1], order[i][2], "reply") \in FrameType
                      /\ Frame(order[i][1], order[i][2], "reply").x = order[i][1]
    OBVIOUS
  <2>1. order[i] \in heard /\ order[i] \in Slots
    BY <1>4, <1>5 DEF heard
  <2> QED
    BY <2>1, SlotNames DEF Frame, FrameType
<1>8. stack' \in Seq(FrameType) /\ Len(stack') = Len(order)
  BY <1>4, <1>7
<1>9. Apart(stack)'
  BY <1>4, <1>6, <1>7, <1>8 DEF Apart
<1>10. Frames(stack') = ReplyFrames(heard)
  <2>1. ASSUME NEW f \in Frames(stack') PROVE f \in ReplyFrames(heard)
    BY <1>4, <1>7, <1>8, <2>1 DEF Frames, ReplyFrames
  <2>2. ASSUME NEW s \in heard PROVE Frame(s[1], s[2], "reply") \in Frames(stack')
    BY <1>4, <1>8, <2>2 DEF Frames, heard
  <2> QED
    BY <2>1, <2>2 DEF ReplyFrames
<1>11. Tables(graph, exec', RowState(cont, http), Frames(stack'), Openings(calls, Free(job')))
  BY <1>2, <1>6, <1>10
<1> QED
  BY <1>1, <1>8, <1>9, <1>11, WalkBegins

LEMMA MessageGoes ==
  ASSUME Ready, NEW e \in Events, HandleMessage(e)
  PROVE  StraightInv'
<1> DEFINE active == {s \in Slots : cont[s] = "ACTIVE"}
           h == Frame(<<e>>, graph.start, "walk")
<1>1. Quiet /\ inbox[e] = "PENDING" /\ Begin("message", e) /\ UNCHANGED <<cont, http, messages, calls>>
  BY DEF HandleMessage
<1>2. CASE e \in fits /\ active # {}
  <2>1. /\ exec' = exec
        /\ \E order \in SetToSeqs(active) :
             stack' = [i \in DOMAIN order |-> Frame(order[i][1], order[i][2], "reply")]
    BY <1>2 DEF HandleMessage
  <2> QED
    BY <2>1, AnswerGoes
<1>3. CASE ~(e \in fits /\ active # {})
  <2>1. /\ exec' = [exec EXCEPT ![<<e>>] = Runs(Nobody)] /\ stack' = <<h>>
    BY <1>3 DEF HandleMessage, Runs
  <2>2. /\ Tables(graph, exec, RowState(cont, http), {}, Openings(calls, Workers))
        /\ graph \in StraightGraphs /\ exec \in [Ids -> ExecType] /\ Free(job') = Workers
        /\ NotBegun(inbox, exec, NoJob)
    BY <1>1, QuietFacts, ReadyFacts DEF Begin, Free
  <2>3. exec[<<e>>].status = "NONE"
    BY <1>1, <2>2 DEF NotBegun, NoJob
  <2>4. Tables(graph, exec', RowState(cont, http), {h}, Openings(calls, Workers))
    BY <2>1, <2>2, <2>3, Begins
  <2>5. h \in FrameType
    BY <2>2, Firsts, Straightened DEF Frame, FrameType
  <2> HIDE DEF h
  <2>6. stack' \in Seq(FrameType) /\ Apart(stack)' /\ Frames(stack') = {h}
    BY <2>1, <2>5, Stack1
  <2>7. Tables(graph, exec', RowState(cont, http), Frames(stack'), Openings(calls, Free(job')))
    BY <2>2, <2>4, <2>6
  <2>8. \A x \in Ids : x # <<e>> => exec'[x] = exec[x]
    BY <2>1, <2>2
  <2>9. /\ \A x \in Ids : exec[x].status \in Final => exec'[x] = exec[x]
        /\ \A d \in Events : exec[<<d>>].status = "NONE" => exec'[<<d>>].status = "NONE" \/ d = e
    BY <2>3, <2>8, Firsts DEF Final
  <2> QED
    BY <1>1, <2>6, <2>7, <2>9, WalkBegins
<1> QED
  BY <1>2, <1>3
-----------------------------------------------------------------------------
(* A call resumes the execution whose row it claimed. *)
LEMMA RunGoes ==
  ASSUME Ready, NEW w \in Workers, RunContinuation(w)
  PROVE  StraightInv'
<1> DEFINE call == calls[w]
           x == calls[w].x
           n == calls[w].n
           m == Continuation(calls[w])
           h == Frame(x, m, "walk")
           os == Openings(calls, Workers)
<1>1. Quiet /\ call.pc = "opened" /\ Begin("call", w) /\ UNCHANGED <<cont, http, messages, calls>>
  BY DEF RunContinuation
<1>2. /\ CallFits(graph, call) /\ <<x, n>> \in Slots /\ x \in Ids /\ n \in Nodes
  <2>1. CallFits(graph, calls[w]) /\ <<calls[w].x, calls[w].n>> \in Slots
    BY <1>1, ReadyFacts
  <2> QED
    BY <2>1 DEF Slots
<1>3. graph \in StraightGraphs /\ Tables(graph, exec, RowState(cont, http), {}, os) /\ exec \in [Ids -> ExecType]
  BY <1>1, QuietFacts, ReadyFacts
<1>4. ~call.final /\ m \in {graph.next[n], graph.alt[n]} /\ m \in Nodes
  BY <1>1, <1>2, <1>3, Straightened DEF CallFits, Continuation, Suspends
<1>5. m # Nobody
  BY <1>4, AutomationAssumption
<1>6. exec' = [exec EXCEPT ![x] = Runs(m)] /\ stack' = <<h>>
  BY <1>4, <1>5 DEF RunContinuation, Target, Runs
<1>7. <<w, <<x, n>>>> \in os
  BY <1>1, <1>2, OpeningAt
<1>8. Openings(calls, Free(job')) = os \ {<<w, <<x, n>>>>}
  <2>1. Free(job') = Workers \ {w}
    BY <1>1 DEF Begin, Free
  <2>2. Openings(calls, Workers \ {w}) = Openings(calls, Workers) \ {<<w, <<x, n>>>>}
    BY <1>2, OpeningsLost
  <2> QED
    BY <2>1, <2>2
<1> DEFINE rw == RowState(cont, http)
<1>9. /\ exec[x].status = "WAITING"
      /\ Tables(graph, [exec EXCEPT ![x] = Runs(m)], rw, {h}, os \ {<<w, <<x, n>>>>})
  <2>1. graph \in StraightGraphs /\ Tables(graph, exec, rw, {}, os)
    BY <1>3
  <2>2. x \in Ids /\ n \in Nodes /\ Follows(graph, n, m) /\ <<w, <<x, n>>>> \in os
    BY <1>2, <1>4, <1>5, <1>7 DEF Follows
  <2> HIDE DEF x, n, m, os, rw
  <2>3. /\ exec[x].status = "WAITING"
        /\ Tables(graph, [exec EXCEPT ![x] = Runs(m)], rw, {Frame(x, m, "walk")}, os \ {<<w, <<x, n>>>>})
    BY <2>1, <2>2, Continues
  <2> QED
    BY <2>3
<1> HIDE DEF x, n, m, call, os
<1>10. h \in FrameType
  BY <1>2, <1>4 DEF Frame, FrameType
<1> HIDE DEF h
<1>11. stack' \in Seq(FrameType) /\ Apart(stack)' /\ Frames(stack') = {h}
  BY <1>6, <1>10, Stack1
<1>12. Tables(graph, exec', RowState(cont, http), Frames(stack'), Openings(calls, Free(job')))
  BY <1>6, <1>8, <1>9, <1>11 DEF h
<1>13. \A y \in Ids : y # x => exec'[y] = exec[y]
  BY <1>3, <1>6
<1>14. /\ \A y \in Ids : exec[y].status \in Final => exec'[y] = exec[y]
       /\ \A e \in Events : exec[<<e>>].status = "NONE" => exec'[<<e>>].status = "NONE"
  BY <1>9, <1>13, Firsts DEF Final
<1> QED
  BY <1>1, <1>11, <1>12, <1>14, WalkBegins

(* A walk that ends well is kept. *)
LEMMA CommitGoes ==
  ASSUME Ready, Commit
  PROVE  StraightInv'
<1>1. /\ ~Quiet /\ stack = <<>> /\ job' = NoJob /\ stack' = stack
      /\ exec' = exec /\ cont' = cont /\ http' = http
      /\ \/ job.kind = "message" /\ inbox' = [inbox EXCEPT ![job.by] = "COMPLETED"] /\ calls' = calls
         \/ job.kind # "message" /\ calls' = [calls EXCEPT ![job.by] = NoCall] /\ inbox' = inbox
  BY DEF Commit, rows
<1>2. /\ job.kind = "message" => job.by \in Events
      /\ job.kind # "message" => job.kind = "call" /\ job.by \in Workers
  BY <1>1 DEF Ready, SavedOK, MutationInv, JobOK, Quiet
<1>3. Quiet' /\ Frames(stack) = {} /\ Free(job') = Workers
  BY <1>1, Bottom DEF Quiet, Free, NoJob
<1>4. StackOK'
  BY <1>1, Bottom DEF StackOK
<1>5. InboxOK'
  <2>1. inbox \in [Events -> {"PENDING", "COMPLETED", "DEAD_LETTER"}] /\ NotBegun(inbox, exec, job)
    BY DEF Ready, InboxOK
  <2>2. inbox' \in [Events -> {"PENDING", "COMPLETED", "DEAD_LETTER"}]
    BY <1>1, <1>2, <2>1
  <2>3. NotBegun(inbox', exec, NoJob)
    BY <1>1, <1>2, <2>1 DEF NotBegun, NoJob
  <2> QED
    BY <1>1, <2>2, <2>3 DEF InboxOK
<1>6. \A v \in Workers : calls'[v] = calls[v] \/ calls'[v].pc = "idle"
  <2>1. NoCall.pc = "idle"
    BY DEF NoCall
  <2> QED
    BY <1>1, <1>2, <2>1, ReadyFacts
<1>7. FitsOK'
  BY <1>6, ReadyFacts DEF FitsOK, CallFits
<1>8. Openings(calls', Workers) = Openings(calls, Free(job))
  <2>1. CASE job.kind = "message"
    BY <1>1, <2>1 DEF Free
  <2>2. CASE job.kind # "message"
    <3> DEFINE w == job.by
    <3>1. w \in Workers /\ Free(job) = Workers \ {w} /\ calls' = [calls EXCEPT ![w] = NoCall]
      BY <1>1, <1>2, <2>2 DEF Free
    <3> HIDE DEF w
    <3>2. calls'[w].pc # "opened" /\ \A v \in Workers \ {w} : calls'[v] = calls[v]
      BY <3>1, Idling
    <3>3. Openings(calls', Workers) = Openings(calls, Workers \ {w})
      BY <3>2, OpeningsDone
    <3> QED
      BY <3>1, <3>3
  <2> QED
    BY <2>1, <2>2
<1>9. TablesOK'
  <2>1. Store(graph, exec, cont, http, {}, Openings(calls, Free(job)))
    BY <1>1, <1>3 DEF Ready, TablesOK
  <2>2. Frames(stack') = {} /\ graph' = graph
    BY <1>1, <1>3, ReadyFacts
  <2> QED
    BY <1>1, <1>3, <1>8, <2>1, <2>2 DEF TablesOK
<1>10. SavedOK'
  BY <1>3 DEF SavedOK
<1> QED
  BY <1>4, <1>5, <1>7, <1>9, <1>10 DEF StraightInv

(* A walk that throws leaves the tables as they were, for a message to be tried
   again or to be given up. *)
LEMMA UndoGoes ==
  ASSUME Ready, ~Quiet, Undo, inbox' \in [Events -> {"PENDING", "COMPLETED", "DEAD_LETTER"}],
         \A e \in Events : inbox'[e] = "PENDING" => inbox[e] = "PENDING",
         \A w \in Workers : calls'[w] = calls[w] \/ CallFits(graph, calls'[w]),
         Store(graph, saved[1], cont', http', {}, Openings(calls', Workers))
  PROVE  StraightInv'
<1>1. exec' = saved[1] /\ stack' = <<>> /\ job' = NoJob /\ graph' = graph
  BY ReadyFacts DEF Undo
<1>2. Quiet' /\ Frames(stack') = {} /\ Free(job') = Workers
  BY <1>1, Bottom DEF Quiet, Free, NoJob
<1>3. StackOK'
  BY <1>1, Bottom DEF StackOK
<1>4. NotBegun(inbox, saved[1], NoJob)
  BY DEF Ready, SavedOK
<1>5. InboxOK'
  <2>1. NotBegun(inbox', saved[1], NoJob)
    BY <1>4 DEF NotBegun
  <2> QED
    BY <1>1, <2>1 DEF InboxOK
<1>6. FitsOK'
  BY <1>1, ReadyFacts DEF FitsOK
<1>7. TablesOK'
  BY <1>1, <1>2 DEF TablesOK
<1>8. SavedOK'
  BY <1>2 DEF SavedOK
<1> QED
  BY <1>3, <1>5, <1>6, <1>7, <1>8 DEF StraightInv

LEMMA RollbackMessageGoes ==
  ASSUME Ready, RollbackMessage
  PROVE  StraightInv'
<1>1. /\ stack # <<>> /\ job.kind = "message" /\ Undo /\ cont' = saved[2] /\ http' = saved[3] /\ calls' = calls
      /\ inbox' = inbox \/ inbox' = [inbox EXCEPT ![job.by] = "DEAD_LETTER"]
  BY DEF RollbackMessage, Conflict, Walking
<1>2. ~Quiet
  BY <1>1 DEF Ready, StackOK
<1>3. job.by \in Events /\ inbox \in [Events -> {"PENDING", "COMPLETED", "DEAD_LETTER"}]
  BY <1>1, <1>2 DEF Ready, SavedOK, InboxOK
<1>4. /\ inbox' \in [Events -> {"PENDING", "COMPLETED", "DEAD_LETTER"}]
      /\ \A e \in Events : inbox'[e] = "PENDING" => inbox[e] = "PENDING"
  BY <1>1, <1>3
<1>5. Store(graph, saved[1], cont', http', {}, Openings(calls', Workers))
  BY <1>1, <1>2 DEF Ready, SavedOK
<1> QED
  BY <1>1, <1>2, <1>4, <1>5, UndoGoes

(* For a call the row it had claimed is live again. *)
LEMMA RollbackCallGoes ==
  ASSUME Ready, RollbackCall
  PROVE  StraightInv'
<1> DEFINE w == job.by
           x == calls[w].x
           n == calls[w].n
           s == <<x, n>>
           kind == calls[w].answer
           co == saved[2]
           ht == saved[3]
<1>1. /\ stack # <<>> /\ job.kind = "call" /\ Undo /\ inbox' = inbox
      /\ cont' = CASE kind = "delay"   -> [co EXCEPT ![s] = "PENDING"]
                   [] kind = "timeout" -> [co EXCEPT ![s] = "ACTIVE"]
                   [] OTHER            -> co
      /\ http' = IF kind \in {"delay", "timeout"} THEN ht
                 ELSE [ht EXCEPT ![s] = [@ EXCEPT !.status = "PROCESSING", !.lease = w]]
      /\ calls' = [calls EXCEPT ![w] = IF kind \in {"success", "failure"}
                                       THEN [@ EXCEPT !.pc = "answered", !.answer = "unknown"] ELSE NoCall]
  BY DEF RollbackCall, Conflict, Walking, messages
<1>2. ~Quiet
  BY <1>1 DEF Ready, StackOK
<1>3. w \in Workers /\ calls[w].pc = "opened"
  BY <1>1 DEF Ready, MutationInv, JobOK
<1>4. /\ CallFits(graph, calls[w]) /\ s \in Slots /\ x \in Ids /\ n \in Nodes
      /\ calls \in [Workers -> CallType] /\ graph \in StraightGraphs
  <2>1. CallFits(graph, calls[w]) /\ <<calls[w].x, calls[w].n>> \in Slots
    BY <1>3, ReadyFacts
  <2> QED
    BY <2>1, ReadyFacts DEF Slots
<1>5. /\ Store(graph, saved[1], co, ht, {}, Openings(calls, Workers)) /\ ht \in [Slots -> RowType]
  BY <1>2 DEF Ready, SavedOK, MutationInv, HttpOK
<1>6. /\ co \in [Slots -> Conts] /\ RowKinds(graph, co, ht)
      /\ Tables(graph, saved[1], RowState(co, ht), {}, Openings(calls, Workers))
  BY <1>5 DEF Store
<1>7. /\ calls'[w].pc \in {"answered", "idle"}
      /\ calls'[w].pc = "answered" => calls'[w].answer = "unknown"
      /\ \A v \in Workers \ {w} : calls'[v] = calls[v]
  <2>1. NoCall.pc = "idle"
    BY DEF NoCall
  <2> HIDE DEF w
  <2> QED
    BY <1>1, <1>3, <1>4, <2>1 DEF CallType
<1>8. CallFits(graph, calls'[w])
  BY <1>7 DEF CallFits, Answers
<1> HIDE DEF w, co, ht, x, n
<1>9. Tables(graph, saved[1], [RowState(co, ht) EXCEPT ![<<x, n>>] = "live"], {},
             Openings(calls, Workers) \ {<<w, <<x, n>>>>})
  <2>1. <<w, <<x, n>>>> \in Openings(calls, Workers)
    BY <1>3, <1>4, OpeningAt DEF x, n
  <2> QED
    BY <1>3, <1>4, <1>6, <2>1, Reopens
<1>10. Openings(calls', Workers) = Openings(calls, Workers) \ {<<w, <<x, n>>>>}
  <2>1. Openings(calls', Workers) = Openings(calls, Workers \ {w})
    <3>1. calls'[w].pc # "opened" /\ \A v \in Workers \ {w} : calls'[v] = calls[v]
      BY <1>7
    <3> QED
      BY <3>1, OpeningsDone
  <2>2. Openings(calls, Workers \ {w}) = Openings(calls, Workers) \ {<<w, <<x, n>>>>}
    BY <1>3, <1>4, OpeningsLost DEF x, n
  <2> QED
    BY <2>1, <2>2
<1>11. \/ /\ cont' = [co EXCEPT ![s] = "PENDING"] /\ http' = ht /\ graph.kind[n] = "delay"
       \/ /\ cont' = [co EXCEPT ![s] = "ACTIVE"] /\ http' = ht /\ graph.kind[n] = "wait"
       \/ /\ cont' = co /\ http' = [ht EXCEPT ![s] = [@ EXCEPT !.status = "PROCESSING", !.lease = w]]
          /\ graph.kind[n] = "http"
  BY <1>1, <1>3, <1>4 DEF CallFits, n
<1>12. /\ cont' \in [Slots -> Conts]
       /\ \A t \in Slots \ {s} : cont'[t] = co[t] /\ http'[t] = ht[t]
       /\ \/ cont'[s] = "PENDING" /\ http'[s] = ht[s] /\ graph.kind[n] = "delay"
          \/ cont'[s] = "ACTIVE" /\ http'[s] = ht[s] /\ graph.kind[n] = "wait"
          \/ cont'[s] = co[s] /\ http'[s].status = "PROCESSING" /\ graph.kind[n] = "http"
  BY <1>4, <1>5, <1>6, <1>11 DEF Conts, RowType
<1>13. RowState(cont', http')[s] = "live"
  <2>1. http'[s].status = "PROCESSING" => http'[s] # NoRow
    BY DEF NoRow
  <2> QED
    BY <1>4, <1>12, <2>1 DEF RowState
<1>14. RowState(cont', http') = [RowState(co, ht) EXCEPT ![<<x, n>>] = "live"]
  <2>1. RowMoves(co, ht, cont', http', s)
    BY <1>12 DEF RowMoves
  <2> QED
    BY <1>4, <1>13, <2>1, RowStateAt
<1>15. RowKinds(graph, cont', http')
  <2> SUFFICES ASSUME NEW y \in Ids, NEW m \in Nodes
               PROVE  /\ cont'[<<y, m>>] \in {"PENDING", "COMPLETED"} => graph.kind[m] = "delay"
                      /\ cont'[<<y, m>>] \in {"ACTIVE", "RESOLVED", "TIMED_OUT"} => graph.kind[m] = "wait"
                      /\ http'[<<y, m>>] # NoRow => graph.kind[m] = "http" /\ http'[<<y, m>>].status # "NONE"
    BY DEF RowKinds
  <2>1. CASE <<y, m>> = s
    <3>1. m = n /\ /\ co[s] \in {"PENDING", "COMPLETED"} => graph.kind[n] = "delay"
                   /\ co[s] \in {"ACTIVE", "RESOLVED", "TIMED_OUT"} => graph.kind[n] = "wait"
                   /\ ht[s] # NoRow => graph.kind[n] = "http" /\ ht[s].status # "NONE"
      BY <1>4, <1>6, <2>1 DEF RowKinds
    <3> QED
      BY <1>12, <2>1, <3>1
  <2>2. CASE <<y, m>> # s
    BY <1>6, <1>12, <2>2, SlotNames DEF RowKinds
  <2> QED
    BY <2>1, <2>2
<1>16. Store(graph, saved[1], cont', http', {}, Openings(calls', Workers))
  BY <1>9, <1>10, <1>12, <1>14, <1>15 DEF Store
<1>17. inbox' \in [Events -> {"PENDING", "COMPLETED", "DEAD_LETTER"}]
  BY <1>1 DEF Ready, InboxOK
<1>18. \A v \in Workers : calls'[v] = calls[v] \/ CallFits(graph, calls'[v])
  BY <1>7, <1>8
<1> QED
  BY <1>1, <1>2, <1>16, <1>17, <1>18, UndoGoes
-----------------------------------------------------------------------------
LEMMA StraightInit == Init => StraightInv
<1> SUFFICES ASSUME Init, graph \in StraightGraphs
             PROVE  StackOK /\ InboxOK /\ FitsOK /\ TablesOK /\ SavedOK
  BY DEF StraightInv
<1>1. /\ exec = [x \in Ids |-> [status |-> "NONE", at |-> Nobody]] /\ Quiet /\ stack = <<>>
      /\ \A s \in Slots : cont[s] = "NONE" /\ http[s] = NoRow
      /\ cont \in [Slots -> Conts] /\ \A w \in Workers : calls[w].pc = "idle"
  BY DEF Init, Conts, NoCall, Quiet
<1>2. StackOK
  BY <1>1, Bottom DEF StackOK
<1>3. InboxOK
  BY <1>1, Firsts DEF Init, InboxOK, NotBegun
<1>4. FitsOK
  BY <1>1 DEF FitsOK, CallFits
<1>5. SavedOK
  BY <1>1 DEF SavedOK
<1>6. RowKinds(graph, cont, http)
  BY <1>1, SlotNames DEF RowKinds
<1>7. Frames(stack) = {} /\ Openings(calls, Free(job)) = {}
  BY <1>1, Bottom DEF Openings, Free
<1> DEFINE rw == RowState(cont, http)
<1>8. rw \in [Slots -> RowStates] /\ \A x \in Ids, n \in Nodes : rw[<<x, n>>] = "fresh"
  BY <1>1 DEF RowState, RowStates, Slots
<1> HIDE DEF rw
<1>9. Typed(exec, rw, {}, {})
  BY <1>1, <1>8 DEF Typed, ExecType, Execs
<1>10. ASSUME NEW x \in Ids PROVE Sound(graph, exec, rw, {}, {}, x)
  <2>1. Unborn(exec, rw, {}, {}, x)
    BY <1>1, <1>8 DEF Unborn, Unheld, Held, Lives, Claimed, Begets, Active, Unframed, Fresh
  <2>2. Fits(graph, exec, rw, x)
    BY <1>1, <1>8 DEF Fits
  <2> QED
    BY <2>1, <2>2 DEF Sound
<1>11. Tables(graph, exec, rw, {}, {})
  BY <1>9, <1>10 DEF Tables
<1>12. TablesOK
  BY <1>1, <1>6, <1>7, <1>11 DEF TablesOK, Store, rw
<1> QED
  BY <1>2, <1>3, <1>4, <1>5, <1>12

LEMMA StraightStutter == ASSUME StraightInv, UNCHANGED vars PROVE StraightInv'
<1>1. UNCHANGED <<graph, exec, cont, http, inbox, job, stack, saved, calls>>
  BY DEF vars, scenario, rows, messages, walk
<1>2. (StackOK => StackOK') /\ (InboxOK => InboxOK') /\ (FitsOK => FitsOK')
  BY <1>1 DEF StackOK, Quiet, InboxOK, FitsOK
<1>3. (TablesOK => TablesOK') /\ (SavedOK => SavedOK')
  BY <1>1 DEF TablesOK, SavedOK, Quiet
<1> QED
  BY <1>1, <1>2, <1>3 DEF StraightInv

LEMMA StraightNext == ASSUME StraightInv, MutationInv, MutationInv', Next PROVE StraightInv'
<1>1. graph' = graph
  BY ZenonT(60) DEF Next, Walk, ApplyStep, ApplyCondition, ApplyStop, NodeFails, ApplyDelay, ApplyWait,
     QueueHttp, StartSubflow, FinishGraph, ResumeExecution, ResolveWait, Commit, RollbackMessage,
     RollbackCall, HandleMessage, ResumeDelayedAction, TimeoutWait, LoadHttp, RunContinuation, ClaimHttp,
     SendRequest, RetryHttp, FinishHttp, MarkUnknown, Crash, LeaseLapses, scenario
<1>2. CASE graph \notin StraightGraphs
  BY <1>1, <1>2 DEF StraightInv
<1>3. CASE graph \in StraightGraphs
  <2>1. StackOK /\ InboxOK /\ FitsOK /\ TablesOK /\ SavedOK
    BY <1>3 DEF StraightInv
  <2>2. ASSUME UNCHANGED scenario PROVE Ready
    BY <1>3, <2>1, <2>2 DEF Ready
  <2>3. CASE \/ ApplyStep \/ ApplyCondition \/ ApplyStop \/ NodeFails \/ ApplyDelay \/ ApplyWait
             \/ QueueHttp \/ StartSubflow \/ FinishGraph \/ ResumeExecution \/ ResolveWait
    <3>1. stack # <<>> /\ UNCHANGED <<scenario, messages, job, saved, calls>>
      BY <2>3, ZenonT(60) DEF ApplyStep, ApplyCondition, ApplyStop, NodeFails, ApplyDelay, ApplyWait,
         QueueHttp, StartSubflow, FinishGraph, ResumeExecution, ResolveWait, Walking
    <3>2. Going
      BY <1>3, <2>1, <3>1 DEF Going
    <3> QED
      BY <2>3, <3>2, GoStep, FailStep, DelayStep, QueueStep, SubflowStep, FinishStepInv, ResumeStep,
         ReplyStep
  <2>4. CASE Commit \/ RollbackMessage \/ RollbackCall
    <3>1. Ready
      BY <2>2, <2>4 DEF Commit, RollbackMessage, RollbackCall
    <3> QED
      BY <2>4, <3>1, CommitGoes, RollbackMessageGoes, RollbackCallGoes
  <2>5. ASSUME NEW e \in Events, HandleMessage(e) PROVE StraightInv'
    <3>1. Ready
      BY <2>2, <2>5 DEF HandleMessage
    <3> QED
      BY <2>5, <3>1, MessageGoes
  <2>6. ASSUME NEW w \in Workers, NEW s \in Slots,
               ResumeDelayedAction(w, s) \/ TimeoutWait(w, s) \/ LoadHttp(w, s)
        PROVE  StraightInv'
    <3>1. Ready
      BY <2>2, <2>6 DEF ResumeDelayedAction, TimeoutWait, LoadHttp
    <3> QED
      BY <2>6, <3>1, ContinuationGoes, LoadGoes
  <2>7. ASSUME NEW w \in Workers,
               \/ RunContinuation(w) \/ ClaimHttp(w) \/ SendRequest(w) \/ RetryHttp(w)
               \/ FinishHttp(w) \/ MarkUnknown(w) \/ Crash(w)
        PROVE  StraightInv'
    <3>1. Ready
      BY <2>2, <2>7 DEF RunContinuation, ClaimHttp, SendRequest, RetryHttp, FinishHttp, MarkUnknown, Crash
    <3> QED
      BY <2>7, <3>1, RunGoes, ClaimGoes, SendGoes, RetryGoes, FinishGoes, MarkGoes, CrashGoes
  <2>8. ASSUME NEW s \in Slots, LeaseLapses(s) PROVE StraightInv'
    <3>1. Ready
      BY <2>2, <2>8 DEF LeaseLapses
    <3> QED
      BY <2>8, <3>1, LapseGoes
  <2> QED
    BY <2>3, <2>4, <2>5, <2>6, <2>7, <2>8 DEF Next, Walk
<1> QED
  BY <1>2, <1>3

LEMMA StraightAlways == Spec => [](StraightInv /\ MutationInv)
<1>1. Init => StraightInv /\ MutationInv
  BY StraightInit, MutationInit
<1>2. StraightInv /\ MutationInv /\ [Next]_vars => (StraightInv /\ MutationInv)'
  BY StraightNext, StraightStutter, MutationNext
<1> QED
  BY <1>1, <1>2, PTL DEF Spec

(* What a committed transaction completed or failed, no later one touches:
   the status a continuation reads before it resumes by id is still true. *)
THEOREM AutomationFinalStays == Spec => []FinalStays
<1>1. StraightInv => FinalStays
  BY DEF StraightInv, SavedOK, FinalKept, FinalStays
<1> QED
  BY <1>1, StraightAlways, PTL

(* A parent sits at the node of a child that has not completed, however deep
   the subflows nest: nothing else has resumed it. *)
THEOREM AutomationParentWaits == Spec => []ParentWaits
<1>1. StraightInv => ParentWaits
  <2> SUFFICES ASSUME StraightInv, Quiet, graph \in StraightGraphs, NEW c \in Ids, IsChild(c),
                      exec[c].status \in Active
               PROVE  exec[Parent(c)] = [status |-> "WAITING", at |-> Starter(c)]
    BY DEF ParentWaits, Active
  <2> DEFINE rw == RowState(cont, http)
             fs == Frames(stack)
             os == Openings(calls, Free(job))
  <2>1. Tables(graph, exec, rw, fs, os)
    BY DEF StraightInv, TablesOK, Store
  <2> HIDE DEF rw, fs, os
  <2>2. Parent(c) \in Ids /\ Starter(c) \in Nodes /\ Child(Parent(c), Starter(c)) = c
    BY Parents
  <2>3. Held(exec, rw, os, Parent(c), Starter(c))
    BY <2>2 DEF Held, Begets
  <2>4. StandsAt(graph, exec, rw, fs, os, Parent(c), Starter(c))
    BY <2>1, <2>2, <2>3, HeldStands
  <2> QED
    BY <2>4 DEF StandsAt, Waits
<1> QED
  BY <1>1, StraightAlways, PTL

(* Between two transactions a waiting execution of a straight scenario has
   something that will wake it: a row, a call that claimed one, or a child. *)
THEOREM AutomationWaitingIsAwaited == Spec => []WaitingIsAwaited
<1>1. StraightInv => WaitingIsAwaited
  <2> SUFFICES ASSUME StraightInv, Quiet, graph \in StraightGraphs, NEW x \in Ids,
                      exec[x].status = "WAITING"
               PROVE  Awaited(x)
    BY DEF WaitingIsAwaited
  <2> DEFINE rw == RowState(cont, http)
             os == Openings(calls, Free(job))
  <2>1. Tables(graph, exec, rw, {}, os) /\ \A w \in Workers : CallFits(graph, calls[w])
    BY Bottom DEF StraightInv, StackOK, TablesOK, Store, FitsOK
  <2> HIDE DEF rw, os
  <2>2. ASSUME NEW y \in Ids PROVE exec[y].status # "RUNNING"
    <3>1. Sound(graph, exec, rw, {}, os, y)
      BY <2>1 DEF Tables
    <3>2. ASSUME NEW n \in Nodes, exec[y] = Waits(n) PROVE exec[y].status = "WAITING"
      BY <3>2 DEF Waits
    <3>3. Stands(graph, exec, rw, {}, os, y) => exec[y].status = "WAITING"
      BY <3>2 DEF Stands, StandsAt
    <3> QED
      BY <3>1, <3>3 DEF Sound, Unborn, Walks, Resumes, Rests
  <2>3. PICK n \in Nodes : StandsAt(graph, exec, rw, {}, os, x, n) /\ Fits(graph, exec, rw, x)
    <3>1. Sound(graph, exec, rw, {}, os, x)
      BY <2>1 DEF Tables
    <3> QED
      BY <3>1 DEF Sound, Unborn, Walks, Resumes, Stands, Rests
  <2>4. exec[x].at = n /\ Held(exec, rw, os, x, n)
    BY <2>3 DEF StandsAt, Waits
  <2>5. CASE Lives(rw, x, n)
    <3>1. <<x, n>> \in Slots
      BY DEF Slots
    <3>2. cont[<<x, n>>] \in {"PENDING", "ACTIVE"} \/ http[<<x, n>>].status \in {"PENDING", "RETRY", "PROCESSING"}
      BY <2>5, <3>1 DEF Lives, rw, RowState
    <3> QED
      BY <2>4, <3>2 DEF Awaited
  <2>6. CASE Claimed(os, x, n)
    <3>1. PICK w \in Workers : <<w, <<x, n>>>> \in os
      BY <2>6 DEF Claimed
    <3>2. calls[w].pc = "opened" /\ <<x, n>> = <<calls[w].x, calls[w].n>>
      BY <3>1, OpeningAt DEF os
    <3>3. calls[w].x = x /\ calls[w].n = n /\ ~calls[w].final
      BY <2>1, <3>2 DEF CallFits
    <3> QED
      BY <2>4, <3>2, <3>3 DEF Awaited
  <2>7. CASE Begets(exec, x, n)
    <3>1. Child(x, n) \in Ids /\ exec[Child(x, n)].status \in {"WAITING", "PAUSED", "FAILED"}
      BY <2>2, <2>7 DEF Begets, Active
    <3>2. graph.kind[n] = "subflow"
      BY <2>3, <3>1 DEF Fits
    <3> QED
      BY <2>4, <3>1, <3>2 DEF Awaited
  <2> QED
    BY <2>4, <2>5, <2>6, <2>7 DEF Held
<1> QED
  BY <1>1, StraightAlways, PTL
-----------------------------------------------------------------------------
(* Type correctness, for every graph. *)
LEMMA GraphType ==
  ASSUME TypeOK
  PROVE  /\ graph.start \in Nodes /\ graph.flow \in [Nodes -> Nodes]
         /\ \A n \in Nodes : /\ graph.next[n] \in Nodes \cup {Nobody}
                             /\ graph.alt[n] \in Nodes \cup {Nobody}
<1>1. graph \in ScenarioGraph
  BY AutomationAssumption DEF TypeOK
<1> QED
  BY <1>1 DEF ScenarioGraph

LEMMA TypeInit == Init => TypeOK
<1> SUFFICES ASSUME Init PROVE TypeOK
  OBVIOUS
<1>1. NoRow \in RowType /\ NoCall \in CallType /\ [status |-> "NONE", at |-> Nobody] \in ExecType
  BY DEF NoRow, RowType, Rows, NoCall, CallType, ExecType, Execs
<1>2. Tabled(exec, cont, http)
  BY <1>1 DEF Init, Tabled, Conts
<1>3. Quiet /\ <<>> \in Seq(FrameType)
  BY DEF Init, Quiet
<1> QED
  BY <1>1, <1>2, <1>3 DEF Init, TypeOK

(* What a walk changes. *)
LEMMA WalkType ==
  ASSUME TypeOK, stack # <<>>, stack' \in Seq(FrameType), Tabled(exec', cont', http'),
         UNCHANGED <<scenario, messages, job, saved, calls, history, faults>>
  PROVE  TypeOK'
<1>1. /\ graph' = graph /\ fits' = fits /\ inbox' = inbox /\ tries' = tries /\ job' = job /\ saved' = saved
      /\ calls' = calls /\ unsure' = unsure /\ repeated' = repeated /\ raced' = raced /\ faults' = faults
      /\ ~Quiet /\ ~Quiet'
  BY DEF scenario, messages, history, TypeOK, Quiet
<1> QED
  BY <1>1 DEF TypeOK

LEMMA TopType ==
  ASSUME TypeOK, stack # <<>>
  PROVE  /\ Top \in FrameType /\ Below \in Seq(FrameType) /\ Tabled(exec, cont, http)
         /\ \A f \in FrameType, st \in Seq(FrameType) : <<f>> \o st \in Seq(FrameType)
BY DEF TypeOK, Top, Below

LEMMA SetType ==
  ASSUME NEW ex \in [Ids -> ExecType], NEW x, NEW status \in Execs, NEW at \in Nodes \cup {Nobody}
  PROVE  [ex EXCEPT ![x] = [status |-> status, at |-> at]] \in [Ids -> ExecType]
BY DEF ExecType

LEMMA FrameIn ==
  ASSUME NEW x \in Ids, NEW n \in Nodes \cup {Nobody}, NEW mode \in {"walk", "resume"}
  PROVE  Frame(x, n, mode) \in FrameType
BY DEF Frame, FrameType

LEMMA NodeSteps ==
  ASSUME TypeOK, \/ ApplyStep \/ ApplyCondition \/ ApplyStop \/ NodeFails \/ ApplyDelay \/ ApplyWait
                 \/ QueueHttp
  PROVE  TypeOK'
<1>1. stack # <<>> /\ Top.n # Nobody /\ UNCHANGED <<scenario, messages, job, saved, calls, history, faults>>
  BY ZenonT(60) DEF ApplyStep, ApplyCondition, ApplyStop, NodeFails, ApplyDelay, ApplyWait, QueueHttp, Walking
<1>2. /\ Top.x \in Ids /\ Top.n \in Nodes /\ Below \in Seq(FrameType) /\ exec \in [Ids -> ExecType]
      /\ cont \in [Slots -> Conts] /\ http \in [Slots -> RowType]
  BY <1>1, TopType DEF FrameType, Tabled
<1>3. ASSUME NEW n \in Nodes \cup {Nobody}, Go(n) PROVE stack' \in Seq(FrameType)
  <2>1. Frame(Top.x, n, "walk") \in FrameType
    BY <1>2, FrameIn
  <2> QED
    BY <1>1, <1>2, <1>3, <2>1, TopType DEF Go
<1>4. CASE ApplyStep \/ ApplyCondition \/ ApplyStop
  <2>1. UNCHANGED rows /\ \E n \in Nodes \cup {Nobody} : Go(n)
    BY <1>2, <1>4, GraphType DEF ApplyStep, ApplyCondition, ApplyStop
  <2> QED
    BY <1>1, <1>2, <1>3, <2>1, WalkType DEF rows, Tabled
<1>5. CASE NodeFails \/ ApplyDelay \/ ApplyWait \/ QueueHttp
  <2>1. exec' \in [Ids -> ExecType] /\ stack' \in Seq(FrameType)
    <3>1. stack' = Below /\ (Set("FAILED", Nobody) \/ Set("WAITING", Top.n))
      BY <1>5 DEF NodeFails, ApplyDelay, ApplyWait, QueueHttp
    <3>2. exec' \in [Ids -> ExecType]
      BY <1>2, <3>1, SetType DEF Set, Execs
    <3> QED
      BY <1>2, <3>1, <3>2
  <2>2. cont' \in [Slots -> Conts]
    <3>1. cont' = cont \/ \E v \in Conts : cont' = [cont EXCEPT ![<<Top.x, Top.n>>] = v]
      BY <1>5 DEF NodeFails, ApplyDelay, ApplyWait, QueueHttp, Conts
    <3> QED
      BY <1>2, <3>1
  <2>3. http' \in [Slots -> RowType]
    <3>1. http' = http \/ http' = [http EXCEPT ![<<Top.x, Top.n>>].status = "PENDING"]
      BY <1>5 DEF NodeFails, ApplyDelay, ApplyWait, QueueHttp
    <3> QED
      BY <1>2, <3>1 DEF RowType, Rows
  <2> QED
    BY <1>1, <2>1, <2>2, <2>3, WalkType DEF Tabled
<1> QED
  BY <1>4, <1>5

LEMMA CallSteps ==
  ASSUME TypeOK, StartSubflow \/ FinishGraph \/ ResumeExecution \/ ResolveWait
  PROVE  TypeOK'
<1>1. stack # <<>> /\ http' = http /\ UNCHANGED <<scenario, messages, job, saved, calls, history, faults>>
  BY DEF StartSubflow, FinishGraph, ResumeExecution, ResolveWait, Walking
<1>2. /\ Top.x \in Ids /\ Top.n \in Nodes \cup {Nobody} /\ Below \in Seq(FrameType)
      /\ exec \in [Ids -> ExecType] /\ cont \in [Slots -> Conts] /\ http \in [Slots -> RowType]
      /\ \A f \in FrameType, st \in Seq(FrameType) : <<f>> \o st \in Seq(FrameType)
  BY <1>1, TopType DEF FrameType, Tabled
<1>3. \A x \in Ids : Scenario(x) \in Nodes
  BY Parents, GraphType DEF Scenario
<1>4. CASE StartSubflow
  <2> DEFINE c == Child(Top.x, Top.n)
             h == Frame(c, Scenario(c), "walk")
             k == Frame(Top.x, graph.next[Top.n], "walk")
             new == exec[c].status = "NONE"
             begun == IF new THEN [exec EXCEPT ![c] = [status |-> "RUNNING", at |-> Nobody]] ELSE exec
             calling == IF exec[c].status \notin Final THEN <<h>> ELSE <<>>
  <2>1. Top.n \in Nodes /\ c \in Ids /\ cont' = cont
    BY <1>2, <1>4 DEF StartSubflow, Walking
  <2>2. h \in FrameType /\ k \in FrameType
    BY <1>2, <1>3, <2>1, GraphType, FrameIn
  <2>3. begun \in [Ids -> ExecType]
    BY <1>2, SetType DEF Execs
  <2>4. /\ exec' = [begun EXCEPT ![Top.x] = [status |-> "WAITING", at |-> Top.n]] \/ exec' = begun
        /\ stack' = calling \o Below \/ stack' = calling \o <<k>> \o Below
    BY <1>4 DEF StartSubflow
  <2> HIDE DEF begun, h, k, c
  <2>5. exec' \in [Ids -> ExecType]
    BY <1>2, <2>3, <2>4, SetType DEF Execs
  <2>6. stack' \in Seq(FrameType)
    <3>1. calling \in Seq(FrameType) /\ <<k>> \o Below \in Seq(FrameType) /\ <<k>> \in Seq(FrameType)
      BY <1>2, <2>2
    <3>2. calling \o Below \in Seq(FrameType) /\ calling \o <<k>> \o Below \in Seq(FrameType)
      BY <1>2, <3>1
    <3> QED
      BY <2>4, <3>2
  <2> QED
    BY <1>1, <1>2, <2>1, <2>5, <2>6, WalkType DEF Tabled
<1>5. CASE FinishGraph
  <2>1. exec' \in [Ids -> ExecType] /\ cont' = cont
    BY <1>2, <1>5, SetType DEF FinishGraph, Set, Execs
  <2>2. stack' \in Seq(FrameType)
    <3>1. ASSUME IsChild(Top.x)
          PROVE  Frame(Parent(Top.x), graph.next[Starter(Top.x)], "resume") \in FrameType
      BY <1>2, <3>1, Parents, GraphType, FrameIn
    <3> QED
      BY <1>2, <1>5, <3>1 DEF FinishGraph
  <2> QED
    BY <1>1, <1>2, <2>1, <2>2, WalkType DEF Tabled
<1>6. CASE ResumeExecution
  <2>1. exec' \in [Ids -> ExecType] /\ cont' = cont
    BY <1>2, <1>6, SetType DEF ResumeExecution, Set, Execs
  <2>2. Frame(Top.x, Target(Top.x, Top.n), "walk") \in FrameType
    BY <1>2, <1>3, FrameIn DEF Target
  <2>3. stack' \in Seq(FrameType)
    BY <1>2, <1>6, <2>2 DEF ResumeExecution, Go
  <2> QED
    BY <1>1, <1>2, <2>1, <2>3, WalkType DEF Tabled
<1>7. CASE ResolveWait
  <2>1. exec' = exec /\ cont' \in [Slots -> Conts]
    BY <1>2, <1>7 DEF ResolveWait, Conts
  <2>2. graph.next[Top.n] \in Nodes \cup {Nobody}
    BY <1>1, <1>7, TopType, GraphType DEF ResolveWait, FrameType
  <2>3. Frame(Top.x, graph.next[Top.n], "resume") \in FrameType
    BY <1>2, <2>2, FrameIn
  <2>4. stack' \in Seq(FrameType)
    BY <1>2, <1>7, <2>3 DEF ResolveWait
  <2> QED
    BY <1>1, <1>2, <2>1, <2>4, WalkType DEF Tabled
<1> QED
  BY <1>4, <1>5, <1>6, <1>7

(* A walk begins. *)
LEMMA MessageType ==
  ASSUME TypeOK, NEW e \in Events, HandleMessage(e)
  PROVE  TypeOK'
<1>1. /\ Quiet /\ job' = [kind |-> "message", by |-> e] /\ saved' = <<exec, cont, http>>
      /\ UNCHANGED <<scenario, cont, http, messages, calls, history, faults>>
  BY DEF HandleMessage, Begin, rows
<1>2. Tabled(exec, cont, http)
  BY DEF TypeOK
<1>3. <<e>> \in Ids
  BY Firsts
<1> DEFINE hits == IF e \in fits THEN {s \in Slots : cont[s] = "ACTIVE"} ELSE {}
<1>4. CASE hits # {}
  <2>1. PICK order \in SetToSeqs(hits) :
          stack' = [i \in DOMAIN order |-> Frame(order[i][1], order[i][2], "reply")]
    BY <1>4 DEF HandleMessage
  <2>2. exec' = exec
    BY <1>4 DEF HandleMessage
  <2>3. hits \in SUBSET Slots
    OBVIOUS
  <2> HIDE DEF hits
  <2>4. order \in Seq(Slots) /\ DOMAIN order = 1..Len(order) /\ Len(order) \in Nat
    BY <2>1, <2>3, Answering
  <2>5. \A i \in 1..Len(order) : Frame(order[i][1], order[i][2], "reply") \in FrameType
    BY <2>4, SlotNames DEF Frame, FrameType
  <2>6. stack' \in Seq(FrameType)
    BY <2>1, <2>4, <2>5
  <2> QED
    BY <1>1, <1>2, <2>2, <2>6 DEF TypeOK, scenario, messages, history, Quiet, NoJob
<1>5. CASE hits = {}
  <2>1. /\ exec' = [exec EXCEPT ![<<e>>] = [status |-> "RUNNING", at |-> Nobody]]
        /\ stack' = <<Frame(<<e>>, graph.start, "walk")>>
    BY <1>5 DEF HandleMessage
  <2>2. exec' \in [Ids -> ExecType]
    BY <1>2, <2>1, SetType DEF Tabled, Execs
  <2>3. stack' \in Seq(FrameType)
    BY <1>3, <2>1, GraphType, FrameIn
  <2> QED
    BY <1>1, <1>2, <2>2, <2>3 DEF TypeOK, Tabled, scenario, messages, history, Quiet, NoJob
<1> QED
  BY <1>4, <1>5

LEMMA RunType ==
  ASSUME TypeOK, MutationInv, NEW w \in Workers, RunContinuation(w)
  PROVE  TypeOK'
<1> DEFINE x == calls[w].x
           n == calls[w].n
           m == Continuation(calls[w])
<1>1. /\ Quiet /\ calls[w].pc = "opened" /\ job' = [kind |-> "call", by |-> w] /\ saved' = <<exec, cont, http>>
      /\ UNCHANGED <<scenario, cont, http, messages, calls, history, faults>>
  BY DEF RunContinuation, Begin, rows
<1>2. Tabled(exec, cont, http) /\ x \in Ids /\ n \in Nodes
  BY <1>1 DEF TypeOK, MutationInv, CallsOK, Slot, Slots
<1>3. m \in Nodes \cup {Nobody} /\ Target(x, m) \in Nodes
  BY <1>2, GraphType, Parents DEF Continuation, Target, Scenario
<1>4. exec' = exec \/ exec' = [exec EXCEPT ![x] = [status |-> "RUNNING", at |-> m]]
  BY DEF RunContinuation
<1>5. stack' = <<>> \/ stack' = <<Frame(x, Target(x, m), "walk")>>
  BY DEF RunContinuation
<1> HIDE DEF x, n, m
<1>6. exec' \in [Ids -> ExecType]
  BY <1>2, <1>3, <1>4, SetType DEF Tabled, Execs
<1>7. stack' \in Seq(FrameType)
  <2>1. Frame(x, Target(x, m), "walk") \in FrameType
    BY <1>2, <1>3, FrameIn
  <2>2. <<>> \in Seq(FrameType) /\ \A f \in FrameType : <<f>> \in Seq(FrameType)
    OBVIOUS
  <2>3. <<Frame(x, Target(x, m), "walk")>> \in Seq(FrameType)
    BY <2>1, <2>2
  <2> QED
    BY <1>5, <2>2, <2>3
<1> QED
  BY <1>1, <1>2, <1>6, <1>7 DEF TypeOK, Tabled, scenario, messages, history, Quiet, NoJob

(* It ends. *)
LEMMA EndType ==
  ASSUME TypeOK, MutationInv', Commit \/ RollbackMessage \/ RollbackCall
  PROVE  TypeOK'
<1>1. /\ ~Quiet /\ job' = NoJob /\ saved' = <<>> /\ stack' = <<>>
      /\ UNCHANGED <<scenario, history, faults>>
  BY DEF Commit, RollbackMessage, RollbackCall, Undo, Quiet, NoJob
<1>2. calls' \in [Workers -> CallType] /\ http' \in [Slots -> RowType]
  BY DEF MutationInv, CallsOK, HttpOK
<1>3. /\ Tabled(exec, cont, http) /\ Tabled(saved[1], saved[2], saved[3])
      /\ inbox \in [Events -> {"PENDING", "COMPLETED", "DEAD_LETTER"}] /\ tries \in [Events -> Nat]
  BY <1>1 DEF TypeOK
<1>4. exec' \in [Ids -> ExecType]
  BY <1>3 DEF Commit, RollbackMessage, RollbackCall, Undo, rows, Tabled
<1>5. cont' \in [Slots -> Conts]
  <2>1. \/ cont' = cont \/ cont' = saved[2]
        \/ \E s : \E v \in {"PENDING", "ACTIVE"} : cont' = [saved[2] EXCEPT ![s] = v]
    BY DEF Commit, RollbackMessage, RollbackCall, rows
  <2> QED
    BY <1>3, <2>1 DEF Tabled, Conts
<1>6. /\ inbox' \in [Events -> {"PENDING", "COMPLETED", "DEAD_LETTER"}] /\ tries' \in [Events -> Nat]
  BY <1>3 DEF Commit, RollbackMessage, RollbackCall, messages
<1>7. Quiet' /\ Tabled(exec', cont', http') /\ stack' \in Seq(FrameType)
  BY <1>1, <1>2, <1>4, <1>5 DEF Quiet, Tabled
<1> QED
  BY <1>1, <1>2, <1>6, <1>7 DEF TypeOK, scenario, history

(* Between two walks. *)
LEMMA QuietType ==
  ASSUME TypeOK, MutationInv', Quiet, UNCHANGED <<scenario, messages, walk>>,
         exec' \in [Ids -> ExecType], cont' \in [Slots -> Conts],
         unsure' \subseteq Slots, repeated' \subseteq Slots, raced' \subseteq Slots, faults' \in 0..MaxFaults
  PROVE  TypeOK'
<1>1. calls' \in [Workers -> CallType] /\ http' \in [Slots -> RowType]
  BY DEF MutationInv, CallsOK, HttpOK
<1> QED
  BY <1>1 DEF TypeOK, Tabled, scenario, messages, walk, Quiet

LEMMA FreeType ==
  ASSUME TypeOK, MutationInv, MutationInv',
         \/ \E w \in Workers, s \in Slots : ResumeDelayedAction(w, s) \/ TimeoutWait(w, s) \/ LoadHttp(w, s)
         \/ \E w \in Workers : \/ ClaimHttp(w) \/ SendRequest(w) \/ RetryHttp(w)
                               \/ FinishHttp(w) \/ MarkUnknown(w) \/ Crash(w)
         \/ \E s \in Slots : LeaseLapses(s)
  PROVE  TypeOK'
<1>1. /\ exec \in [Ids -> ExecType] /\ cont \in [Slots -> Conts] /\ faults \in 0..MaxFaults /\ MaxFaults \in Nat
      /\ unsure \subseteq Slots /\ repeated \subseteq Slots /\ raced \subseteq Slots
      /\ \A w \in Workers : calls[w].pc # "idle" => Slot(w) \in Slots
  BY AutomationAssumption DEF TypeOK, Tabled, MutationInv, CallsOK
<1>2. ASSUME NEW w \in Workers, NEW s \in Slots, ResumeDelayedAction(w, s) \/ TimeoutWait(w, s) \/ LoadHttp(w, s)
      PROVE  TypeOK'
  <2>1. Quiet /\ UNCHANGED <<scenario, messages, walk, exec, history, faults>>
    BY <1>2 DEF ResumeDelayedAction, TimeoutWait, LoadHttp, rows
  <2>2. cont' \in [Slots -> Conts]
    BY <1>1, <1>2 DEF ResumeDelayedAction, TimeoutWait, LoadHttp, rows, Conts
  <2> QED
    BY <1>1, <2>1, <2>2, QuietType DEF history
<1>3. ASSUME NEW w \in Workers, ClaimHttp(w) \/ SendRequest(w) \/ RetryHttp(w) \/ FinishHttp(w)
      PROVE  TypeOK'
  <2>1. Quiet /\ UNCHANGED <<scenario, messages, walk, exec, cont, faults>>
    BY <1>3 DEF ClaimHttp, SendRequest, RetryHttp, FinishHttp, rows
  <2>2. Slot(w) \in Slots
    BY <1>1, <1>3 DEF ClaimHttp, SendRequest, RetryHttp, FinishHttp
  <2>3. unsure' \subseteq Slots /\ repeated' \subseteq Slots /\ raced' \subseteq Slots
    BY <1>1, <1>3, <2>2 DEF ClaimHttp, SendRequest, RetryHttp, FinishHttp, history
  <2> QED
    BY <1>1, <2>1, <2>3, QuietType
<1>4. ASSUME NEW w \in Workers, MarkUnknown(w) PROVE TypeOK'
  <2>1. Quiet /\ UNCHANGED <<scenario, messages, walk, cont, history, faults>>
    BY <1>4 DEF MarkUnknown
  <2>2. exec' \in [Ids -> ExecType]
    <3>1. exec' = exec \/ \E x : exec' = [exec EXCEPT ![x].status = "PAUSED"]
      BY <1>4 DEF MarkUnknown
    <3> QED
      BY <1>1, <3>1 DEF ExecType, Execs
  <2> QED
    BY <1>1, <2>1, <2>2, QuietType DEF history
<1>5. ASSUME NEW w \in Workers, Crash(w) PROVE TypeOK'
  <2>1. /\ Quiet /\ UNCHANGED <<scenario, messages, walk, exec, cont, repeated, raced>>
        /\ unsure' = unsure \cup {Slot(w)} /\ faults < MaxFaults /\ faults' = faults + 1
    BY <1>5 DEF Crash, rows
  <2>2. Slot(w) \in Slots
    BY <1>1, <1>5 DEF Crash
  <2> QED
    BY <1>1, <2>1, <2>2, QuietType
<1>6. ASSUME NEW s \in Slots, LeaseLapses(s) PROVE TypeOK'
  <2>1. /\ Quiet /\ UNCHANGED <<scenario, messages, walk, exec, cont, history>>
        /\ faults < MaxFaults /\ faults' = faults + 1
    BY <1>6 DEF LeaseLapses
  <2> QED
    BY <1>1, <2>1, QuietType DEF history
<1> QED
  BY <1>2, <1>3, <1>4, <1>5, <1>6

(* Every table, frame and call of the runtime keeps its type; what a throw would
   restore is there for as long as a transaction runs. *)
THEOREM AutomationTypeCorrect == Spec => []TypeOK
<1>1. Init => TypeOK /\ MutationInv
  BY TypeInit, MutationInit
<1>2. TypeOK /\ MutationInv /\ [Next]_vars => (TypeOK /\ MutationInv)'
  <2> SUFFICES ASSUME TypeOK, MutationInv, [Next]_vars, MutationInv' PROVE TypeOK'
    BY MutationNext
  <2>1. CASE UNCHANGED vars
    BY <2>1 DEF vars, scenario, rows, messages, walk, history, TypeOK, Quiet
  <2> QED
    BY <2>1, NodeSteps, CallSteps, EndType, MessageType, RunType, FreeType DEF Next, Walk
<1> QED
  BY <1>1, <1>2, PTL DEF Spec
===============================================================================
