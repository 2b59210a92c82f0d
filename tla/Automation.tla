------------------------------ MODULE Automation ------------------------------
(***************************************************************************)
(* The scenario runtime of the worker (automation-runtime.service.ts), the *)
(* continuation scan that wakes its delays and waits, and the outbox of    *)
(* its external HTTP requests (external-http-outbox.service.ts).           *)
(*                                                                         *)
(* An inbound message of one conversation either answers the waits that    *)
(* accept it or starts an execution of the published scenario; an          *)
(* execution walks its graph inside ONE database transaction until a node  *)
(* suspends it.  job is the transaction that is walking and stack its call *)
(* stack: executeGraph, the child it starts, the parent the child resumes. *)
(* A throw that is not an automation_* code undoes the transaction         *)
(* (Rollback, from the copy in saved).  Two transactions whose rows do not *)
(* meet commute, so one walks at a time; what is read before a walk and    *)
(* used in it (the status of the execution, the HTTP row) is a step of its *)
(* own, and any other walk may come between.                               *)
(***************************************************************************)
EXTENDS Naturals, FiniteSets, Sequences, SequencesExt

CONSTANTS
  Events,       \* inbound messages of the conversation
  Nodes,        \* the nodes of the scenario and of its subflows
  Graphs,       \* the published graphs considered
  Workers,      \* calls in flight: continuation scans and HTTP scans
  Nobody,       \* no node, no worker, no event
  MaxAttempts,  \* attempts of an inbox record and of an HTTP row
  MaxDepth,     \* bound: subflows within subflows (10 in one walk)
  MaxFaults     \* bound: lapsed leases and crashed calls

Kinds == {"step", "condition", "stop", "delay", "wait", "http", "subflow"}

(* A root execution carries its message, a child the parent and the node   *)
(* it was started from: `subflow:<execution>:<node>` is its trigger key.    *)
Ids == {x \in SeqOf(Events \cup Nodes, MaxDepth + 1) :
          x # <<>> /\ x[1] \in Events /\ \A i \in 2..Len(x) : x[i] \in Nodes}
Child(x, n) == Append(x, n)
Parent(x)   == Front(x)
Starter(x)  == Last(x)
IsChild(x)  == Len(x) > 1

(* flow: the first node of the version a subflow node is pinned to.         *)
ScenarioGraph ==
  [kind: [Nodes -> Kinds], next: [Nodes -> Nodes \cup {Nobody}], alt: [Nodes -> Nodes \cup {Nobody}],
   start: Nodes, flow: [Nodes -> Nodes], await: BOOLEAN, method: {"GET", "POST"}]

ASSUME AutomationAssumption ==
  /\ Nobody \notin Nodes \cup Workers \cup Events
  /\ MaxAttempts \in Nat \ {0}
  /\ MaxDepth \in Nat /\ MaxFaults \in Nat
  /\ IsFiniteSet(Events) /\ IsFiniteSet(Nodes)
  /\ Graphs \subseteq ScenarioGraph

Conts == {"NONE", "PENDING", "ACTIVE", "COMPLETED", "RESOLVED", "TIMED_OUT"}
Execs == {"NONE", "RUNNING", "WAITING", "PAUSED", "COMPLETED", "FAILED"}
Final == {"COMPLETED", "FAILED"}
Rows  == {"NONE", "PENDING", "PROCESSING", "RETRY", "SUCCEEDED", "FAILED", "UNKNOWN"}

VARIABLES
  graph,    \* the published graphs (rigid: executions pin their versions)
  fits,     \* the messages that match the criteria of the waits (rigid)
  exec,     \* scenario_executions: status and current node
  cont,     \* delayed_actions and wait_states, one per execution and node
  http,     \* outbox rows of kind HTTP, one per execution and node
  inbox,    \* inbox records of the messages
  tries,    \* their attempts
  job,      \* the transaction that is walking a graph
  stack,    \* its calls, innermost first
  saved,    \* what it undoes if it throws
  calls,    \* the calls of the two scans
  unsure,   \* requests whose fate nobody knows
  repeated, \* requests sent again after that
  raced,    \* requests that another call took between the load and the claim of one
  faults

scenario  == <<graph, fits>>
rows      == <<exec, cont, http>>
walk      == <<job, stack, saved>>
messages  == <<inbox, tries>>
history   == <<unsure, repeated, raced>>
vars      == <<scenario, rows, messages, walk, calls, history, faults>>

NoCall == [pc |-> "idle", x |-> Nobody, n |-> Nobody, final |-> FALSE, answer |-> "none"]
NoJob  == [kind |-> "none", by |-> Nobody]
NoRow  == [status |-> "NONE", lease |-> Nobody, stale |-> FALSE, attempts |-> 0]

Slots == Ids \X Nodes
Init ==
  /\ graph \in Graphs
  /\ fits \in SUBSET Events
  /\ exec = [x \in Ids |-> [status |-> "NONE", at |-> Nobody]]
  /\ cont = [s \in Slots |-> "NONE"]
  /\ http = [s \in Slots |-> NoRow]
  /\ \E arriving \in SUBSET Events :
       inbox = [e \in Events |-> IF e \in arriving THEN "PENDING" ELSE "COMPLETED"]
  /\ tries = [e \in Events |-> 0]
  /\ job = NoJob
  /\ stack = <<>>
  /\ saved = <<>>
  /\ calls = [w \in Workers |-> NoCall]
  /\ unsure = {} /\ repeated = {} /\ raced = {}
  /\ faults \in 0..MaxFaults

(***************************************************************************)
(* The walk.  A frame is one call of executeGraph (mode "walk"), of        *)
(* resumeExecutionInTransaction ("resume") or of one turn of the loop of   *)
(* resolveWaitsInTransaction ("reply").                                    *)
(***************************************************************************)
Frame(x, n, mode) == [x |-> x, n |-> n, mode |-> mode]
Quiet == job = NoJob
Top   == Head(stack)
Below == Tail(stack)

(* The scenario an execution runs, which is known by its first node.       *)
Scenario(x) == IF IsChild(x) THEN graph.flow[Starter(x)] ELSE graph.start

(* A continuation without a node starts the graph over: `startNodeId ??    *)
(* undefined` makes executeGraph look for the INCOMING_MESSAGE node.       *)
Target(x, n) == IF n = Nobody THEN Scenario(x) ELSE n

Walking(kind) == /\ stack # <<>> /\ Top.mode = "walk" /\ Top.n # Nobody
                 /\ graph.kind[Top.n] = kind
Go(n)   == stack' = <<Frame(Top.x, n, "walk")>> \o Below
Set(status, at) == exec' = [exec EXCEPT ![Top.x] = [status |-> status, at |-> at]]

(* Every other node: it sends, tags or sets a field, and goes on.          *)
ApplyStep ==
  /\ Walking("step")
  /\ Go(graph.next[Top.n])
  /\ UNCHANGED <<scenario, rows, messages, job, saved, calls, history, faults>>

ApplyCondition ==
  /\ Walking("condition")
  /\ \E n \in {graph.next[Top.n], graph.alt[Top.n], Nobody} : Go(n)
  /\ UNCHANGED <<scenario, rows, messages, job, saved, calls, history, faults>>

ApplyStop ==
  /\ Walking("stop")
  /\ Go(Nobody)
  /\ UNCHANGED <<scenario, rows, messages, job, saved, calls, history, faults>>

(* A node throws automation_*: no connection, no template, no subflow, or  *)
(* one too deep.  The execution fails; nobody tells the parent.            *)
NodeFails ==
  /\ Walking("step") \/ Walking("subflow")
  /\ Set("FAILED", Nobody)
  /\ stack' = Below
  /\ UNCHANGED <<scenario, cont, http, messages, job, saved, calls, history, faults>>

ApplyDelay ==
  /\ Walking("delay")
  /\ LET s == <<Top.x, Top.n>> IN
       cont' = IF cont[s] = "NONE" THEN [cont EXCEPT ![s] = "PENDING"] ELSE cont
  /\ Set("WAITING", Top.n)
  /\ stack' = Below
  /\ UNCHANGED <<scenario, http, messages, job, saved, calls, history, faults>>

(* One active wait per conversation and scenario, by a unique index.       *)
Occupied(x) == \E s \in Slots : cont[s] = "ACTIVE" /\ Scenario(s[1]) = Scenario(x)

(* Mutant: the conflict is swallowed and the execution waits on no row.    *)
Mutant_WaitOnNothing ==
  /\ Walking("wait")
  /\ LET s == <<Top.x, Top.n>> IN
       cont' = IF cont[s] = "NONE" /\ ~Occupied(Top.x) THEN [cont EXCEPT ![s] = "ACTIVE"] ELSE cont
  /\ Set("WAITING", Top.n)
  /\ stack' = Below
  /\ UNCHANGED <<scenario, http, messages, job, saved, calls, history, faults>>

ApplyWait ==
  /\ Walking("wait")
  /\ LET s == <<Top.x, Top.n>> IN
       /\ cont[s] = "NONE" => ~Occupied(Top.x)
       /\ cont' = IF cont[s] = "NONE" THEN [cont EXCEPT ![s] = "ACTIVE"] ELSE cont
  /\ Set("WAITING", Top.n)
  /\ stack' = Below
  /\ UNCHANGED <<scenario, http, messages, job, saved, calls, history, faults>>

QueueHttp ==
  /\ Walking("http")
  /\ LET s == <<Top.x, Top.n>> IN
       http' = IF http[s] = NoRow THEN [http EXCEPT ![s].status = "PENDING"] ELSE http
  /\ Set("WAITING", Top.n)
  /\ stack' = Below
  /\ UNCHANGED <<scenario, cont, messages, job, saved, calls, history, faults>>

(* Mutant: an awaited child does not suspend its parent.                   *)
Mutant_ChildNotAwaited ==
  /\ Walking("subflow")
  /\ LET child == Child(Top.x, Top.n) IN
       /\ child \in Ids
       /\ exec' = [exec EXCEPT ![child] = [status |-> "RUNNING", at |-> Nobody]]
       /\ stack' = <<Frame(child, Scenario(child), "walk"),
                     Frame(Top.x, graph.next[Top.n], "walk")>> \o Below
  /\ UNCHANGED <<scenario, cont, http, messages, job, saved, calls, history, faults>>

StartSubflow ==
  /\ Walking("subflow")
  /\ Child(Top.x, Top.n) \in Ids
  /\ LET child == Child(Top.x, Top.n)
         new   == exec[child].status = "NONE"
         runs  == exec[child].status \notin Final
         begun == IF new THEN [exec EXCEPT ![child] = [status |-> "RUNNING", at |-> Nobody]] ELSE exec
         calling == IF runs THEN <<Frame(child, Scenario(child), "walk")>> ELSE <<>>
     IN IF graph.await
        THEN /\ exec' = [begun EXCEPT ![Top.x] = [status |-> "WAITING", at |-> Top.n]]
             /\ stack' = calling \o Below
        ELSE /\ exec' = begun
             /\ stack' = calling \o <<Frame(Top.x, graph.next[Top.n], "walk")>> \o Below
  /\ UNCHANGED <<scenario, cont, http, messages, job, saved, calls, history, faults>>

(* The graph has no next node: COMPLETED, whatever else became of the row, *)
(* and a parent that is WAITING, for this child or not, is resumed.        *)
FinishGraph ==
  /\ stack # <<>> /\ Top.mode = "walk" /\ Top.n = Nobody
  /\ Set("COMPLETED", Nobody)
  /\ stack' = IF IsChild(Top.x) /\ exec[Parent(Top.x)].status = "WAITING"
              THEN <<Frame(Parent(Top.x), graph.next[Starter(Top.x)], "resume")>> \o Below
              ELSE Below
  /\ UNCHANGED <<scenario, cont, http, messages, job, saved, calls, history, faults>>

ResumeExecution ==
  /\ stack # <<>> /\ Top.mode = "resume"
  /\ IF exec[Top.x].status \in Final
     THEN stack' = Below /\ UNCHANGED exec
     ELSE Set("RUNNING", Top.n) /\ Go(Target(Top.x, Top.n))
  /\ UNCHANGED <<scenario, cont, http, messages, job, saved, calls, history, faults>>

ResolveWait ==
  /\ stack # <<>> /\ Top.mode = "reply"
  /\ cont' = [cont EXCEPT ![<<Top.x, Top.n>>] = "RESOLVED"]
  /\ stack' = <<Frame(Top.x, graph.next[Top.n], "resume")>> \o Below
  /\ UNCHANGED <<scenario, exec, http, messages, job, saved, calls, history, faults>>

(***************************************************************************)
(* The transactions.                                                       *)
(***************************************************************************)
Begin(kind, by) == job' = [kind |-> kind, by |-> by] /\ saved' = rows

(* persist(): the message resolves every wait it matches; only a message   *)
(* that resolved none starts an execution.                                 *)
HandleMessage(e) ==
  /\ Quiet /\ inbox[e] = "PENDING"
  /\ Begin("message", e)
  /\ LET hits == IF e \in fits THEN {s \in Slots : cont[s] = "ACTIVE"} ELSE {}
     IN IF hits # {}
        THEN /\ \E order \in SetToSeqs(hits) :
                  stack' = [i \in DOMAIN order |-> Frame(order[i][1], order[i][2], "reply")]
             /\ UNCHANGED exec
        ELSE /\ exec' = [exec EXCEPT ![<<e>>] = [status |-> "RUNNING", at |-> Nobody]]
             /\ stack' = <<Frame(<<e>>, graph.start, "walk")>>
  /\ UNCHANGED <<scenario, cont, http, messages, calls, history, faults>>

(* A due delay or an expired wait: the row is claimed on its status and    *)
(* the execution is read; it is resumed by a later statement.              *)
Opened(w, x, n, next) == calls' = [calls EXCEPT ![w] =
  [pc |-> "opened", x |-> x, n |-> n, final |-> exec[x].status \in Final, answer |-> next]]

(* Mutant: the claim of a delay does not ask for its status.               *)
Mutant_DelayTwice(w, s) ==
  /\ Quiet /\ calls[w] = NoCall /\ cont[s] \in {"PENDING", "COMPLETED"}
  /\ cont' = [cont EXCEPT ![s] = "COMPLETED"]
  /\ Opened(w, s[1], s[2], "delay")
  /\ UNCHANGED <<scenario, exec, http, messages, walk, history, faults>>

ResumeDelayedAction(w, s) ==
  /\ Quiet /\ calls[w] = NoCall /\ cont[s] = "PENDING"
  /\ cont' = [cont EXCEPT ![s] = "COMPLETED"]
  /\ Opened(w, s[1], s[2], "delay")
  /\ UNCHANGED <<scenario, exec, http, messages, walk, history, faults>>

TimeoutWait(w, s) ==
  /\ Quiet /\ calls[w] = NoCall /\ cont[s] = "ACTIVE"
  /\ cont' = [cont EXCEPT ![s] = "TIMED_OUT"]
  /\ Opened(w, s[1], s[2], "timeout")
  /\ UNCHANGED <<scenario, exec, http, messages, walk, history, faults>>

Continuation(call) == IF call.answer \in {"timeout", "failure", "permanent"}
                      THEN graph.alt[call.n] ELSE graph.next[call.n]

(* The status read decides; the update that follows is by id.              *)
RunContinuation(w) ==
  /\ Quiet /\ calls[w].pc = "opened"
  /\ LET call == calls[w] IN
       IF call.final
       THEN stack' = <<>> /\ UNCHANGED exec
       ELSE /\ exec' = [exec EXCEPT ![call.x] = [status |-> "RUNNING", at |-> Continuation(call)]]
            /\ stack' = <<Frame(call.x, Target(call.x, Continuation(call)), "walk")>>
  /\ Begin("call", w)
  /\ UNCHANGED <<scenario, cont, http, messages, calls, history, faults>>

Commit ==
  /\ ~Quiet /\ stack = <<>>
  /\ job' = NoJob /\ saved' = <<>>
  /\ IF job.kind = "message"
     THEN inbox' = [inbox EXCEPT ![job.by] = "COMPLETED"] /\ UNCHANGED calls
     ELSE calls' = [calls EXCEPT ![job.by] = NoCall] /\ UNCHANGED inbox
  /\ UNCHANGED <<scenario, rows, tries, stack, history, faults>>

(* The unique index refuses a second active wait: the transaction throws.  *)
(* The message is tried again until its attempts are used up; the claimed  *)
(* row is what it was; the answer of a request is now an unexpected error. *)
Conflict == Walking("wait") /\ cont[<<Top.x, Top.n>>] = "NONE" /\ Occupied(Top.x)

Undo == exec' = saved[1] /\ stack' = <<>> /\ job' = NoJob /\ saved' = <<>>

RollbackMessage ==
  /\ Conflict /\ job.kind = "message"
  /\ Undo
  /\ cont' = saved[2] /\ http' = saved[3]
  /\ tries' = [tries EXCEPT ![job.by] = @ + 1]
  /\ inbox' = IF tries[job.by] + 1 < MaxAttempts THEN inbox
              ELSE [inbox EXCEPT ![job.by] = "DEAD_LETTER"]
  /\ UNCHANGED <<scenario, calls, history, faults>>

RollbackCall ==
  /\ Conflict /\ job.kind = "call"
  /\ Undo
  /\ LET w == job.by
         s == <<calls[w].x, calls[w].n>>
         kind == calls[w].answer
     IN /\ cont' = CASE kind = "delay"   -> [saved[2] EXCEPT ![s] = "PENDING"]
                     [] kind = "timeout" -> [saved[2] EXCEPT ![s] = "ACTIVE"]
                     [] OTHER            -> saved[2]
        /\ http' = IF kind \in {"delay", "timeout"} THEN saved[3]
                   ELSE [saved[3] EXCEPT ![s] = [@ EXCEPT !.status = "PROCESSING", !.lease = w]]
        /\ calls' = [calls EXCEPT ![w] =
             IF kind \in {"success", "failure"}
             THEN [@ EXCEPT !.pc = "answered", !.answer = "unknown"] ELSE NoCall]
  /\ UNCHANGED <<scenario, messages, history, faults>>

(***************************************************************************)
(* The HTTP outbox.                                                        *)
(***************************************************************************)
Due(s) == \/ http[s].status \in {"PENDING", "RETRY"}
          \/ http[s].status = "PROCESSING" /\ http[s].stale
Slot(w) == <<calls[w].x, calls[w].n>>
Holds(w) == http[Slot(w)].status = "PROCESSING" /\ http[Slot(w)].lease = w
Release(s, status) == [http EXCEPT ![s] = [@ EXCEPT !.status = status, !.lease = Nobody, !.stale = FALSE]]

(* Mutant: an expired mutation is claimed like any other row.              *)
Mutant_ExpiredIsSent(w, s) ==
  /\ Quiet /\ calls[w] = NoCall /\ Due(s)
  /\ calls' = [calls EXCEPT ![w] = [NoCall EXCEPT
       !.pc = "loaded", !.x = s[1], !.n = s[2], !.answer = http[s].status]]
  /\ UNCHANGED <<scenario, rows, messages, walk, history, faults>>

(* A mutation whose lease ran out is not sent again; that is decided on    *)
(* the row as loaded, and the claim below asks less.                       *)
LoadHttp(w, s) ==
  /\ Quiet /\ calls[w] = NoCall /\ Due(s)
  /\ calls' = [calls EXCEPT ![w] = [NoCall EXCEPT
       !.pc = IF http[s].status = "PROCESSING" /\ graph.method # "GET" THEN "expired" ELSE "loaded",
       !.x = s[1], !.n = s[2], !.answer = http[s].status]]
  /\ UNCHANGED <<scenario, rows, messages, walk, history, faults>>

ClaimHttp(w) ==
  /\ Quiet /\ calls[w].pc = "loaded"
  /\ LET s == Slot(w) IN
       IF Due(s)
       THEN /\ http' = [http EXCEPT ![s] =
                 [status |-> "PROCESSING", lease |-> w, stale |-> FALSE, attempts |-> @.attempts + 1]]
            /\ raced' = IF http[s].status = "PROCESSING" /\ calls[w].answer # "PROCESSING"
                        THEN raced \cup {s} ELSE raced
            /\ calls' = [calls EXCEPT ![w].pc = "claimed", ![w].answer = "none"]
       ELSE calls' = [calls EXCEPT ![w] = NoCall] /\ UNCHANGED <<http, raced>>
  /\ UNCHANGED <<scenario, exec, cont, messages, walk, unsure, repeated, faults>>

Answers == {"success", "failure", "retryable", "permanent", "unknown"}
SendRequest(w) ==
  /\ Quiet /\ calls[w].pc = "claimed"
  /\ \E a \in Answers :
       /\ calls' = [calls EXCEPT ![w].pc = "answered", ![w].answer = a]
       /\ unsure' = IF a = "unknown" THEN unsure \cup {Slot(w)} ELSE unsure
  /\ repeated' = IF Slot(w) \in unsure THEN repeated \cup {Slot(w)} ELSE repeated
  /\ UNCHANGED <<scenario, rows, messages, walk, raced, faults>>

Attempts(w) == http[Slot(w)].attempts
Retries(w) == /\ calls[w].answer \in {"retryable", "unknown"}
              /\ calls[w].answer = "unknown" => graph.method = "GET"
              /\ Attempts(w) < MaxAttempts

RetryHttp(w) ==
  /\ Quiet /\ calls[w].pc = "answered" /\ Retries(w)
  /\ http' = IF Holds(w) THEN Release(Slot(w), "RETRY") ELSE http
  /\ calls' = [calls EXCEPT ![w] = NoCall]
  /\ UNCHANGED <<scenario, exec, cont, messages, walk, history, faults>>

(* The outcome and what it resumes are one transaction under the lease.    *)
FinishHttp(w) ==
  /\ Quiet /\ calls[w].pc = "answered" /\ ~Retries(w) /\ calls[w].answer # "unknown"
  /\ IF Holds(w)
     THEN /\ http' = Release(Slot(w), IF calls[w].answer \in {"success", "failure"}
                                      THEN "SUCCEEDED" ELSE "FAILED")
          /\ Opened(w, calls[w].x, calls[w].n,
               IF calls[w].answer = "retryable" THEN "permanent" ELSE calls[w].answer)
     ELSE calls' = [calls EXCEPT ![w] = NoCall] /\ UNCHANGED http
  /\ UNCHANGED <<scenario, exec, cont, messages, walk, history, faults>>

(* markUnknown: for the caller under its lease, for an expired mutation    *)
(* under none.                                                             *)
MarkUnknown(w) ==
  /\ Quiet
  /\ \/ calls[w].pc = "expired"
     \/ calls[w].pc = "answered" /\ ~Retries(w) /\ calls[w].answer = "unknown"
  /\ LET s == Slot(w) IN
       IF http[s].status = "PROCESSING" /\ (calls[w].pc = "expired" \/ Holds(w))
       THEN /\ http' = Release(s, "UNKNOWN")
            /\ exec' = IF exec[s[1]].status = "WAITING"
                       THEN [exec EXCEPT ![s[1]].status = "PAUSED"] ELSE exec
       ELSE UNCHANGED <<http, exec>>
  /\ calls' = [calls EXCEPT ![w] = NoCall]
  /\ UNCHANGED <<scenario, cont, messages, walk, history, faults>>

(* lockedAt is the start of the scan, not of the call: a lease may be a    *)
(* minute old when it is taken.                                            *)
LeaseLapses(s) ==
  /\ Quiet /\ http[s].status = "PROCESSING" /\ ~http[s].stale
  /\ faults < MaxFaults /\ faults' = faults + 1
  /\ http' = [http EXCEPT ![s].stale = TRUE]
  /\ UNCHANGED <<scenario, exec, cont, messages, walk, calls, history>>

(* The process dies between its claim and its outcome: the request may     *)
(* have been sent.                                                         *)
Crash(w) ==
  /\ Quiet /\ calls[w].pc \in {"claimed", "answered"}
  /\ faults < MaxFaults /\ faults' = faults + 1
  /\ unsure' = unsure \cup {Slot(w)}
  /\ calls' = [calls EXCEPT ![w] = NoCall]
  /\ UNCHANGED <<scenario, rows, messages, walk, repeated, raced>>

Walk == \/ ApplyStep \/ ApplyCondition \/ ApplyStop \/ NodeFails \/ ApplyDelay \/ ApplyWait
        \/ QueueHttp \/ StartSubflow \/ FinishGraph \/ ResumeExecution \/ ResolveWait
        \/ Commit \/ RollbackMessage \/ RollbackCall

Next == \/ Walk
        \/ \E e \in Events : HandleMessage(e)
        \/ \E w \in Workers, s \in Slots :
             ResumeDelayedAction(w, s) \/ TimeoutWait(w, s) \/ LoadHttp(w, s)
        \/ \E w \in Workers :
             \/ RunContinuation(w) \/ ClaimHttp(w) \/ SendRequest(w) \/ RetryHttp(w)
             \/ FinishHttp(w) \/ MarkUnknown(w) \/ Crash(w)
        \/ \E s \in Slots : LeaseLapses(s)

Spec == Init /\ [][Next]_vars

(***************************************************************************)
(* Properties.                                                             *)
(***************************************************************************)
ExecType  == [status : Execs, at : Nodes \cup {Nobody}]
FrameType == {f \in [x : Ids, n : Nodes \cup {Nobody}, mode : {"walk", "resume", "reply"}] :
                f.mode = "reply" => f.n \in Nodes}
RowType   == [status : Rows, lease : Workers \cup {Nobody}, stale : BOOLEAN, attempts : Nat]
CallType  == [pc : {"idle", "opened", "loaded", "expired", "claimed", "answered"},
              x : Ids \cup {Nobody}, n : Nodes \cup {Nobody}, final : BOOLEAN,
              answer : Answers \cup Rows \cup {"none", "delay", "timeout"}]
Tabled(ex, co, ht) ==
  ex \in [Ids -> ExecType] /\ co \in [Slots -> Conts] /\ ht \in [Slots -> RowType]

(* Every variable holds a value of its columns; what a throw would restore *)
(* is a table as well, and a transaction has it for as long as it runs.    *)
TypeOK ==
  /\ graph \in Graphs /\ fits \in SUBSET Events
  /\ Tabled(exec, cont, http)
  /\ inbox \in [Events -> {"PENDING", "COMPLETED", "DEAD_LETTER"}] /\ tries \in [Events -> Nat]
  /\ stack \in Seq(FrameType)
  /\ IF Quiet THEN stack = <<>> /\ saved = <<>>
     ELSE /\ Tabled(saved[1], saved[2], saved[3])
          /\ \/ job.kind = "message" /\ job.by \in Events
             \/ job.kind = "call" /\ job.by \in Workers
  /\ calls \in [Workers -> CallType]
  /\ unsure \subseteq Slots /\ repeated \subseteq Slots /\ raced \subseteq Slots
  /\ faults \in 0..MaxFaults

(* A walk comes to a node once: no cycle, every node that suspends has     *)
(* where to go on, and children are awaited.                               *)
Suspends == {"delay", "wait", "http", "subflow"}
Straight(g) ==
  /\ \E rank \in [Nodes -> 1..Cardinality(Nodes)] :
       \A n \in Nodes : \A m \in {g.next[n], g.alt[n]} \ {Nobody} : rank[n] < rank[m]
  /\ \A n \in Nodes : /\ g.kind[n] \in Suspends => g.next[n] # Nobody
                      /\ g.kind[n] \in {"wait", "http"} => g.alt[n] # Nobody
                      /\ g.kind[n] = "subflow" => g.await
StraightGraphs == {g \in Graphs : Straight(g)}

Awaited(x) ==
  LET n == exec[x].at IN
    \/ cont[<<x, n>>] \in {"PENDING", "ACTIVE"}
    \/ http[<<x, n>>].status \in {"PENDING", "RETRY", "PROCESSING"}
    \/ \E w \in Workers : calls[w].pc = "opened" /\ calls[w].x = x /\ calls[w].n = n /\ ~calls[w].final
    \/ /\ graph.kind[n] = "subflow" /\ Child(x, n) \in Ids
       /\ exec[Child(x, n)].status \in {"WAITING", "PAUSED", "FAILED"}

(* A waiting execution of a straight graph has the one row that will wake  *)
(* it: a pending delay, an active wait, a live request, a call that has    *)
(* claimed one of them, or a child that has not completed.                 *)
WaitingIsAwaited == Quiet /\ graph \in StraightGraphs =>
  \A x \in Ids : exec[x].status = "WAITING" => Awaited(x)

(* A parent sits at the node of a child for as long as the child has not   *)
(* completed: nothing else resumes it meanwhile.                           *)
ParentWaits == Quiet /\ graph \in StraightGraphs =>
  \A c \in Ids : IsChild(c) /\ exec[c].status \in {"RUNNING", "WAITING", "PAUSED", "FAILED"} =>
    exec[Parent(c)] = [status |-> "WAITING", at |-> Starter(c)]

(* What a committed transaction completed or failed, no later one touches: *)
(* the status a continuation reads before it resumes by id is still true.  *)
FinalStays == ~Quiet /\ graph \in StraightGraphs =>
  \A x \in Ids : saved[1][x].status \in Final => exec[x] = saved[1][x]

(* A mutation whose fate is unknown is not sent again, unless two calls    *)
(* met between the load of a row and its claim.                            *)
MutationNotRepeated == graph.method # "GET" => repeated \subseteq raced
===============================================================================
