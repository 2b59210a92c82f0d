------------------------ MODULE WhatsAppInboundProofs ------------------------
(***************************************************************************)
(* What is proved of WhatsAppInbound for every value of its constants.     *)
(***************************************************************************)
EXTENDS WhatsAppInbound, TLAPS

(* A handler has a row exactly while it runs, a token only after its claim,
   an outcome only when it closes its row; it counts no more attempts than the
   row; and it completes without effect only what is still pending after the
   last attempt. *)
HandlerInv ==
    \A w \in Workers :
        /\ pc[w] = "idle" <=> row[w] = NoRow
        /\ pc[w] \in {"idle", "claim"} => lease[w] = 0
        /\ pc[w] = "close" => ctx[w].outcome \in {"RETRY"} \cup Settled
        /\ pc[w] = "claim" => ctx[w].tries <= attempts[row[w]] + 1
        /\ pc[w] \in {"read", "write", "close"} => ctx[w].tries <= attempts[row[w]]
        /\ pc[w] = "close" /\ ctx[w].outcome = "COMPLETED" =>
              Kind[row[w]] # "message" /\ Exhausted(w)
        /\ pc[w] = "write" /\ Kind[row[w]] # "message" => message[About[row[w]]] # "QUEUED"
                                                        /\ ctx[w].status \in Known \ {"QUEUED"}

TypeInv == RowsTyped /\ DomainTyped /\ HandlersTyped /\ HandlerInv

LEMMA NoCtxType == NoCtx \in Ctx
BY DEF NoCtx, Ctx

LEMMA TypeInit == Init => TypeInv
<1> USE NoCtxType, InboundAssumption DEF Init
<1>1. Init => RowsTyped /\ HandlersTyped
  BY DEF RowsTyped, HandlersTyped
<1>2. Init => DomainTyped
  <2> SUFFICES ASSUME Init PROVE DomainTyped
    OBVIOUS
  <2>1. linking \in BOOLEAN /\ linked \in BOOLEAN /\ identity \in BOOLEAN
    OBVIOUS
  <2>2. backlog \subseteq Ofs("message") /\ overtaken \subseteq Ofs("message")
    OBVIOUS
  <2>3. applied \in [Inboxes -> Nat]
    OBVIOUS
  <2>4. /\ message \in [Messages -> Known] /\ meta \in [Messages -> SUBSET Parts]
        /\ recipient \in [Messages -> {"NONE", "PROCESSING", "SENT", "DELIVERED", "READ",
                                        "FAILED"}]
    BY DEF Known, Parts
  <2>5. /\ reach \in {"UNKNOWN", "PENDING", "AVAILABLE", "UNAVAILABLE"} /\ lastInbound \in Nat
        /\ jobs \subseteq Inboxes /\ faults \in 0..MaxFaults
    OBVIOUS
  <2> QED
    BY <2>1, <2>2, <2>3, <2>4, <2>5 DEF DomainTyped
<1>3. Init => HandlerInv
  BY DEF HandlerInv
<1> QED
  BY <1>1, <1>2, <1>3 DEF TypeInv

LEMMA BusyHasRow ==
    ASSUME TypeInv, NEW w \in Workers, pc[w] # "idle"
    PROVE  row[w] \in Inboxes
BY DEF TypeInv, HandlersTyped, HandlerInv
-----------------------------------------------------------------------------
(* The ways a handler moves: it leaves, it turns to close its row, it goes on. *)
LEMMA LeaveKeeps ==
    ASSUME TypeInv, NEW w \in Workers, Leave(w),
           attempts' = attempts,
           \A m \in Messages : message[m] # "QUEUED" => message'[m] # "QUEUED"
    PROVE  HandlersTyped' /\ HandlerInv'
<1>1. HandlersTyped'
  BY NoCtxType DEF TypeInv, HandlersTyped, Leave
<1>2. ASSUME NEW v \in Workers, v # w
      PROVE  /\ pc'[v] = pc[v] /\ row'[v] = row[v] /\ lease'[v] = lease[v] /\ ctx'[v] = ctx[v]
  BY <1>2 DEF TypeInv, HandlersTyped, Leave
<1>3. pc'[w] = "idle" /\ row'[w] = NoRow /\ lease'[w] = 0
  BY DEF TypeInv, HandlersTyped, Leave
<1>4. ASSUME NEW v \in Workers, v # w, pc[v] = "write", Kind[row[v]] # "message"
      PROVE  About[row[v]] \in Messages
  BY <1>4, BusyHasRow, InboundAssumption DEF Ofs
<1>5. HandlerInv'
  BY <1>2, <1>3, <1>4 DEF TypeInv, HandlerInv, Exhausted
<1> QED
  BY <1>1, <1>5

LEMMA CloseKeeps ==
    ASSUME TypeInv, NEW w \in Workers, pc[w] \in {"read", "write"},
           NEW outcome \in {"RETRY"} \cup Settled, Close(w, outcome),
           outcome = "COMPLETED" => Kind[row[w]] # "message" /\ Exhausted(w),
           UNCHANGED <<row, lease, attempts, message>>
    PROVE  HandlersTyped' /\ HandlerInv'
<1> DEFINE new == [ctx[w] EXCEPT !.outcome = outcome]
<1>1. ctx[w] \in Ctx
  BY DEF TypeInv, HandlersTyped
<1>2. new \in Ctx /\ new.outcome = outcome /\ new.tries = ctx[w].tries
  BY <1>1 DEF Ctx
<1>3. ctx' = [ctx EXCEPT ![w] = new] /\ pc' = [pc EXCEPT ![w] = "close"]
  BY DEF Close, Goto
<1> HIDE DEF new
<1>4. HandlersTyped'
  BY <1>2, <1>3 DEF TypeInv, HandlersTyped
<1>5. ctx'[w] = new /\ pc'[w] = "close"
  BY <1>3 DEF TypeInv, HandlersTyped
<1>6. ASSUME NEW v \in Workers, v # w PROVE pc'[v] = pc[v] /\ ctx'[v] = ctx[v]
  BY <1>3, <1>6 DEF TypeInv, HandlersTyped
<1>7. HandlerInv'
  BY <1>2, <1>5, <1>6 DEF TypeInv, HandlerInv, Exhausted
<1> QED
  BY <1>4, <1>7

LEMMA FailKeeps ==
    ASSUME TypeInv, NEW w \in Workers, pc[w] \in {"read", "write"},
           FailPermanently(w) \/ FailForNow(w),
           UNCHANGED <<row, lease, attempts, message>>
    PROVE  HandlersTyped' /\ HandlerInv'
<1>1. PICK outcome \in {"RETRY", "DEAD_LETTER"} : Close(w, outcome)
  BY DEF FailPermanently, FailForNow
<1> QED
  BY <1>1, CloseKeeps DEF Settled
-----------------------------------------------------------------------------
LEMMA DeliverType ==
    ASSUME TypeInv, NEW w \in Workers, NEW i \in Inboxes, Deliver(w, i)
    PROVE  TypeInv'
<1>1. RowsTyped' /\ DomainTyped'
  BY DEF TypeInv, RowsTyped, DomainTyped, Deliver, inboxVars, domainVars, storyVars,
         customerVars, leadVars
<1>2. HandlersTyped' /\ HandlerInv'
  <2>0. UNCHANGED <<attempts, message>> /\ pc[w] = "idle"
    BY DEF Deliver, At, inboxVars, domainVars, storyVars
  <2>1. CASE UNCHANGED handlerVars
    BY <2>0, <2>1 DEF TypeInv, HandlersTyped, HandlerInv, handlerVars, Exhausted
  <2>2. CASE /\ Goto(w, "claim")
             /\ row' = [row EXCEPT ![w] = i]
             /\ ctx' = [ctx EXCEPT ![w] = [@ EXCEPT !.tries = attempts[i] + 1]]
             /\ UNCHANGED lease
    <3> DEFINE new == [ctx[w] EXCEPT !.tries = attempts[i] + 1]
    <3>1. ctx[w] \in Ctx /\ attempts[i] + 1 \in Nat
      BY DEF TypeInv, HandlersTyped, RowsTyped
    <3>2. new \in Ctx /\ new.tries = attempts[i] + 1
      BY <3>1 DEF Ctx
    <3>3. ctx' = [ctx EXCEPT ![w] = new] /\ pc' = [pc EXCEPT ![w] = "claim"]
      BY <2>2 DEF Goto
    <3> HIDE DEF new
    <3>4. HandlersTyped'
      BY <2>2, <3>2, <3>3 DEF TypeInv, HandlersTyped
    <3>5. ctx'[w] = new /\ pc'[w] = "claim" /\ row'[w] = i /\ lease'[w] = lease[w]
      BY <2>2, <3>3 DEF TypeInv, HandlersTyped
    <3>6. ASSUME NEW v \in Workers, v # w
          PROVE  pc'[v] = pc[v] /\ ctx'[v] = ctx[v] /\ row'[v] = row[v] /\ lease'[v] = lease[v]
      BY <2>2, <3>3, <3>6 DEF TypeInv, HandlersTyped
    <3>7. HandlerInv'
      BY <2>0, <3>1, <3>2, <3>5, <3>6, InboundAssumption
         DEF TypeInv, HandlerInv, Exhausted, RowsTyped
    <3> QED
      BY <3>4, <3>7
  <2> QED
    BY <2>1, <2>2 DEF Deliver
<1> QED
  BY <1>1, <1>2 DEF TypeInv

LEMMA ClaimType ==
    ASSUME TypeInv, NEW w \in Workers, Claim(w)
    PROVE  TypeInv'
<1>0. pc[w] = "claim" /\ row[w] \in Inboxes /\ row[w] # NoRow
  BY BusyHasRow, InboundAssumption DEF Claim, At
<1>1. DomainTyped'
  BY DEF TypeInv, DomainTyped, Claim, domainVars, storyVars, customerVars, leadVars
<1>2. UNCHANGED message
  BY DEF Claim, domainVars, storyVars
<1>3. CASE Claimable(row[w])
  <2> DEFINE i == row[w]
  <2>1. /\ inbox' = [inbox EXCEPT ![i] = "PROCESSING"]
        /\ attempts' = [attempts EXCEPT ![i] = @ + 1]
        /\ lockedBy' = [lockedBy EXCEPT ![i] = attempts[i] + 1]
        /\ lapsed' = [lapsed EXCEPT ![i] = FALSE]
        /\ lease' = [lease EXCEPT ![w] = attempts[i] + 1]
        /\ pc' = [pc EXCEPT ![w] = "read"]
        /\ UNCHANGED <<due, row, ctx>>
    BY <1>3 DEF Claim, Goto
  <2>2. RowsTyped'
    BY <1>0, <2>1 DEF TypeInv, RowsTyped
  <2>3. HandlersTyped'
    BY <1>0, <2>1 DEF TypeInv, RowsTyped, HandlersTyped
  <2>4. /\ \A j \in Inboxes : attempts[j] \in Nat /\ attempts'[j] \in Nat
                              /\ attempts[j] <= attempts'[j]
        /\ attempts'[i] = attempts[i] + 1
    BY <1>0, <2>1 DEF TypeInv, RowsTyped
  <2>5. pc'[w] = "read" /\ \A v \in Workers \ {w} : pc'[v] = pc[v] /\ lease'[v] = lease[v]
    BY <2>1 DEF TypeInv, HandlersTyped
  <2>6. ASSUME NEW v \in Workers PROVE ctx[v].tries \in Nat
    BY DEF TypeInv, HandlersTyped, Ctx
  <2>7. ASSUME NEW v \in Workers, v # w
        PROVE  /\ pc'[v] = "idle" <=> row'[v] = NoRow
               /\ pc'[v] \in {"idle", "claim"} => lease'[v] = 0
               /\ pc'[v] = "close" => ctx'[v].outcome \in {"RETRY"} \cup Settled
               /\ pc'[v] = "claim" => ctx'[v].tries <= attempts'[row'[v]] + 1
               /\ pc'[v] \in {"read", "write", "close"} => ctx'[v].tries <= attempts'[row'[v]]
               /\ pc'[v] = "close" /\ ctx'[v].outcome = "COMPLETED" =>
                     Kind[row'[v]] # "message" /\ Exhausted(v)'
               /\ pc'[v] = "write" /\ Kind[row'[v]] # "message" =>
                     message'[About[row'[v]]] # "QUEUED" /\ ctx'[v].status \in Known \ {"QUEUED"}
    <3>1. pc[v] # "idle" => row[v] \in Inboxes
      BY BusyHasRow
    <3> QED
      BY <1>2, <2>1, <2>4, <2>5, <2>6, <2>7, <3>1 DEF TypeInv, HandlerInv, Exhausted
  <2>8. ctx[w].tries <= attempts'[i]
    BY <1>0, <2>4, <2>6 DEF TypeInv, HandlerInv
  <2>9. HandlerInv'
    BY <1>0, <2>1, <2>5, <2>7, <2>8 DEF HandlerInv
  <2> QED
    BY <1>1, <2>2, <2>3, <2>9 DEF TypeInv
<1>4. CASE ~Claimable(row[w])
  <2>1. Leave(w) /\ UNCHANGED inboxVars
    BY <1>4 DEF Claim
  <2>2. RowsTyped'
    BY <2>1 DEF TypeInv, RowsTyped, inboxVars
  <2> QED
    BY <1>1, <1>2, <2>1, <2>2, LeaveKeeps DEF TypeInv, inboxVars
<1> QED
  BY <1>3, <1>4

LEMMA ReadType ==
    ASSUME TypeInv, NEW w \in Workers, Read(w)
    PROVE  TypeInv'
<1>0. pc[w] = "read" /\ row[w] \in Inboxes
  BY BusyHasRow DEF Read, At
<1>1. RowsTyped' /\ DomainTyped'
  BY DEF TypeInv, RowsTyped, DomainTyped, Read, inboxVars, domainVars, storyVars, customerVars, leadVars
<1>2. UNCHANGED <<row, lease, attempts, message>>
  BY DEF Read, inboxVars, domainVars, storyVars
<1>3. CASE FailPermanently(w)
  BY <1>0, <1>1, <1>2, <1>3, FailKeeps DEF TypeInv
<1>4. CASE Kind[row[w]] # "message" /\ StillPending(w)
  <2>1. PICK outcome \in {"RETRY"} \cup Settled :
           Close(w, outcome) /\ (outcome = "COMPLETED" => Exhausted(w))
    BY <1>4 DEF StillPending, Settled
  <2> QED
    BY <1>0, <1>1, <1>2, <1>4, <2>1, CloseKeeps DEF TypeInv
<1>5. ASSUME NEW new \in Ctx, new.tries = ctx[w].tries,
             Kind[row[w]] # "message" =>
                /\ message[About[row[w]]] # "QUEUED"
                /\ new.status \in Known \ {"QUEUED"},
             ctx' = [ctx EXCEPT ![w] = new], Goto(w, "write")
      PROVE  TypeInv'
  <2>1. HandlersTyped'
    BY <1>2, <1>5 DEF TypeInv, HandlersTyped, Goto
  <2>2. pc'[w] = "write" /\ ctx'[w] = new
    BY <1>5 DEF TypeInv, HandlersTyped, Goto
  <2>3. ASSUME NEW v \in Workers, v # w PROVE pc'[v] = pc[v] /\ ctx'[v] = ctx[v]
    BY <1>5, <2>3 DEF TypeInv, HandlersTyped, Goto
  <2>4. HandlerInv'
    BY <1>0, <1>2, <1>5, <2>2, <2>3 DEF TypeInv, HandlerInv, Exhausted
  <2> QED
    BY <1>1, <2>1, <2>4 DEF TypeInv
<1>6. CASE /\ Kind[row[w]] = "message"
           /\ ctx' = [ctx EXCEPT ![w] = [@ EXCEPT !.identity = identity, !.linked = linked]]
           /\ Goto(w, "write")
  <2> DEFINE new == [ctx[w] EXCEPT !.identity = identity, !.linked = linked]
  <2>1. ctx[w] \in Ctx /\ identity \in BOOLEAN /\ linked \in BOOLEAN
    BY DEF TypeInv, HandlersTyped, DomainTyped
  <2>2. new \in Ctx /\ new.tries = ctx[w].tries
    BY <2>1 DEF Ctx
  <2> QED
    BY <1>5, <1>6, <2>2
<1>7. CASE /\ Kind[row[w]] # "message" /\ message[About[row[w]]] # "QUEUED"
           /\ ctx' = [ctx EXCEPT ![w] = [@ EXCEPT !.status = message[About[row[w]]],
                                                  !.meta = meta[About[row[w]]]]]
           /\ Goto(w, "write")
  <2> DEFINE new == [ctx[w] EXCEPT !.status = message[About[row[w]]],
                                 !.meta = meta[About[row[w]]]]
  <2>1. About[row[w]] \in Messages
    BY <1>0, <1>7, InboundAssumption DEF Ofs
  <2>2. ctx[w] \in Ctx /\ message[About[row[w]]] \in Known /\ meta[About[row[w]]] \in SUBSET Parts
    BY <2>1 DEF TypeInv, HandlersTyped, DomainTyped
  <2>3. new \in Ctx /\ new.tries = ctx[w].tries /\ new.status = message[About[row[w]]]
    BY <2>2 DEF Ctx
  <2> QED
    BY <1>5, <1>7, <2>2, <2>3
<1> QED
  BY <1>3, <1>4, <1>6, <1>7 DEF Read
-----------------------------------------------------------------------------
LEMMA ReleaseType ==
    ASSUME RowsTyped, NEW i \in Inboxes, NEW s \in {"RETRY"} \cup Settled, Release(i, s)
    PROVE  RowsTyped' /\ attempts' = attempts
BY DEF RowsTyped, Release, Settled

Incoming == {"SENT", "DELIVERED", "READ", "FAILED", "DELETED"}

LEMMA ProjectionType ==
    ASSUME NEW current \in Known, NEW incoming \in Incoming
    PROVE  /\ Projection(current, incoming) \in Known
           /\ current # "QUEUED" => Projection(current, incoming) # "QUEUED"
BY DEF Projection, Known, Incoming

(* What is known of a status, a reaction or a message when it is applied. *)
LEMMA WriteContext ==
    ASSUME TypeInv, NEW w \in Workers, pc[w] = "write"
    PROVE  /\ row[w] \in Inboxes /\ ctx[w] \in Ctx
           /\ Kind[row[w]] \in {"message", "reaction", "status"}
           /\ Kind[row[w]] # "message" =>
                 /\ About[row[w]] \in Messages
                 /\ message[About[row[w]]] # "QUEUED"
                 /\ ctx[w].status \in Known \ {"QUEUED"}
                 /\ ctx[w].meta \in SUBSET Parts
           /\ Kind[row[w]] = "status" => Status[row[w]] \in Incoming
<1>1. row[w] \in Inboxes /\ ctx[w] \in Ctx
  BY BusyHasRow DEF TypeInv, HandlersTyped
<1>2. ctx[w].meta \in SUBSET Parts
  BY <1>1 DEF Ctx
<1> QED
  BY <1>1, <1>2, InboundAssumption DEF TypeInv, HandlerInv, Ofs, Incoming

LEMMA ApplyType ==
    ASSUME TypeInv, NEW w \in Workers, pc[w] = "write",
           \/ Kind[row[w]] = "message" /\ ApplyMessage(w)
           \/ Kind[row[w]] = "reaction" /\ ApplyReaction(w)
           \/ Kind[row[w]] = "status" /\ ApplyStatus(w)
    PROVE  /\ message' \in [Messages -> Known]
           /\ \A m \in Messages : message[m] # "QUEUED" => message'[m] # "QUEUED"
           /\ meta' \in [Messages -> SUBSET Parts]
           /\ recipient' \in [Messages -> {"NONE", "PROCESSING", "SENT", "DELIVERED", "READ",
                                           "FAILED"}]
           /\ identity' \in BOOLEAN /\ UNCHANGED <<linked, linking, backlog>>
           /\ overtaken' \subseteq Ofs("message")
           /\ reach' \in {"UNKNOWN", "PENDING", "AVAILABLE", "UNAVAILABLE"}
           /\ lastInbound' \in Nat
<1> USE DEF TypeInv, DomainTyped
<1>0. /\ row[w] \in Inboxes /\ ctx[w] \in Ctx
      /\ Kind[row[w]] # "message" =>
            /\ About[row[w]] \in Messages
            /\ ctx[w].status \in Known \ {"QUEUED"}
            /\ ctx[w].meta \in SUBSET Parts
      /\ Kind[row[w]] = "status" => Status[row[w]] \in Incoming
  BY WriteContext
<1>1. CASE Kind[row[w]] = "message" /\ ApplyMessage(w)
  <2>1. Time[row[w]] \in Nat /\ row[w] \in Ofs("message")
    BY <1>0, <1>1, InboundAssumption DEF Ofs
  <2> QED
    BY <1>1, <2>1 DEF ApplyMessage, LatestInbound, storyVars, leadVars
<1>2. CASE Kind[row[w]] = "reaction" /\ ApplyReaction(w)
  <2>1. \A m \in Messages : meta'[m] \in SUBSET Parts
    BY <1>0, <1>2 DEF ApplyReaction, Parts
  <2> QED
    BY <1>2, <2>1 DEF ApplyReaction, customerVars, leadVars
<1>3. CASE Kind[row[w]] = "status" /\ ApplyStatus(w)
  <2> DEFINE m == About[row[w]]
             p == Projection(ctx[w].status, Status[row[w]])
  <2>1. p \in Known \ {"QUEUED"}
    BY <1>0, <1>3, ProjectionType
  <2>2. NewMeta(w) \in SUBSET Parts
    BY <1>0, <1>3 DEF NewMeta, Parts
  <2>3. NewReach(row[w]) \in {"UNKNOWN", "PENDING", "AVAILABLE", "UNAVAILABLE"}
    BY DEF NewReach
  <2>4. RecipientStatus(recipient[m], p) \in {"NONE", "PROCESSING", "SENT", "DELIVERED", "READ",
                                              "FAILED"}
    BY <1>0, <1>3, <2>1 DEF RecipientStatus, Known
  <2>5. /\ message' = message \/ message' = [message EXCEPT ![m] = p]
        /\ recipient' = recipient \/ recipient' = [recipient EXCEPT ![m] = RecipientStatus(@, p)]
        /\ meta' = [meta EXCEPT ![m] = NewMeta(w)]
        /\ reach' = NewReach(row[w])
        /\ UNCHANGED <<identity, linked, linking, backlog, overtaken, lastInbound>>
    BY <1>3 DEF ApplyStatus, leadVars
  <2> HIDE DEF p
  <2> QED
    BY <1>0, <1>3, <2>1, <2>2, <2>3, <2>4, <2>5
<1> QED
  BY <1>1, <1>2, <1>3

LEMMA EventGrows ==
    ASSUME TypeInv, NEW i \in Inboxes, applied' = [applied EXCEPT ![i] = @ + 1]
    PROVE  event' = event \cup {i}
BY DEF TypeInv, DomainTyped, event

LEMMA WriteCases ==
    ASSUME TypeInv, NEW w \in Workers, Write(w), ~Clashes(w), Holds(w)
    PROVE  /\ applied' = [applied EXCEPT ![row[w]] = @ + 1] /\ applied[row[w]] = 0
           /\ event' = event \cup {row[w]}
           /\ \/ Kind[row[w]] = "message" /\ ApplyMessage(w)
              \/ Kind[row[w]] = "reaction" /\ ApplyReaction(w)
              \/ Kind[row[w]] = "status" /\ ApplyStatus(w)
           /\ Release(row[w], "COMPLETED") /\ Leave(w) /\ UNCHANGED <<jobs, faults>>
<1>1. pc[w] = "write"
  BY DEF Write, At
<1>2. Kind[row[w]] \in {"message", "reaction", "status"} /\ row[w] \in Inboxes
  BY <1>1, WriteContext
<1>3. applied' = [applied EXCEPT ![row[w]] = @ + 1] /\ applied[row[w]] = 0
  BY <1>2 DEF Write, Clashes, TypeInv, DomainTyped
<1>4. event' = event \cup {row[w]}
  BY <1>2, <1>3, EventGrows
<1> QED
  BY <1>2, <1>3, <1>4 DEF Write

LEMMA WriteType ==
    ASSUME TypeInv, NEW w \in Workers, Write(w)
    PROVE  TypeInv'
<1>0. pc[w] = "write" /\ row[w] \in Inboxes
  BY BusyHasRow DEF Write, At
<1>1. CASE Clashes(w)
  <2>1. FailForNow(w) /\ UNCHANGED <<inboxVars, domainVars, jobs, row, lease, faults>>
    BY <1>1 DEF Write
  <2>2. RowsTyped' /\ DomainTyped' /\ UNCHANGED <<attempts, message>>
    BY <2>1 DEF TypeInv, RowsTyped, DomainTyped, inboxVars, domainVars, storyVars, customerVars, leadVars
  <2> QED
    BY <1>0, <2>1, <2>2, FailKeeps DEF TypeInv
<1>2. CASE ~Clashes(w) /\ ~Holds(w)
  <2>1. Leave(w) /\ MayRunAgain(w) /\ UNCHANGED <<inboxVars, domainVars, faults>>
    BY <1>2 DEF Write
  <2>2. RowsTyped' /\ DomainTyped' /\ UNCHANGED <<attempts, message>>
    BY <1>0, <2>1 DEF TypeInv, RowsTyped, DomainTyped, inboxVars, domainVars, storyVars,
                      customerVars, leadVars, MayRunAgain
  <2> QED
    BY <2>1, <2>2, LeaveKeeps DEF TypeInv
<1>3. CASE ~Clashes(w) /\ Holds(w)
  <2>1. RowsTyped' /\ attempts' = attempts
    BY <1>0, <1>3, WriteCases, ReleaseType DEF TypeInv, Settled
  <2>2. DomainTyped' /\ \A m \in Messages : message[m] # "QUEUED" => message'[m] # "QUEUED"
    <3>1. applied' \in [Inboxes -> Nat] /\ UNCHANGED <<jobs, faults>>
      BY <1>0, <1>3, WriteCases DEF TypeInv, DomainTyped
    <3> QED
      BY <1>0, <1>3, <3>1, WriteCases, ApplyType DEF TypeInv, DomainTyped
  <2> QED
    BY <1>3, <2>1, <2>2, WriteCases, LeaveKeeps DEF TypeInv
<1> QED
  BY <1>1, <1>2, <1>3

LEMMA CloseRowType ==
    ASSUME TypeInv, NEW w \in Workers, CloseRow(w)
    PROVE  TypeInv'
<1>0. pc[w] = "close" /\ row[w] \in Inboxes /\ ctx[w].outcome \in {"RETRY"} \cup Settled
  BY BusyHasRow DEF CloseRow, At, TypeInv, HandlerInv
<1>1. RowsTyped' /\ attempts' = attempts
  BY <1>0, ReleaseType DEF CloseRow, TypeInv, RowsTyped, inboxVars
<1>2. DomainTyped' /\ UNCHANGED message
  BY <1>0 DEF TypeInv, DomainTyped, CloseRow, MayRunAgain, domainVars, storyVars, customerVars, leadVars
<1> QED
  BY <1>1, <1>2, LeaveKeeps DEF TypeInv, CloseRow

LEMMA FaultType ==
    ASSUME TypeInv, NEW w \in Workers, Crash(w) \/ DatabaseError(w)
    PROVE  TypeInv'
<1>0. pc[w] # "idle" /\ row[w] \in Inboxes
  BY BusyHasRow DEF Crash, DatabaseError, At
<1>1. UNCHANGED <<inboxVars, domainVars>> /\ Fault
  BY DEF Crash, DatabaseError
<1>2. jobs' \subseteq Inboxes
  BY <1>0 DEF TypeInv, DomainTyped, Crash, DatabaseError, MayRunAgain
<1>3. RowsTyped' /\ DomainTyped' /\ UNCHANGED <<attempts, message>>
  BY <1>1, <1>2, InboundAssumption
     DEF TypeInv, RowsTyped, DomainTyped, inboxVars, domainVars, storyVars, customerVars, leadVars, Fault
<1>4. CASE Leave(w)
  BY <1>3, <1>4, LeaveKeeps DEF TypeInv
<1>5. CASE pc[w] \in {"read", "write"} /\ FailForNow(w) /\ UNCHANGED <<row, lease>>
  BY <1>3, <1>5, FailKeeps DEF TypeInv
<1> QED
  BY <1>4, <1>5 DEF Crash, DatabaseError

(* Webhook, scan, queue and time write rows, but no handler. *)
LEMMA ScanType ==
    ASSUME TypeInv, NEW i \in Inboxes,
           \/ Receive(i) \/ LeaseLapses(i) \/ BecomesDue(i) \/ LoseSignal(i)
           \/ Recover(i) \/ Enqueue(i)
    PROVE  TypeInv'
<1>1. UNCHANGED <<domainVars, handlerVars, attempts>>
  BY DEF Receive, LeaseLapses, BecomesDue, LoseSignal, Recover, Enqueue, inboxVars
<1>2. RowsTyped'
  <2>1. CASE LoseSignal(i) \/ Enqueue(i)
    BY <2>1 DEF TypeInv, RowsTyped, LoseSignal, Enqueue, inboxVars
  <2>2. CASE Receive(i)
    BY <2>2 DEF TypeInv, RowsTyped, Receive
  <2>3. CASE LeaseLapses(i)
    BY <2>3 DEF TypeInv, RowsTyped, LeaseLapses
  <2>4. CASE BecomesDue(i)
    BY <2>4 DEF TypeInv, RowsTyped, BecomesDue
  <2>5. CASE Recover(i)
    BY <2>5 DEF TypeInv, RowsTyped, Recover
  <2> QED
    BY <2>1, <2>2, <2>3, <2>4, <2>5
<1>3. jobs' \subseteq Inboxes /\ faults' \in 0..MaxFaults
  BY InboundAssumption
     DEF TypeInv, DomainTyped, Receive, LeaseLapses, BecomesDue, LoseSignal, Recover, Enqueue,
         Fault
<1>4. DomainTyped'
  BY <1>1, <1>3 DEF TypeInv, DomainTyped, domainVars, storyVars, customerVars, leadVars
<1>5. HandlersTyped' /\ HandlerInv'
  BY <1>1 DEF TypeInv, HandlersTyped, HandlerInv, handlerVars, domainVars, storyVars, Exhausted
<1> QED
  BY <1>2, <1>4, <1>5 DEF TypeInv

(* The CRM outbox links the contact. *)
LeadStep == ReadBacklog \/ LinkLead

LEMMA OutsideType ==
    ASSUME TypeInv, LeadStep \/ \E m \in Messages : Sent(m)
    PROVE  TypeInv'
<1>1. /\ UNCHANGED <<inboxVars, handlerVars, applied, jobs, identity, lastInbound, meta,
                     overtaken>>
      /\ \A m \in Messages : message[m] # "QUEUED" => message'[m] = message[m]
  BY DEF LeadStep, ReadBacklog, LinkLead, Sent, storyVars, TypeInv, DomainTyped
<1>2. RowsTyped'
  BY <1>1 DEF TypeInv, RowsTyped, inboxVars
<1>3. DomainTyped'
  <2>1. CASE ReadBacklog
    BY <1>1, <2>1 DEF TypeInv, DomainTyped, ReadBacklog, storyVars
  <2>2. CASE LinkLead
    <3>1. linking' \in BOOLEAN /\ linked' \in BOOLEAN
      BY <2>2 DEF TypeInv, DomainTyped, LinkLead
    <3>2. backlog' \subseteq Ofs("message")
      BY <2>2 DEF LinkLead
    <3>3. faults' \in 0..MaxFaults
      BY <2>2, InboundAssumption DEF TypeInv, DomainTyped, LinkLead, Fault
    <3>4. UNCHANGED <<message, recipient, reach>>
      BY <2>2 DEF LinkLead, storyVars
    <3> QED
      BY <1>1, <3>1, <3>2, <3>3, <3>4 DEF TypeInv, DomainTyped
  <2>3. ASSUME NEW m \in Messages, Sent(m) PROVE DomainTyped'
    BY <1>1, <2>3 DEF TypeInv, DomainTyped, Sent, Known, leadVars
  <2> QED
    BY <2>1, <2>2, <2>3 DEF LeadStep
<1>4. HandlersTyped' /\ HandlerInv'
  <2>1. ASSUME NEW v \in Workers, pc[v] = "write", Kind[row[v]] # "message"
        PROVE  About[row[v]] \in Messages
    BY <2>1, WriteContext
  <2> QED
    BY <1>1, <2>1 DEF TypeInv, HandlersTyped, HandlerInv, handlerVars, inboxVars, Exhausted
<1> QED
  BY <1>2, <1>3, <1>4 DEF TypeInv

LEMMA TypeStep == TypeInv /\ [Next]_vars => TypeInv'
<1> SUFFICES ASSUME TypeInv, [Next]_vars PROVE TypeInv'
  OBVIOUS
<1>1. CASE UNCHANGED vars
  BY <1>1 DEF TypeInv, RowsTyped, DomainTyped, HandlersTyped, HandlerInv, Exhausted, vars,
              inboxVars, domainVars, storyVars, customerVars, leadVars, handlerVars
<1>2. ASSUME NEW w \in Workers,
             Handle(w) \/ Crash(w) \/ DatabaseError(w) \/ \E i \in Inboxes : Deliver(w, i)
      PROVE  TypeInv'
  BY <1>2, ClaimType, ReadType, WriteType, CloseRowType, FaultType, DeliverType DEF Handle
<1>3. ASSUME NEW i \in Inboxes,
             \/ Receive(i) \/ LeaseLapses(i) \/ BecomesDue(i) \/ LoseSignal(i)
             \/ Recover(i) \/ Enqueue(i)
      PROVE  TypeInv'
  BY <1>3, ScanType
<1> QED
  BY <1>1, <1>2, <1>3, OutsideType DEF Next, LeadStep

(* Rows, projections and handlers keep to the values of their columns, and a
   handler carries what its step needs (process() and what it calls). *)
THEOREM InboundTypeCorrect == Spec => [](TypeOK /\ HandlerInv)
<1>1. TypeInv => TypeOK /\ HandlerInv
  BY DEF TypeInv, TypeOK
<1> QED
  BY TypeInit, TypeStep, <1>1, PTL DEF Spec
-----------------------------------------------------------------------------
(* What notifications do: each takes effect once, what it leaves in the rows of
   the customer, and that the inbox table follows the lease protocol. *)

Applies(w) == Write(w) /\ ~Clashes(w) /\ Holds(w)

(* Every step leaves the domain rows alone, or is one of three that write. *)
LEMMA EffectCases ==
    ASSUME TypeInv, [Next]_vars
    PROVE  \/ UNCHANGED domainVars
           \/ \E m \in Messages : Sent(m)
           \/ LeadStep
           \/ \E w \in Workers : Applies(w)
<1>1. CASE UNCHANGED vars
  BY <1>1 DEF vars
<1>2. ASSUME NEW w \in Workers, Write(w), ~Applies(w) PROVE UNCHANGED domainVars
  BY <1>2 DEF Write, Applies
<1>3. ASSUME NEW w \in Workers,
             \/ Claim(w) \/ Read(w) \/ CloseRow(w) \/ Crash(w) \/ DatabaseError(w)
             \/ \E i \in Inboxes : Deliver(w, i)
      PROVE  UNCHANGED domainVars
  BY <1>3 DEF Claim, Read, CloseRow, Crash, DatabaseError, Deliver
<1>4. ASSUME NEW i \in Inboxes,
             \/ Receive(i) \/ LeaseLapses(i) \/ BecomesDue(i) \/ LoseSignal(i)
             \/ Recover(i) \/ Enqueue(i)
      PROVE  UNCHANGED domainVars
  BY <1>4 DEF Receive, LeaseLapses, BecomesDue, LoseSignal, Recover, Enqueue
<1> QED
  BY <1>1, <1>2, <1>3, <1>4 DEF Next, Handle, LeadStep

(* What an applied notification is, and that its writes are those of its kind. *)
LEMMA AppliesCases ==
    ASSUME TypeInv, NEW w \in Workers, Applies(w)
    PROVE  /\ pc[w] = "write" /\ row[w] \in Inboxes /\ inbox[row[w]] = "PROCESSING"
           /\ applied' = [applied EXCEPT ![row[w]] = @ + 1] /\ applied[row[w]] = 0
           /\ event' = event \cup {row[w]}
           /\ \/ Kind[row[w]] = "message" /\ ApplyMessage(w)
              \/ Kind[row[w]] = "reaction" /\ ApplyReaction(w)
              \/ Kind[row[w]] = "status" /\ ApplyStatus(w)
           /\ Release(row[w], "COMPLETED")
BY WriteCases DEF Applies, Holds, Write, At
-----------------------------------------------------------------------------
(* A row only ever collects attempts, never leaves COMPLETED or DEAD_LETTER,
   and gets its event in the step that completes it. *)
LEMMA RowStep ==
    ASSUME TypeInv, [Next]_vars, NEW i \in Inboxes
    PROVE  /\ attempts[i] \in Nat /\ attempts'[i] \in Nat /\ attempts[i] <= attempts'[i]
           /\ inbox[i] \in Settled => inbox'[i] = inbox[i]
           /\ applied[i] \in Nat
           /\ \/ applied'[i] = applied[i]
              \/ applied[i] = 0 /\ applied'[i] = 1 /\ inbox'[i] = "COMPLETED"
           /\ inbox'[i] = "COMPLETED" =>
                 \/ inbox[i] = "COMPLETED" \/ applied'[i] > 0
                 \/ Kind[i] # "message" /\ attempts'[i] >= MaxAttempts
<1> DEFINE Goal == /\ attempts'[i] \in Nat /\ attempts[i] <= attempts'[i]
                   /\ inbox[i] \in Settled => inbox'[i] = inbox[i]
                   /\ \/ applied'[i] = applied[i]
                      \/ applied[i] = 0 /\ applied'[i] = 1 /\ inbox'[i] = "COMPLETED"
                   /\ inbox'[i] = "COMPLETED" =>
                         \/ inbox[i] = "COMPLETED" \/ applied'[i] > 0
                         \/ Kind[i] # "message" /\ attempts'[i] >= MaxAttempts
<1> USE DEF Settled
<1>0. attempts[i] \in Nat /\ applied[i] \in Nat
  BY DEF TypeInv, RowsTyped, DomainTyped
<1>1. CASE UNCHANGED <<inboxVars, applied>>
  BY <1>0, <1>1 DEF inboxVars
<1>2. ASSUME NEW w \in Workers, Claim(w) PROVE Goal
  <2>1. row[w] \in Inboxes /\ UNCHANGED applied
    BY <1>2, BusyHasRow DEF Claim, At, domainVars
  <2> QED
    BY <1>0, <1>2, <2>1 DEF Claim, Claimable, TypeInv, RowsTyped, inboxVars
<1>3. ASSUME NEW w \in Workers, Applies(w) PROVE Goal
  BY <1>0, <1>3, AppliesCases DEF Release, TypeInv, RowsTyped, DomainTyped
<1>4. ASSUME NEW w \in Workers, CloseRow(w) PROVE Goal
  <2>1. /\ row[w] \in Inboxes /\ UNCHANGED applied /\ pc[w] = "close"
        /\ ctx[w].tries \in Nat /\ ctx[w].tries <= attempts[row[w]]
        /\ ctx[w].outcome = "COMPLETED" => Kind[row[w]] # "message" /\ Exhausted(w)
    BY <1>4, BusyHasRow DEF CloseRow, At, domainVars, TypeInv, HandlerInv, HandlersTyped, Ctx
  <2>2. CASE ~Holds(w)
    BY <1>0, <1>4, <2>1, <2>2 DEF CloseRow, inboxVars
  <2>3. CASE Holds(w)
    <3>1. /\ inbox' = [inbox EXCEPT ![row[w]] = ctx[w].outcome]
          /\ attempts' = attempts /\ inbox[row[w]] = "PROCESSING"
      BY <1>4, <2>3 DEF CloseRow, Release, Holds
    <3> QED
      BY <1>0, <2>1, <3>1, InboundAssumption DEF TypeInv, RowsTyped, Exhausted
  <2> QED
    BY <2>2, <2>3
<1>5. ASSUME NEW j \in Inboxes, Receive(j) \/ Recover(j) PROVE Goal
  BY <1>0, <1>5 DEF Receive, Recover, TypeInv, RowsTyped, domainVars
<1>6. CASE \/ \E w \in Workers : \/ Read(w) \/ Crash(w) \/ DatabaseError(w)
                                 \/ (Write(w) /\ ~Applies(w))
                                 \/ \E j \in Inboxes : Deliver(w, j)
           \/ \E j \in Inboxes : LeaseLapses(j) \/ BecomesDue(j) \/ LoseSignal(j) \/ Enqueue(j)
           \/ LeadStep \/ \E m \in Messages : Sent(m)
           \/ UNCHANGED vars
  <2>1. UNCHANGED <<inbox, attempts, applied>>
    BY <1>6 DEF Read, Crash, DatabaseError, Write, Applies, Deliver, LeaseLapses, BecomesDue,
                LoseSignal, Enqueue, LeadStep, ReadBacklog, LinkLead,
                Sent, vars, inboxVars, domainVars
  <2> QED
    BY <1>0, <2>1
<1> QED
  BY <1>0, <1>2, <1>3, <1>4, <1>5, <1>6 DEF Next, Handle, LeadStep

(* Each notification takes effect once, however often it is delivered: its
   event is written in the transaction that completes its row, and a row
   completed without one has run out of attempts (process()). *)
THEOREM EachTakesEffectOnce == Spec => []OneEffect
<1>1. Init => OneEffect
  BY DEF Init, OneEffect
<1>2. TypeInv /\ OneEffect /\ [Next]_vars => OneEffect'
  <2> SUFFICES ASSUME TypeInv, OneEffect, [Next]_vars, NEW i \in Inboxes
               PROVE  /\ applied'[i] > 0 => applied'[i] = 1 /\ inbox'[i] = "COMPLETED"
                      /\ inbox'[i] = "COMPLETED" /\ applied'[i] = 0 =>
                            Kind[i] # "message" /\ attempts'[i] >= MaxAttempts
    BY DEF OneEffect
  <2>1. MaxAttempts \in Nat
    BY InboundAssumption
  <2> QED
    BY <2>1, RowStep DEF OneEffect, Settled
<1> QED
  BY <1>1, <1>2, TypeInit, TypeStep, PTL DEF Spec
-----------------------------------------------------------------------------
(* Messages of the customer. *)
Heard == event \cap Ofs("message")

(* What the link's open transaction has not found was overtaken, and only a
   linked contact is read as one. *)
LinkInv ==
    /\ linking => /\ ~linked
                  /\ \A i \in Heard : <<"history", i>> \in crm \/ i \in backlog \cup overtaken
    /\ \A w \in Workers :
          pc[w] = "write" /\ Kind[row[w]] = "message" /\ ctx[w].linked => linked

MessageInv == WindowIsLatest /\ LinkInv /\ MissedIsOvertaken

LEMMA MessageInit == Init => MessageInv
BY DEF Init, MessageInv, WindowIsLatest, MissedIsOvertaken, LinkInv, event

(* A handler comes to write a message by reading the contact. *)
LEMMA LinkedReads ==
    ASSUME TypeInv, [Next]_vars, NEW w \in Workers,
           pc'[w] = "write", Kind[row'[w]] = "message"
    PROVE  \/ pc[w] = "write" /\ row'[w] = row[w] /\ ctx'[w] = ctx[w]
           \/ ctx'[w].linked = linked
<1> DEFINE Goal == \/ pc[w] = "write" /\ row'[w] = row[w] /\ ctx'[w] = ctx[w]
                   \/ ctx'[w].linked = linked
           Same(v) == \A u \in Workers \ {v} :
                         pc'[u] = pc[u] /\ row'[u] = row[u] /\ ctx'[u] = ctx[u]
<1>1. CASE UNCHANGED handlerVars
  BY <1>1 DEF handlerVars
<1>2. ASSUME NEW v \in Workers,
             \/ Leave(v)
             \/ pc'[v] \in {"claim", "read", "close"} /\ Same(v)
      PROVE  Goal
  BY <1>2 DEF Leave, TypeInv, HandlersTyped
<1>3. ASSUME NEW v \in Workers, Read(v) PROVE Goal
  <2>1. pc[v] = "read" /\ Same(v) /\ UNCHANGED row
    BY <1>3 DEF Read, At, Goto, FailPermanently, StillPending, Close, TypeInv, HandlersTyped
  <2>2. CASE pc'[v] = "close"
    BY <1>2, <2>1, <2>2
  <2>3. CASE /\ Kind[row[v]] = "message"
             /\ ctx' = [ctx EXCEPT ![v] = [@ EXCEPT !.identity = identity, !.linked = linked]]
             /\ Goto(v, "write")
    <3>1. ctx[v] \in Ctx
      BY DEF TypeInv, HandlersTyped
    <3>2. [ctx[v] EXCEPT !.identity = identity, !.linked = linked].linked = linked
      BY <3>1 DEF Ctx
    <3>3. ctx'[v] = [ctx[v] EXCEPT !.identity = identity, !.linked = linked]
      BY <2>3 DEF TypeInv, HandlersTyped
    <3> QED
      BY <2>1, <3>2, <3>3
  <2>4. CASE Kind[row[v]] # "message"
    BY <2>1, <2>4
  <2>5. pc'[v] = "close" \/ Kind[row[v]] # "message" \/ Goto(v, "write")
    BY <1>3 DEF Read, FailPermanently, StillPending, Close, Goto, TypeInv, HandlersTyped
  <2> QED
    BY <1>3, <2>1, <2>2, <2>3, <2>4 DEF Read, FailPermanently, Close, Goto, TypeInv, HandlersTyped
<1>4. ASSUME NEW v \in Workers,
             \/ Claim(v) \/ Write(v) \/ CloseRow(v) \/ Crash(v) \/ DatabaseError(v)
             \/ \E i \in Inboxes : Deliver(v, i)
      PROVE  Goal
  <2>1. \/ Leave(v) \/ UNCHANGED handlerVars
        \/ pc'[v] \in {"claim", "read", "close"} /\ Same(v)
    <3>1. CASE Claim(v)
      BY <3>1 DEF Claim, Goto, TypeInv, HandlersTyped
    <3>2. CASE Write(v)
      BY <3>2 DEF Write, FailForNow, Close, Goto, TypeInv, HandlersTyped
    <3>3. CASE CloseRow(v) \/ Crash(v)
      BY <3>3 DEF CloseRow, Crash
    <3>4. CASE DatabaseError(v)
      BY <3>4 DEF DatabaseError, FailForNow, Close, Goto, TypeInv, HandlersTyped
    <3>5. CASE \E i \in Inboxes : Deliver(v, i)
      BY <3>5 DEF Deliver, Goto, TypeInv, HandlersTyped
    <3> QED
      BY <1>4, <3>1, <3>2, <3>3, <3>4, <3>5
  <2> QED
    BY <1>1, <1>2, <2>1
<1>5. CASE \/ \E i \in Inboxes : \/ Receive(i) \/ LeaseLapses(i) \/ BecomesDue(i)
                                  \/ LoseSignal(i) \/ Recover(i) \/ Enqueue(i)
           \/ \E m \in Messages : Sent(m)
           \/ ReadBacklog \/ LinkLead \/ UNCHANGED vars
  <2>1. UNCHANGED handlerVars
    BY <1>5 DEF Receive, LeaseLapses, BecomesDue, LoseSignal, Recover, Enqueue, Sent,
                ReadBacklog, LinkLead, vars
  <2> QED
    BY <1>1, <2>1
<1> QED
  BY <1>3, <1>4, <1>5 DEF Next, Handle

LEMMA LinkedStays ==
    ASSUME TypeInv, [Next]_vars
    PROVE  linked => linked'
<1>1. ASSUME NEW w \in Workers, Applies(w) PROVE linked' = linked
  BY <1>1, AppliesCases DEF ApplyMessage, ApplyReaction, ApplyStatus, customerVars, leadVars
<1> QED
  BY <1>1, EffectCases DEF domainVars, customerVars, leadVars, Sent, LeadStep, ReadBacklog, LinkLead

LEMMA MessageStep == TypeInv /\ MessageInv /\ [Next]_vars => MessageInv'
<1> SUFFICES ASSUME TypeInv, MessageInv, [Next]_vars PROVE MessageInv'
  OBVIOUS
<1> DEFINE Handlers == \A w \in Workers :
               pc[w] = "write" /\ Kind[row[w]] = "message" /\ ctx[w].linked => linked
           Backlog == linking => /\ ~linked
                                 /\ \A i \in Heard : \/ <<"history", i>> \in crm
                                                     \/ i \in backlog \cup overtaken
<1>0. Handlers'
  <2> SUFFICES ASSUME NEW w \in Workers,
                      pc'[w] = "write", Kind[row'[w]] = "message", ctx'[w].linked
               PROVE  linked'
    OBVIOUS
  <2> QED
    BY LinkedReads, LinkedStays DEF MessageInv, LinkInv
<1>1. CASE /\ UNCHANGED <<lastInbound, leadVars, overtaken>> /\ Heard' = Heard
           /\ crm \subseteq crm'
  <2>1. WindowIsLatest' /\ MissedIsOvertaken' /\ Backlog'
    BY <1>1 DEF MessageInv, WindowIsLatest, MissedIsOvertaken, LinkInv, leadVars, Heard
  <2> QED
    BY <1>0, <2>1 DEF MessageInv, LinkInv
<1>2. ASSUME NEW w \in Workers, Applies(w) PROVE MessageInv'
  <2>1. /\ pc[w] = "write" /\ row[w] \in Inboxes /\ event' = event \cup {row[w]}
        /\ \/ Kind[row[w]] = "message" /\ ApplyMessage(w)
           \/ /\ Kind[row[w]] # "message"
              /\ UNCHANGED <<lastInbound, leadVars, overtaken>> /\ crm \subseteq crm'
    BY <1>2, AppliesCases DEF ApplyReaction, ApplyStatus, customerVars
  <2>2. CASE /\ Kind[row[w]] # "message"
             /\ UNCHANGED <<lastInbound, leadVars, overtaken>> /\ crm \subseteq crm'
    <3>1. Heard' = Heard
      BY <2>1, <2>2 DEF Ofs, Heard
    <3> QED
      BY <1>1, <2>2, <3>1
  <2>3. CASE Kind[row[w]] = "message" /\ ApplyMessage(w)
    <3> DEFINE i == row[w]
    <3>1. Heard' = Heard \cup {i}
      BY <2>1, <2>3 DEF Ofs, Heard
    <3>2. /\ Time[i] \in Nat \ {0} /\ lastInbound \in Nat
          /\ \A j \in Heard : Time[j] \in Nat \ {0}
      BY <2>1, InboundAssumption DEF TypeInv, DomainTyped, Ofs, Heard
    <3>3. /\ lastInbound' = IF lastInbound < Time[i] THEN Time[i] ELSE lastInbound
          /\ crm' = crm \cup InboundIntent(w)
          /\ overtaken' = IF ~ctx[w].linked /\ (linked \/ linking) THEN overtaken \cup {i}
                                                                    ELSE overtaken
          /\ UNCHANGED <<linked, linking, backlog>>
      BY <2>3 DEF ApplyMessage, LatestInbound, leadVars
    <3>4. WindowIsLatest'
      <4>1. \A j \in Heard \cup {i} : Time[j] <= lastInbound'
        BY <3>2, <3>3 DEF MessageInv, WindowIsLatest, Heard
      <4>2. lastInbound' # 0 => \E j \in Heard \cup {i} : Time[j] = lastInbound'
        BY <3>2, <3>3 DEF MessageInv, WindowIsLatest, Heard
      <4> QED
        BY <3>1, <4>1, <4>2 DEF WindowIsLatest, Heard
    <3>5. /\ ctx[w].linked => linked /\ <<"history", i>> \in crm'
          /\ ~ctx[w].linked => <<"bootstrap">> \in crm'
          /\ ~ctx[w].linked /\ (linked \/ linking) => i \in overtaken'
      BY <2>1, <2>3, <3>3 DEF InboundIntent, MessageInv, LinkInv
    <3>6. MissedIsOvertaken'
      BY <3>1, <3>3, <3>5 DEF MessageInv, MissedIsOvertaken, Heard
    <3>7. Backlog'
      BY <3>1, <3>3, <3>5 DEF MessageInv, LinkInv
    <3> QED
      BY <1>0, <3>4, <3>6, <3>7 DEF MessageInv, LinkInv
  <2> QED
    BY <2>1, <2>2, <2>3
<1>3. CASE UNCHANGED domainVars
  <2>1. Heard' = Heard
    BY <1>3 DEF domainVars, Heard, event
  <2> QED
    BY <1>1, <1>3, <2>1 DEF domainVars, customerVars
<1>4. ASSUME NEW m \in Messages, Sent(m) PROVE MessageInv'
  <2>1. Heard' = Heard
    BY <1>4 DEF Sent, Heard, event
  <2> QED
    BY <1>1, <1>4, <2>1 DEF Sent
<1>5. CASE ReadBacklog
  <2>1. Heard' = Heard /\ event' = event
    BY <1>5 DEF ReadBacklog, Heard, event
  <2>2. WindowIsLatest' /\ MissedIsOvertaken'
    BY <1>5, <2>1 DEF ReadBacklog, MessageInv, WindowIsLatest, MissedIsOvertaken
  <2>3. Backlog'
    BY <1>5, <2>1 DEF ReadBacklog, Heard
  <2> QED
    BY <1>0, <2>2, <2>3 DEF MessageInv, LinkInv
<1>6. CASE LinkLead
  <2>1. Heard' = Heard /\ event' = event
    BY <1>6 DEF LinkLead, Heard, event
  <2>2. WindowIsLatest' /\ Backlog'
    BY <1>6, <2>1 DEF LinkLead, MessageInv, WindowIsLatest
  <2>3. MissedIsOvertaken'
    BY <1>6, <2>1 DEF LinkLead, MessageInv, LinkInv, MissedIsOvertaken, Heard
  <2> QED
    BY <1>0, <2>2, <2>3 DEF MessageInv, LinkInv
<1> QED
  BY <1>2, <1>3, <1>4, <1>5, <1>6, EffectCases DEF LeadStep

(* The service window is that of the latest message that was applied, in
   whatever order messages are (persistMessage() moves it only forward). *)
THEOREM WindowFollowsLatest == Spec => []WindowIsLatest
<1>1. MessageInv => WindowIsLatest
  BY DEF MessageInv
<1> QED
  BY <1>1, MessageInit, MessageStep, TypeInit, TypeStep, PTL DEF Spec

(* An applied message that Cyber Pulse never hears of had a handler that read
   the contact unlinked before, and wrote after, the transaction that linked
   him read his messages (finishSuccess()). *)
THEOREM CrmMissesOnlyOvertaken == Spec => []MissedIsOvertaken
<1>1. MessageInv => MissedIsOvertaken
  BY DEF MessageInv
<1> QED
  BY <1>1, MessageInit, MessageStep, TypeInit, TypeStep, PTL DEF Spec
-----------------------------------------------------------------------------
(* Delivery statuses of our messages. *)
StatusInv == RecipientMirrors /\ \A m \in Recipients : recipient[m] # "NONE"

LEMMA StatusWrites ==
    ASSUME TypeInv, NEW w \in Workers, pc[w] = "write", Kind[row[w]] = "status", ApplyStatus(w)
    PROVE  \E p \in Known \ {"QUEUED"} :
              /\ p = Projection(ctx[w].status, Status[row[w]])
              /\ About[row[w]] \in Messages /\ message[About[row[w]]] # "QUEUED"
              /\ \/ UNCHANGED <<message, recipient>>
                 \/ /\ message' = [message EXCEPT ![About[row[w]]] = p]
                    /\ recipient' = [recipient EXCEPT ![About[row[w]]] = RecipientStatus(@, p)]
<1>1. /\ About[row[w]] \in Messages /\ message[About[row[w]]] # "QUEUED"
      /\ ctx[w].status \in Known \ {"QUEUED"} /\ Status[row[w]] \in Incoming
  BY WriteContext
<1> DEFINE p == Projection(ctx[w].status, Status[row[w]])
<1>2. p \in Known \ {"QUEUED"}
  BY <1>1, ProjectionType
<1>3. \/ UNCHANGED <<message, recipient>>
      \/ /\ message' = [message EXCEPT ![About[row[w]]] = p]
         /\ recipient' = [recipient EXCEPT ![About[row[w]]] = RecipientStatus(@, p)]
  BY DEF ApplyStatus
<1> HIDE DEF p
<1> QED
  BY <1>1, <1>2, <1>3 DEF p

LEMMA StatusStep == TypeInv /\ StatusInv /\ [Next]_vars => StatusInv'
<1> SUFFICES ASSUME TypeInv, StatusInv, [Next]_vars PROVE StatusInv'
  OBVIOUS
<1> USE DEF StatusInv, RecipientMirrors
<1>0. Recipients \subseteq Messages
  BY InboundAssumption
<1>1. CASE UNCHANGED <<message, recipient>>
  BY <1>1
<1>2. ASSUME NEW m \in Messages, Sent(m) PROVE StatusInv'
  BY <1>0, <1>2 DEF Sent, TypeInv, DomainTyped
<1>3. ASSUME NEW w \in Workers, Applies(w) PROVE StatusInv'
  <2>1. CASE Kind[row[w]] # "status"
    <3>1. UNCHANGED <<message, recipient>>
      BY <1>3, <2>1, AppliesCases DEF ApplyMessage, ApplyReaction, storyVars
    <3> QED
      BY <1>1, <3>1
  <2>2. CASE Kind[row[w]] = "status"
    <3>1. PICK p \in Known \ {"QUEUED"} :
             /\ About[row[w]] \in Messages /\ message[About[row[w]]] # "QUEUED"
             /\ \/ UNCHANGED <<message, recipient>>
                \/ /\ message' = [message EXCEPT ![About[row[w]]] = p]
                   /\ recipient' = [recipient EXCEPT ![About[row[w]]] = RecipientStatus(@, p)]
      BY <1>3, <2>2, AppliesCases, StatusWrites
    <3> QED
      BY <1>0, <1>1, <3>1 DEF RecipientStatus, Known, TypeInv, DomainTyped
  <2> QED
    BY <2>1, <2>2
<1> QED
  BY <1>1, <1>2, <1>3, EffectCases DEF LeadStep, ReadBacklog, LinkLead, domainVars, storyVars

LEMMA StatusInit == Init => StatusInv
BY InboundAssumption DEF Init, StatusInv, RecipientMirrors

(* A broadcast recipient shows the status of its message whatever order
   statuses come in and however they race: persistStatus() writes both in one
   transaction with one value. *)
THEOREM RecipientShowsMessage == Spec => []RecipientMirrors
<1>1. StatusInv => RecipientMirrors
  BY DEF StatusInv
<1> QED
  BY <1>1, StatusInit, StatusStep, TypeInit, TypeStep, PTL DEF Spec

(* messageProjectionStatus() never lowers the status it is given. *)
LEMMA ProjectionNeverLowers ==
    ASSUME NEW current \in Known, NEW incoming \in Incoming
    PROVE  ~Lowers(current, Projection(current, incoming))
BY DEF Projection, Rank, Lowers, Known, Incoming

(* So the only downgrades are those of a handler whose read was overtaken. *)
THEOREM DowngradesNeedStaleRead == Spec => DowngradesAreStale
<1> DEFINE Excused(m) ==
       Lowers(message[m], message'[m]) =>
          \E w \in Workers : At(w, "write") /\ About[row[w]] = m /\ ctx[w].status # message[m]
<1>1. ASSUME TypeInv, [Next]_vars, NEW m \in Messages PROVE Excused(m)
  <2>0. message[m] \in Known
    BY <1>1 DEF TypeInv, DomainTyped
  <2>1. CASE message'[m] = message[m]
    BY <2>0, <2>1 DEF Lowers, Rank, Known
  <2>2. ASSUME NEW n \in Messages, Sent(n), message'[m] # message[m] PROVE Excused(m)
    <3>1. message[m] = "QUEUED"
      BY <1>1, <2>2 DEF Sent, TypeInv, DomainTyped
    <3> QED
      BY <3>1 DEF Lowers
  <2>3. ASSUME NEW w \in Workers, Applies(w), message'[m] # message[m] PROVE Excused(m)
    <3>1. pc[w] = "write" /\ Kind[row[w]] = "status" /\ ApplyStatus(w)
      BY <1>1, <2>3, AppliesCases DEF ApplyMessage, ApplyReaction, storyVars
    <3>2. About[row[w]] = m /\ message'[m] = Projection(ctx[w].status, Status[row[w]])
      BY <1>1, <2>3, <3>1, StatusWrites DEF TypeInv, DomainTyped
    <3>3. Status[row[w]] \in Incoming
      BY <1>1, <3>1, WriteContext
    <3>4. ctx[w].status = message[m] => ~Lowers(message[m], message'[m])
      BY <2>0, <3>2, <3>3, ProjectionNeverLowers
    <3> QED
      BY <3>1, <3>2, <3>4 DEF At
  <2> QED
    BY <1>1, <2>1, <2>2, <2>3, EffectCases DEF LeadStep, ReadBacklog, LinkLead, domainVars, storyVars
<1>2. TypeInv /\ [Next]_vars =>
        [\A m \in Messages : Lowers(message[m], message'[m]) =>
            \E w \in Workers : At(w, "write") /\ About[row[w]] = m
                               /\ ctx[w].status # message[m]]_vars
  BY <1>1
<1> QED
  BY <1>2, TypeInit, TypeStep, PTL DEF Spec, DowngradesAreStale

(* Nor does a status lose other metadata but through such a read. *)
THEOREM LossesNeedStaleRead == Spec => LossesAreStale
<1>1. ASSUME TypeInv, [Next]_vars, NEW i \in Ofs("status"), i \in event' \ event
      PROVE  \/ meta[About[i]] \subseteq meta'[About[i]]
             \/ \E w \in Workers : row[w] = i /\ ctx[w].meta # meta[About[i]]
  <2>1. PICK w \in Workers : Applies(w)
    <3>1. applied' # applied
      BY <1>1 DEF event
    <3> QED
      BY <1>1, <3>1, EffectCases DEF Sent, LeadStep, ReadBacklog, LinkLead, domainVars
  <2>2. row[w] = i /\ pc[w] = "write" /\ Kind[i] = "status" /\ ApplyStatus(w)
    BY <1>1, <2>1, AppliesCases DEF Ofs
  <2>3. About[i] \in Messages /\ meta \in [Messages -> SUBSET Parts]
    BY <1>1, <2>2, WriteContext DEF TypeInv, DomainTyped
  <2>4. meta'[About[i]] = NewMeta(w)
    BY <2>2, <2>3 DEF ApplyStatus
  <2>5. ctx[w].meta = meta[About[i]] => meta[About[i]] \subseteq NewMeta(w)
    BY <2>2 DEF NewMeta
  <2> QED
    BY <2>2, <2>4, <2>5
<1>2. TypeInv /\ [Next]_vars =>
        [\A i \in Ofs("status") : i \in event' \ event =>
            \/ meta[About[i]] \subseteq meta'[About[i]]
            \/ \E w \in Workers : row[w] = i /\ ctx[w].meta # meta[About[i]]]_vars
  BY <1>1
<1> QED
  BY <1>2, TypeInit, TypeStep, PTL DEF Spec, LossesAreStale
-----------------------------------------------------------------------------
(* The inbox table follows the lease protocol. *)
LeaseName(s) == CASE s = "NONE" -> "PENDING" [] s = "COMPLETED" -> "SUCCEEDED"
                  [] s = "DEAD_LETTER" -> "FAILED" [] OTHER -> s

LEMMA LeaseStatusMaps ==
    /\ LeaseStatus = [i \in Inboxes |-> LeaseName(inbox[i])]
    /\ LeaseStatus' = [i \in Inboxes |-> LeaseName(inbox'[i])]
BY DEF LeaseStatus, LeaseName

LEMMA LeaseStatusChanges ==
    ASSUME TypeInv, NEW i \in Inboxes, NEW s, inbox' = [inbox EXCEPT ![i] = s]
    PROVE  LeaseStatus' = [LeaseStatus EXCEPT ![i] = LeaseName(s)]
<1>1. \A j \in Inboxes : inbox'[j] = IF j = i THEN s ELSE inbox[j]
  BY DEF TypeInv, RowsTyped
<1> QED
  BY <1>1, LeaseStatusMaps

LEMMA InboxLeaves ==
    ASSUME TypeInv, NEW w \in Workers, pc[w] # "idle", Leave(w),
           UNCHANGED <<inbox, lockedBy, attempts>>
    PROVE  Lease!Next
<1>1. row[w] # NoRow
  BY DEF TypeInv, HandlerInv
<1>2. Lease!Drop(w)
  BY <1>1, LeaseStatusMaps DEF Leave, Lease!Drop
<1> QED
  BY <1>2 DEF Lease!Next

LEMMA InboxClaims ==
    ASSUME TypeInv, NEW w \in Workers, Claim(w)
    PROVE  Lease!Next
<1>0. pc[w] = "claim" /\ row[w] \in Inboxes /\ lease[w] = 0
  BY BusyHasRow DEF Claim, At, TypeInv, HandlerInv
<1>1. CASE Claimable(row[w])
  <2>1. LeaseStatus[row[w]] \notin Lease!Terminal
    BY <1>0, <1>1, LeaseStatusMaps DEF Claimable, LeaseName, Lease!Terminal
  <2>2. /\ inbox' = [inbox EXCEPT ![row[w]] = "PROCESSING"]
        /\ attempts[row[w]] < MaxLeases
        /\ attempts' = [attempts EXCEPT ![row[w]] = @ + 1]
        /\ lockedBy' = [lockedBy EXCEPT ![row[w]] = attempts[row[w]] + 1]
        /\ lease' = [lease EXCEPT ![w] = attempts[row[w]] + 1]
        /\ UNCHANGED row
    BY <1>1 DEF Claim
  <2>3. LeaseStatus' = [LeaseStatus EXCEPT ![row[w]] = "PROCESSING"]
    BY <1>0, <2>2, LeaseStatusChanges DEF LeaseName
  <2>4. Lease!Claim(w, row[w])
    BY <1>0, <2>1, <2>2, <2>3 DEF Lease!Claim
  <2> QED
    BY <1>0, <2>4 DEF Lease!Next
<1>2. CASE ~Claimable(row[w])
  BY <1>0, <1>2, InboxLeaves DEF Claim, inboxVars
<1> QED
  BY <1>1, <1>2

LEMMA InboxSettles ==
    ASSUME TypeInv, NEW w \in Workers, Holds(w), NEW s \in {"RETRY"} \cup Settled,
           Release(row[w], s), Leave(w)
    PROVE  Lease!Next
<1>1. row[w] \in Inboxes /\ LeaseStatus[row[w]] = "PROCESSING" /\ lockedBy[row[w]] = lease[w]
  BY LeaseStatusMaps DEF Holds, LeaseName
<1>2. LeaseStatus' = [LeaseStatus EXCEPT ![row[w]] = LeaseName(s)]
  BY <1>1, LeaseStatusChanges DEF Release
<1>3. LeaseName(s) \in Lease!Terminal \cup {"RETRY"}
  BY DEF LeaseName, Settled, Lease!Terminal
<1>4. Lease!Settle(w)
  BY <1>1, <1>2, <1>3 DEF Lease!Settle, Lease!Holds, Release, Leave
<1> QED
  BY <1>4 DEF Lease!Next

LEMMA InboxStepMaps == TypeInv /\ [Next]_vars => [Lease!Next]_(Lease!vars)
<1> SUFFICES ASSUME TypeInv, [Next]_vars PROVE Lease!Next \/ UNCHANGED Lease!vars
  OBVIOUS
<1>1. CASE UNCHANGED <<inbox, lockedBy, attempts, row, lease>>
  BY <1>1, LeaseStatusMaps DEF Lease!vars
<1>2. ASSUME NEW w \in Workers, NEW i \in Inboxes, Deliver(w, i)
      PROVE  Lease!Next \/ UNCHANGED Lease!vars
  <2>1. UNCHANGED <<inbox, lockedBy, attempts>>
    BY <1>2 DEF Deliver, inboxVars
  <2>2. CASE UNCHANGED handlerVars
    BY <1>1, <2>1, <2>2 DEF handlerVars
  <2>3. CASE row' = [row EXCEPT ![w] = i] /\ UNCHANGED lease
    <3>1. row[w] = NoRow
      BY <1>2 DEF Deliver, At, TypeInv, HandlerInv
    <3>2. Lease!Pick(w, i)
      BY <2>1, <2>3, <3>1, LeaseStatusMaps DEF Lease!Pick
    <3> QED
      BY <3>2 DEF Lease!Next
  <2> QED
    BY <1>2, <2>2, <2>3 DEF Deliver
<1>3. ASSUME NEW w \in Workers, Write(w)
      PROVE  Lease!Next \/ UNCHANGED Lease!vars
  <2>0. pc[w] # "idle"
    BY <1>3 DEF Write, At
  <2>1. CASE Clashes(w)
    BY <1>1, <1>3, <2>1 DEF Write, inboxVars
  <2>2. CASE ~Clashes(w) /\ ~Holds(w)
    BY <1>3, <2>0, <2>2, InboxLeaves DEF Write, inboxVars
  <2>3. CASE ~Clashes(w) /\ Holds(w)
    BY <1>3, <2>3, WriteCases, InboxSettles DEF Settled
  <2> QED
    BY <2>1, <2>2, <2>3
<1>4. ASSUME NEW w \in Workers, CloseRow(w)
      PROVE  Lease!Next \/ UNCHANGED Lease!vars
  <2>1. pc[w] = "close" /\ ctx[w].outcome \in {"RETRY"} \cup Settled /\ Leave(w)
    BY <1>4 DEF CloseRow, At, TypeInv, HandlerInv
  <2> QED
    BY <1>4, <2>1, InboxLeaves, InboxSettles DEF CloseRow, inboxVars
<1>5. ASSUME NEW w \in Workers, Read(w) \/ Crash(w) \/ DatabaseError(w)
      PROVE  Lease!Next \/ UNCHANGED Lease!vars
  <2>1. UNCHANGED <<inbox, lockedBy, attempts>> /\ pc[w] # "idle"
    BY <1>5 DEF Read, Crash, DatabaseError, At, inboxVars
  <2>2. Leave(w) \/ UNCHANGED <<row, lease>>
    BY <1>5 DEF Read, Crash, DatabaseError
  <2> QED
    BY <1>1, <2>1, <2>2, InboxLeaves
<1>6. ASSUME NEW i \in Inboxes, Receive(i)
      PROVE  Lease!Next \/ UNCHANGED Lease!vars
  <2>1. inbox[i] = "NONE" /\ inbox' = [inbox EXCEPT ![i] = "PENDING"]
        /\ UNCHANGED <<lockedBy, attempts, row, lease>>
    BY <1>6 DEF Receive, handlerVars
  <2>2. LeaseStatus' = LeaseStatus
    <3>1. \A j \in Inboxes : LeaseName(inbox'[j]) = LeaseName(inbox[j])
      BY <2>1 DEF TypeInv, RowsTyped, LeaseName
    <3> QED
      BY <3>1, LeaseStatusMaps
  <2> QED
    BY <2>1, <2>2 DEF Lease!vars
<1>7. ASSUME NEW i \in Inboxes, Recover(i)
      PROVE  Lease!Next
  <2>1. LeaseStatus[i] = "PROCESSING" /\ LeaseStatus' = [LeaseStatus EXCEPT ![i] = "RETRY"]
    BY <1>7, LeaseStatusMaps, LeaseStatusChanges DEF Recover, LeaseName
  <2>2. Lease!Recover(i)
    BY <1>7, <2>1 DEF Recover, handlerVars, Lease!Recover
  <2> QED
    BY <2>2 DEF Lease!Next
<1>8. CASE \/ \E i \in Inboxes : LeaseLapses(i) \/ BecomesDue(i) \/ LoseSignal(i) \/ Enqueue(i)
           \/ LeadStep \/ \E m \in Messages : Sent(m)
           \/ UNCHANGED vars
  <2>1. UNCHANGED <<inbox, lockedBy, attempts, row, lease>>
    BY <1>8 DEF LeaseLapses, BecomesDue, LoseSignal, Enqueue, LeadStep, ReadBacklog, LinkLead,
                Sent, vars, inboxVars,
                handlerVars
  <2> QED
    BY <1>1, <2>1
<1> QED
  BY <1>2, <1>3, <1>4, <1>5, <1>6, <1>7, <1>8, InboxClaims DEF Next, Handle, LeadStep

(* Every behaviour of the inbound processor is one of OutboxLease, so what
   OutboxLeaseProofs shows of leases holds of InboxRecord too: no two handlers
   share a lease and a closed row stays closed. *)
THEOREM InboxImplementsLease == Spec => InboxLeaseSpec
<1>1. Init => Lease!Init
  <2>1. Init => LeaseStatus = [i \in Inboxes |-> "PENDING"]
    BY DEF Init, LeaseStatus
  <2> QED
    BY <2>1 DEF Init, Lease!Init
<1> QED
  BY <1>1, TypeInit, TypeStep, InboxStepMaps, PTL DEF Spec, InboxLeaseSpec, Lease!Spec
=============================================================================
