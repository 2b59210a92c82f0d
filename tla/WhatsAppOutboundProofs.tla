----------------------- MODULE WhatsAppOutboundProofs -----------------------
(***************************************************************************)
(* What is proved of WhatsAppOutbound for every value of its constants.    *)
(***************************************************************************)
EXTENDS WhatsAppOutbound, FiniteSetTheorems, TLAPS

(* A handler has a row exactly while it runs, a token only after its claim,
   and an outcome when it comes to write one; only a row that a recipient
   links is deferred or cancelled; the steps of a send belong to a SEND row. *)
HandlerInv ==
    \A w \in Workers :
        /\ pc[w] = "idle" <=> row[w] = NoRow
        /\ pc[w] \in {"idle", "claim"} => lease[w] = 0 /\ ctx[w].outcome = "NONE"
        /\ pc[w] \in {"count", "commit"} => ctx[w].outcome # "NONE"
        /\ ctx[w].outcome \in {"DEFERRED", "CANCELLED"} =>
              row[w] \in Broadcasted /\ ~ctx[w].only
        /\ pc[w] = "act" => Action[row[w]] # "SEND"
        /\ pc[w] \in {"idle", "claim"} => ~ctx[w].only
        /\ ctx[w].only => Action[row[w]] # "SEND"
        /\ pc[w] \in {"load", "recipient", "schedule", "upload", "storeUpload",
                      "window", "send", "journal"} => Action[row[w]] = "SEND"

HandlersInv == HandlersTyped /\ HandlerInv
TypeInv == RowsTyped /\ ProjectionsTyped /\ OutsideTyped /\ HandlersInv

LEMMA TypeInit == Init => TypeInv
<1> SUFFICES ASSUME Init PROVE TypeInv
  OBVIOUS
<1>1. RowsTyped
  BY DEF Init, RowsTyped, Terminal
<1>2. ProjectionsTyped
  BY DEF Init, ProjectionsTyped
<1>3. OutsideTyped
  <2>1. jobs \subseteq Outboxes
    BY DEF Init, Sends
  <2>2. retry \in [Retries -> [step : {"none", "checked", "read", "done"},
                              ids : SUBSET Broadcasted]]
    BY DEF Init
  <2> QED
    BY <2>1, <2>2, WhatsAppAssumption DEF Init, OutsideTyped
<1>4. HandlersInv
  BY WhatsAppAssumption
     DEF Init, HandlersInv, HandlersTyped, HandlerInv, NoCtx, Ctx, Steps, Terminal
<1> QED
  BY <1>1, <1>2, <1>3, <1>4 DEF TypeInv
-----------------------------------------------------------------------------
(* The ways a handler moves: it leaves, it decides, or it goes on. *)
LEMMA LeaveKeeps ==
    ASSUME HandlersInv, NEW w \in Workers, Leave(w)
    PROVE  HandlersInv'
<1>1. NoCtx \in Ctx /\ NoCtx.outcome = "NONE" /\ ~NoCtx.only
  BY DEF NoCtx, Ctx, Terminal
<1> HIDE DEF NoCtx
<1> QED
  BY <1>1, WhatsAppAssumption DEF HandlersInv, HandlersTyped, HandlerInv, Leave, Steps

LEMMA CtxType ==
    ASSUME HandlersTyped, NEW w \in Workers,
           NEW outcome \in Terminal \cup {"RETRY", "DEFERRED", "CANCELLED"},
           NEW code \in {"NONE", "RECIPIENT", "OTHER"},
           NEW only \in BOOLEAN, NEW caught \in BOOLEAN,
           Decide(w, outcome, code, only, caught)
    PROVE  /\ ctx' \in [Workers -> Ctx]
           /\ pc' \in [Workers -> Steps]
           /\ pc'[w] \in {"count", "commit"}
           /\ ctx'[w].outcome = outcome /\ ctx'[w].only = only
           /\ \A v \in Workers \ {w} : pc'[v] = pc[v] /\ ctx'[v] = ctx[v]
<1> DEFINE new == [ctx[w] EXCEPT !.outcome = outcome, !.code = code,
                              !.only = only, !.caught = caught]
<1>1. ctx[w] \in Ctx /\ ctx \in [Workers -> Ctx] /\ pc \in [Workers -> Steps]
  BY DEF HandlersTyped
<1>2. new \in Ctx /\ new.outcome = outcome /\ new.only = only
  BY <1>1 DEF Ctx, Terminal
<1>3. ctx' = [ctx EXCEPT ![w] = new]
  BY DEF Decide
<1>4. PICK s \in {"count", "commit"} : pc' = [pc EXCEPT ![w] = s]
  BY DEF Decide, Goto
<1> HIDE DEF new
<1> QED
  BY <1>1, <1>2, <1>3, <1>4 DEF Steps

LEMMA DecideKeeps ==
    ASSUME HandlersInv, NEW w \in Workers, pc[w] # "idle", pc[w] # "claim",
           NEW outcome \in Terminal \cup {"RETRY", "DEFERRED", "CANCELLED"},
           NEW code \in {"NONE", "RECIPIENT", "OTHER"},
           NEW only \in BOOLEAN, NEW caught \in BOOLEAN,
           outcome \in {"DEFERRED", "CANCELLED"} => row[w] \in Broadcasted /\ ~only,
           only => Action[row[w]] # "SEND",
           Decide(w, outcome, code, only, caught), UNCHANGED <<row, lease>>
    PROVE  HandlersInv'
<1>1. HandlersTyped
  BY DEF HandlersInv
<1>2. /\ ctx' \in [Workers -> Ctx]
      /\ pc' \in [Workers -> Steps]
      /\ pc'[w] \in {"count", "commit"}
      /\ ctx'[w].outcome = outcome /\ ctx'[w].only = only
      /\ \A v \in Workers \ {w} : pc'[v] = pc[v] /\ ctx'[v] = ctx[v]
  BY <1>1, CtxType
<1> QED
  BY <1>2 DEF HandlersInv, HandlersTyped, HandlerInv, Terminal

LEMMA GotoKeeps ==
    ASSUME HandlersInv, NEW w \in Workers, pc[w] # "idle", pc[w] # "claim",
           NEW where \in Steps \ {"idle", "claim", "count", "commit"}, Goto(w, where),
           where \notin {"act", "start"} => Action[row[w]] = "SEND",
           where = "act" => Action[row[w]] # "SEND",
           UNCHANGED <<row, lease, ctx>>
    PROVE  HandlersInv'
BY DEF HandlersInv, HandlersTyped, HandlerInv, Goto, Steps

(* RetryOrFail() is one of the outcomes. *)
LEMMA RetryType == ASSUME NEW w PROVE RetryOrFail(w) \in {"FAILED", "RETRY"}
BY DEF RetryOrFail

LEMMA FailKeeps ==
    ASSUME HandlersInv, NEW w \in Workers, pc[w] # "idle", pc[w] # "claim",
           FailPermanently(w), UNCHANGED <<row, lease>>
    PROVE  HandlersInv'
BY DecideKeeps DEF FailPermanently, Terminal

LEMMA RetryKeeps ==
    ASSUME HandlersInv, NEW w \in Workers, pc[w] # "idle", pc[w] # "claim",
           RetryPreparation(w), UNCHANGED <<row, lease>>
    PROVE  HandlersInv'
BY RetryType, DecideKeeps DEF RetryPreparation, Terminal
-----------------------------------------------------------------------------
(* One lemma per group of actions: the types of the parts they write. *)
ColumnsTyped == RowsTyped /\ ProjectionsTyped /\ OutsideTyped

LEMMA DeliverType ==
    ASSUME TypeInv, NEW w \in Workers, NEW o \in Outboxes, Deliver(w, o)
    PROVE  TypeInv'
<1>1. ColumnsTyped'
  BY DEF TypeInv, ColumnsTyped, RowsTyped, ProjectionsTyped, OutsideTyped, controlVars, Deliver,
         rowVars, projVars, metaVars
<1>2. HandlersInv'
  <2>1. CASE UNCHANGED handlerVars
    BY <2>1 DEF TypeInv, HandlersInv, HandlersTyped, HandlerInv, handlerVars
  <2>2. CASE /\ Goto(w, "claim")
             /\ row' = [row EXCEPT ![w] = o]
             /\ ctx' = [ctx EXCEPT ![w] = [@ EXCEPT !.tries = attempts[o] + 1,
                                          !.journal = journal[o], !.media = media[o]]]
             /\ UNCHANGED lease
    <3> DEFINE new == [ctx[w] EXCEPT !.tries = attempts[o] + 1,
                                   !.journal = journal[o], !.media = media[o]]
    <3>a. ctx[w] \in Ctx /\ attempts[o] + 1 \in Nat /\ journal[o] \in Nat
          /\ media[o] \in BOOLEAN
      BY DEF TypeInv, HandlersInv, HandlersTyped, RowsTyped
    <3>1. new \in Ctx
      BY <3>a DEF Ctx
    <3>2. new.outcome = ctx[w].outcome /\ new.only = ctx[w].only
      BY <3>a DEF Ctx
    <3>3. ctx' = [ctx EXCEPT ![w] = new]
      BY <2>2
    <3> HIDE DEF new
    <3> QED
      BY <2>2, <3>1, <3>2, <3>3, WhatsAppAssumption
         DEF TypeInv, HandlersInv, HandlersTyped, HandlerInv, Deliver, Goto, At, Steps
  <2> QED
    BY <2>1, <2>2 DEF Deliver
<1> QED
  BY <1>1, <1>2 DEF TypeInv, ColumnsTyped

LEMMA ClaimType ==
    ASSUME TypeInv, NEW w \in Workers, Claim(w)
    PROVE  TypeInv'
<1>0. row[w] \in Outboxes
  BY WhatsAppAssumption DEF TypeInv, HandlersInv, HandlersTyped, HandlerInv, Claim, At
<1>1. ProjectionsTyped' /\ UNCHANGED <<jobs, metaVars, faults, controlVars>>
  BY DEF TypeInv, ProjectionsTyped, Claim, projVars
<1>2. CASE Claimable(row[w])
  <2>0. /\ status' = [status EXCEPT ![row[w]] = "PROCESSING"]
        /\ attempts' = [attempts EXCEPT ![row[w]] = attempts[row[w]] + 1]
        /\ leases' = [leases EXCEPT ![row[w]] = leases[row[w]] + 1]
        /\ lockedBy' = [lockedBy EXCEPT ![row[w]] = leases[row[w]] + 1]
        /\ lapsed' = [lapsed EXCEPT ![row[w]] = FALSE]
        /\ UNCHANGED <<due, journal, media>>
        /\ \/ UNCHANGED gap
           \/ gap' = [gap EXCEPT ![row[w]] = gap[row[w]] + 1]
    BY <1>2 DEF Claim, TypeInv, OutsideTyped
  <2>1. RowsTyped' /\ OutsideTyped'
    <3>1. RowsTyped'
      BY <1>0, <2>0 DEF TypeInv, RowsTyped
    <3>2. OutsideTyped'
      BY <1>0, <1>1, <2>0 DEF TypeInv, OutsideTyped, controlVars, metaVars
    <3> QED
      BY <3>1, <3>2
  <2>2. HandlersInv'
    BY <1>0, <1>2 DEF TypeInv, RowsTyped, HandlersInv, HandlersTyped, HandlerInv, Claim,
                      Goto, At, Steps
  <2> QED
    BY <1>1, <2>1, <2>2 DEF TypeInv
<1>3. CASE ~Claimable(row[w])
  <2>1. HandlersInv'
    BY <1>3, LeaveKeeps DEF TypeInv, Claim
  <2>2. RowsTyped' /\ OutsideTyped'
    BY <1>1, <1>3 DEF TypeInv, RowsTyped, OutsideTyped, controlVars, Claim, rowVars, metaVars
  <2> QED
    BY <1>1, <2>1, <2>2 DEF TypeInv
<1> QED
  BY <1>2, <1>3

(* A handler that is at a step of a row has the row. *)
LEMMA BusyHasRow ==
    ASSUME TypeInv, NEW w \in Workers, pc[w] # "idle"
    PROVE  row[w] \in Outboxes /\ Msg(w) \in Messages
BY WhatsAppAssumption DEF TypeInv, HandlersInv, HandlersTyped, HandlerInv, Msg

LEMMA ReadConnectionType ==
    ASSUME TypeInv, NEW w \in Workers, ReadConnection(w)
    PROVE  TypeInv'
<1>0. pc[w] = "start" /\ row[w] \in Outboxes /\ UNCHANGED <<row, lease>>
  BY BusyHasRow DEF ReadConnection, At
<1>1. ColumnsTyped'
  BY DEF TypeInv, ColumnsTyped, RowsTyped, ProjectionsTyped, OutsideTyped, controlVars,
         ReadConnection,
         rowVars, projVars, metaVars
<1>2. \/ FailPermanently(w)
      \/ Goto(w, "act") /\ UNCHANGED ctx /\ Action[row[w]] # "SEND"
      \/ Decide(w, "SUCCEEDED", "NONE", FALSE, FALSE)
      \/ Goto(w, "load") /\ UNCHANGED ctx /\ Action[row[w]] = "SEND"
  BY <1>0 DEF ReadConnection, Sends
<1>3. HandlersInv'
  <2>1. CASE FailPermanently(w)
    BY <1>0, <2>1, FailKeeps DEF TypeInv
  <2>2. CASE Goto(w, "act") /\ UNCHANGED ctx /\ Action[row[w]] # "SEND"
    BY <1>0, <2>2, GotoKeeps DEF TypeInv, Steps
  <2>3. CASE Decide(w, "SUCCEEDED", "NONE", FALSE, FALSE)
    BY <1>0, <2>3, DecideKeeps DEF TypeInv, Terminal
  <2>4. CASE Goto(w, "load") /\ UNCHANGED ctx /\ Action[row[w]] = "SEND"
    BY <1>0, <2>4, GotoKeeps DEF TypeInv, Steps
  <2> QED
    BY <1>2, <2>1, <2>2, <2>3, <2>4
<1> QED
  BY <1>1, <1>3 DEF TypeInv, ColumnsTyped

LEMMA LoadRecipientType ==
    ASSUME TypeInv, NEW w \in Workers, LoadRecipient(w)
    PROVE  TypeInv'
<1>0. /\ pc[w] = "load" /\ row[w] \in Outboxes /\ UNCHANGED <<row, lease>>
      /\ Action[row[w]] = "SEND"
  BY BusyHasRow DEF TypeInv, HandlersInv, HandlerInv, LoadRecipient, At
<1>1. ColumnsTyped'
  BY DEF TypeInv, ColumnsTyped, RowsTyped, ProjectionsTyped, OutsideTyped, controlVars,
         LoadRecipient,
         rowVars, projVars, metaVars
<1>2. \/ \E where \in {"schedule", "recipient"} : Goto(w, where) /\ UNCHANGED ctx
      \/ /\ row[w] \in Broadcasted
         /\ \E outcome \in {"DEFERRED", "CANCELLED"} :
               Decide(w, outcome, "NONE", FALSE, FALSE)
  BY DEF LoadRecipient
<1>3. HandlersInv'
  <2>1. CASE \E where \in {"schedule", "recipient"} : Goto(w, where) /\ UNCHANGED ctx
    BY <1>0, <2>1, GotoKeeps DEF TypeInv, Steps
  <2>2. CASE /\ row[w] \in Broadcasted
             /\ \E outcome \in {"DEFERRED", "CANCELLED"} :
                   Decide(w, outcome, "NONE", FALSE, FALSE)
    BY <1>0, <2>2, DecideKeeps DEF TypeInv
  <2> QED
    BY <1>2, <2>1, <2>2
<1> QED
  BY <1>1, <1>3 DEF TypeInv, ColumnsTyped

LEMMA MarkType ==
    ASSUME TypeInv, NEW w \in Workers, MarkRecipient(w) \/ MarkScheduled(w)
    PROVE  TypeInv'
<1>0. /\ pc[w] \in {"recipient", "schedule"} /\ row[w] \in Outboxes
      /\ UNCHANGED <<row, lease, ctx>> /\ Action[row[w]] = "SEND" /\ Msg(w) \in Messages
  BY BusyHasRow DEF TypeInv, HandlersInv, HandlerInv, MarkRecipient, MarkScheduled, At
<1>1. RowsTyped' /\ OutsideTyped'
  BY DEF TypeInv, RowsTyped, OutsideTyped, controlVars, MarkRecipient, MarkScheduled, rowVars,
         metaVars
<1>2. ProjectionsTyped'
  BY <1>0 DEF TypeInv, ProjectionsTyped, MarkRecipient, MarkScheduled
<1>3. PICK where \in {"schedule", "upload", "window"} : Goto(w, where)
  BY DEF MarkRecipient, MarkScheduled
<1>4. HandlersInv'
  BY <1>0, <1>3, GotoKeeps DEF TypeInv, Steps
<1> QED
  BY <1>1, <1>2, <1>4 DEF TypeInv

LEMMA UploadMediaType ==
    ASSUME TypeInv, NEW w \in Workers, UploadMedia(w)
    PROVE  TypeInv'
<1>0. pc[w] = "upload" /\ row[w] \in Outboxes /\ UNCHANGED <<row, lease>>
      /\ Action[row[w]] = "SEND"
  BY BusyHasRow DEF TypeInv, HandlersInv, HandlerInv, UploadMedia, At
<1>1. RowsTyped' /\ ProjectionsTyped'
  BY DEF TypeInv, RowsTyped, ProjectionsTyped, UploadMedia, rowVars, projVars
<1>2. OutsideTyped'
  <2>1. /\ \/ uploads' = [uploads EXCEPT ![row[w]] = uploads[row[w]] + 1]
           \/ UNCHANGED uploads
        /\ UNCHANGED <<jobs, accepted, gap, faults, controlVars>>
    BY DEF UploadMedia
  <2> QED
    BY <1>0, <2>1 DEF TypeInv, OutsideTyped, controlVars
<1>3. HandlersInv'
  <2>1. CASE Goto(w, "storeUpload") /\ UNCHANGED ctx
    BY <1>0, <2>1, GotoKeeps DEF TypeInv, Steps
  <2>2. CASE Decide(w, "UNKNOWN", "NONE", FALSE, FALSE)
    BY <1>0, <2>2, DecideKeeps DEF TypeInv, Terminal
  <2>3. CASE FailPermanently(w) \/ RetryPreparation(w)
    BY <1>0, <2>3, FailKeeps, RetryKeeps DEF TypeInv
  <2> QED
    BY <2>1, <2>2, <2>3 DEF UploadMedia
<1> QED
  BY <1>1, <1>2, <1>3 DEF TypeInv

LEMMA StoreUploadType ==
    ASSUME TypeInv, NEW w \in Workers, StoreUpload(w)
    PROVE  TypeInv'
<1>0. /\ pc[w] = "storeUpload" /\ row[w] \in Outboxes /\ UNCHANGED <<row, lease>>
      /\ Action[row[w]] = "SEND" /\ ctx \in [Workers -> Ctx] /\ ctx[w] \in Ctx
  BY BusyHasRow DEF TypeInv, HandlersInv, HandlersTyped, HandlerInv, StoreUpload, At
<1>1. ProjectionsTyped' /\ OutsideTyped'
  BY DEF TypeInv, ProjectionsTyped, OutsideTyped, controlVars, StoreUpload, projVars, metaVars
<1>2. CASE Holds(w)
  <2> DEFINE new == [ctx[w] EXCEPT !.media = TRUE]
  <2>1. new \in Ctx /\ new.outcome = ctx[w].outcome /\ new.only = ctx[w].only
    BY <1>0 DEF Ctx
  <2>2. /\ media' = [media EXCEPT ![row[w]] = TRUE]
        /\ journal' = [journal EXCEPT ![row[w]] = ctx[w].journal]
        /\ ctx' = [ctx EXCEPT ![w] = new]
        /\ pc' = [pc EXCEPT ![w] = "window"]
    BY <1>2 DEF StoreUpload, Goto
  <2>3. ctx[w].journal \in Nat
    BY <1>0 DEF Ctx
  <2> HIDE DEF new
  <2>4. RowsTyped'
    BY <1>0, <2>2, <2>3 DEF TypeInv, RowsTyped, StoreUpload
  <2>5. HandlersInv'
    BY <1>0, <2>1, <2>2 DEF TypeInv, HandlersInv, HandlersTyped, HandlerInv, Steps
  <2> QED
    BY <1>1, <2>4, <2>5 DEF TypeInv
<1>3. CASE ~Holds(w)
  <2>1. HandlersInv'
    BY <1>0, <1>3, DecideKeeps DEF TypeInv, Terminal, StoreUpload
  <2>2. RowsTyped'
    BY <1>3 DEF TypeInv, RowsTyped, StoreUpload
  <2> QED
    BY <1>1, <2>1, <2>2 DEF TypeInv
<1> QED
  BY <1>2, <1>3

LEMMA CheckWindowType ==
    ASSUME TypeInv, NEW w \in Workers, CheckWindow(w)
    PROVE  TypeInv'
<1>0. pc[w] = "window" /\ row[w] \in Outboxes /\ UNCHANGED <<row, lease>>
      /\ Action[row[w]] = "SEND"
  BY BusyHasRow DEF TypeInv, HandlersInv, HandlerInv, CheckWindow, At
<1>1. ColumnsTyped'
  BY DEF TypeInv, ColumnsTyped, RowsTyped, ProjectionsTyped, OutsideTyped, controlVars,
         CheckWindow,
         rowVars, projVars, metaVars
<1>2. HandlersInv'
  <2>1. CASE Goto(w, "send") /\ UNCHANGED ctx
    BY <1>0, <2>1, GotoKeeps DEF TypeInv, Steps
  <2>2. CASE FailPermanently(w) \/ Decide(w, "FAILED", "NONE", FALSE, FALSE)
    BY <1>0, <2>2, FailKeeps, DecideKeeps DEF TypeInv, Terminal
  <2> QED
    BY <2>1, <2>2 DEF CheckWindow, Unsendable
<1> QED
  BY <1>1, <1>2 DEF TypeInv, ColumnsTyped

LEMMA CallProviderType ==
    ASSUME TypeInv, NEW w \in Workers, CallProvider(w)
    PROVE  TypeInv'
<1>0. /\ pc[w] = "send" /\ row[w] \in Outboxes /\ UNCHANGED <<row, lease>>
      /\ Action[row[w]] = "SEND" /\ ctx \in [Workers -> Ctx] /\ ctx[w] \in Ctx
      /\ accepted[row[w]] + 1 \in Nat /\ gap[row[w]] + 1 \in Nat
  BY BusyHasRow
     DEF TypeInv, OutsideTyped, controlVars, HandlersInv, HandlersTyped, HandlerInv,
         CallProvider, At
<1>1. RowsTyped' /\ ProjectionsTyped'
  BY DEF TypeInv, RowsTyped, ProjectionsTyped, CallProvider, rowVars, projVars
<1>2. OutsideTyped'
  <2>1. /\ UNCHANGED accepted \/ accepted' = [accepted EXCEPT ![row[w]] = accepted[row[w]] + 1]
        /\ UNCHANGED gap \/ gap' = [gap EXCEPT ![row[w]] = gap[row[w]] + 1]
        /\ UNCHANGED <<jobs, uploads, faults, controlVars>>
    BY DEF CallProvider
  <2> QED
    BY <1>0, <2>1 DEF TypeInv, OutsideTyped, controlVars
<1>3. HandlersInv'
  <2>1. CASE /\ ctx' = [ctx EXCEPT ![w] = [@ EXCEPT !.wamid = accepted[row[w]] + 1]]
             /\ Goto(w, "journal")
    <3> DEFINE new == [ctx[w] EXCEPT !.wamid = accepted[row[w]] + 1]
    <3>1. new \in Ctx /\ new.outcome = ctx[w].outcome /\ new.only = ctx[w].only
      BY <1>0 DEF Ctx
    <3>2. ctx' = [ctx EXCEPT ![w] = new] /\ pc' = [pc EXCEPT ![w] = "journal"]
      BY <2>1 DEF Goto
    <3> HIDE DEF new
    <3> QED
      BY <1>0, <3>1, <3>2 DEF TypeInv, HandlersInv, HandlersTyped, HandlerInv, Steps
  <2>2. CASE Decide(w, "UNKNOWN", "NONE", FALSE, FALSE)
    BY <1>0, <2>2, DecideKeeps DEF TypeInv, Terminal
  <2>3. CASE \E code \in {"RECIPIENT", "OTHER"} : Decide(w, "FAILED", code, FALSE, FALSE)
    BY <1>0, <2>3, DecideKeeps DEF TypeInv, Terminal
  <2>4. CASE Decide(w, RetryOrFail(w), "NONE", FALSE, FALSE)
    BY <1>0, <2>4, RetryType, DecideKeeps DEF TypeInv, Terminal
  <2> QED
    BY <2>1, <2>2, <2>3, <2>4 DEF CallProvider, SendFails
<1> QED
  BY <1>1, <1>2, <1>3 DEF TypeInv

LEMMA CallActionType ==
    ASSUME TypeInv, NEW w \in Workers, CallAction(w)
    PROVE  TypeInv'
<1>0. pc[w] = "act" /\ row[w] \in Outboxes /\ UNCHANGED <<row, lease>>
      /\ Action[row[w]] # "SEND"
  BY BusyHasRow DEF TypeInv, HandlersInv, HandlerInv, CallAction, At
<1>1. ColumnsTyped'
  BY DEF TypeInv, ColumnsTyped, RowsTyped, ProjectionsTyped, OutsideTyped, controlVars,
         CallAction,
         rowVars, projVars, metaVars
<1>2. HandlersInv'
  BY <1>0, RetryType, DecideKeeps DEF TypeInv, CallAction, Terminal
<1> QED
  BY <1>1, <1>2 DEF TypeInv, ColumnsTyped

LEMMA JournalType ==
    ASSUME TypeInv, NEW w \in Workers, Journal(w)
    PROVE  TypeInv'
<1>0. /\ pc[w] = "journal" /\ row[w] \in Outboxes /\ ctx \in [Workers -> Ctx]
      /\ ctx[w] \in Ctx
  BY BusyHasRow DEF TypeInv, HandlersInv, HandlersTyped, HandlerInv, Journal, At
<1>1. ProjectionsTyped'
  BY DEF TypeInv, ProjectionsTyped, Journal, projVars
<1>2. OutsideTyped'
  BY <1>0 DEF TypeInv, OutsideTyped, controlVars, Journal, MayRunAgain, metaVars
<1>3. CASE Holds(w)
  <2> DEFINE new == [ctx[w] EXCEPT !.journal = ctx[w].wamid, !.outcome = "SUCCEEDED"]
  <2>1. new \in Ctx /\ new.outcome = "SUCCEEDED" /\ ctx[w].wamid \in Nat
        /\ ctx[w].media \in BOOLEAN /\ new.only = ctx[w].only
    BY <1>0 DEF Ctx, Terminal
  <2>2. /\ journal' = [journal EXCEPT ![row[w]] = ctx[w].wamid]
        /\ media' = [media EXCEPT ![row[w]] = ctx[w].media]
        /\ ctx' = [ctx EXCEPT ![w] = new]
        /\ \E where \in {"count", "commit"} : pc' = [pc EXCEPT ![w] = where]
        /\ UNCHANGED <<row, lease>>
    BY <1>3 DEF Journal, Goto
  <2> HIDE DEF new
  <2>3. RowsTyped'
    BY <1>0, <2>1, <2>2 DEF TypeInv, RowsTyped, Journal
  <2>4. HandlersInv'
    BY <1>0, <2>1, <2>2 DEF TypeInv, HandlersInv, HandlersTyped, HandlerInv, Steps
  <2> QED
    BY <1>1, <1>2, <2>3, <2>4 DEF TypeInv
<1>4. CASE ~Holds(w)
  <2>1. HandlersInv'
    BY <1>4, LeaveKeeps DEF TypeInv, Journal
  <2>2. RowsTyped'
    BY <1>4 DEF TypeInv, RowsTyped, Journal
  <2> QED
    BY <1>1, <1>2, <2>1, <2>2 DEF TypeInv
<1> QED
  BY <1>3, <1>4

LEMMA CountRecipientsType ==
    ASSUME TypeInv, NEW w \in Workers, CountRecipients(w)
    PROVE  TypeInv'
<1>0. /\ pc[w] = "count" /\ row[w] \in Outboxes /\ ctx \in [Workers -> Ctx]
      /\ ctx[w] \in Ctx
  BY BusyHasRow DEF TypeInv, HandlersInv, HandlersTyped, HandlerInv, CountRecipients, At
<1>1. ColumnsTyped'
  BY DEF TypeInv, ColumnsTyped, RowsTyped, ProjectionsTyped, OutsideTyped, controlVars,
         CountRecipients,
         rowVars, projVars, metaVars
<1>2. HandlersInv'
  <2>1. PICK new : /\ new \in Ctx /\ new.outcome = ctx[w].outcome /\ new.only = ctx[w].only
                   /\ ctx' = [ctx EXCEPT ![w] = new]
    <3> DEFINE alone == \A m \in Messages \ {Msg(w)} : recipient[m] \notin NonTerminal
    <3>1. ctx' = [ctx EXCEPT ![w] = [ctx[w] EXCEPT !.alone = alone]]
      BY DEF CountRecipients
    <3>2. alone \in BOOLEAN
      OBVIOUS
    <3> HIDE DEF alone
    <3>3. [ctx[w] EXCEPT !.alone = alone] \in Ctx
      BY <1>0, <3>2 DEF Ctx
    <3>4. /\ [ctx[w] EXCEPT !.alone = alone].outcome = ctx[w].outcome
          /\ [ctx[w] EXCEPT !.alone = alone].only = ctx[w].only
      BY <1>0 DEF Ctx
    <3> QED
      BY <3>1, <3>3, <3>4
  <2>2. pc' = [pc EXCEPT ![w] = "commit"] /\ UNCHANGED <<row, lease>>
    BY DEF CountRecipients, Goto
  <2> QED
    BY <1>0, <2>1, <2>2 DEF TypeInv, HandlersInv, HandlersTyped, HandlerInv, Steps
<1> QED
  BY <1>1, <1>2 DEF TypeInv, ColumnsTyped

(* The row's side of an outcome. *)
LEMMA ReleaseType ==
    ASSUME RowsTyped, NEW w \in Workers, row[w] \in Outboxes,
           NEW newStatus \in {"RETRY"} \cup Terminal, Release(w, newStatus)
    PROVE  RowsTyped'
BY DEF RowsTyped, Release

(* What each outcome writes downstream. *)
LEMMA FinishType ==
    ASSUME ProjectionsTyped, NEW w \in Workers, Msg(w) \in Messages,
           NEW new \in {"SENT", "FAILED", "UNKNOWN"},
           FinishRecipient(w, new), FinishSchedule(Msg(w), new)
    PROVE  /\ recipient' \in [Messages -> {"NONE", "QUEUED", "PROCESSING", "SENT", "FAILED",
                                           "UNKNOWN", "CANCELLED"}]
           /\ broadcast' \in {"RUNNING", "PAUSED", "COMPLETED", "CANCELLED"}
           /\ schedule' \in [Messages -> {"NONE", "QUEUED", "PROCESSING", "SENT", "FAILED",
                                          "UNKNOWN"}]
BY DEF ProjectionsTyped, FinishRecipient, FinishSchedule

(* What a commit writes is decided by the lease and the outcome. *)
LEMMA CommitCases ==
    ASSUME TypeInv, NEW w \in Workers, Commit(w)
    PROVE  \/ ~Holds(w) /\ UNCHANGED <<rowVars, projVars>>
           \/ /\ Holds(w) /\ CommitRowOnly(w) /\ ctx[w].outcome \in {"RETRY"} \cup Terminal
              /\ Action[row[w]] = "SEND" => ctx[w].outcome = "RETRY"
           \/ Holds(w) /\ CommitSent(w) /\ ctx[w].outcome = "SUCCEEDED" /\ ~ctx[w].only
           \/ Holds(w) /\ CommitFailed(w) /\ ctx[w].outcome = "FAILED" /\ ~ctx[w].only
           \/ Holds(w) /\ CommitUnknown(w) /\ ctx[w].outcome = "UNKNOWN" /\ ~ctx[w].only
           \/ Holds(w) /\ CommitDeferred(w) /\ row[w] \in Broadcasted
           \/ /\ Holds(w) /\ CommitCancelled(w) /\ row[w] \in Broadcasted
              /\ ctx[w].outcome = "CANCELLED"
<1>1. ctx[w] \in Ctx /\ ctx[w].outcome # "NONE"
  BY DEF TypeInv, HandlersInv, HandlersTyped, HandlerInv, Commit, At
<1>2. ctx[w].outcome \in Terminal \cup {"RETRY", "DEFERRED", "CANCELLED"}
  BY <1>1 DEF Ctx
<1>3. /\ ctx[w].outcome \in {"DEFERRED", "CANCELLED"} => row[w] \in Broadcasted /\ ~ctx[w].only
      /\ ctx[w].only => Action[row[w]] # "SEND"
  BY DEF TypeInv, HandlersInv, HandlerInv
<1> QED
  BY <1>2, <1>3 DEF Commit, Terminal

LEMMA CommitType ==
    ASSUME TypeInv, NEW w \in Workers, Commit(w)
    PROVE  TypeInv'
<1>0. /\ pc[w] = "commit" /\ row[w] \in Outboxes /\ Msg(w) \in Messages
      /\ ctx[w] \in Ctx /\ ctx[w].outcome # "NONE"
  BY BusyHasRow DEF TypeInv, HandlersInv, HandlersTyped, HandlerInv, Commit, At
<1>1. HandlersInv'
  BY LeaveKeeps DEF TypeInv, Commit
<1>2. OutsideTyped'
  BY <1>0 DEF TypeInv, OutsideTyped, controlVars, Commit, MayRunAgain, metaVars
<1>3. RowsTyped' /\ ProjectionsTyped'
  <2> USE DEF TypeInv
  <2>1. CASE UNCHANGED <<rowVars, projVars>>
    BY <2>1 DEF RowsTyped, ProjectionsTyped, rowVars, projVars
  <2>2. CASE CommitRowOnly(w) /\ ctx[w].outcome \in {"RETRY"} \cup Terminal
    BY <1>0, <2>2, ReleaseType DEF ProjectionsTyped, CommitRowOnly, projVars
  <2>3. CASE CommitSent(w)
    <3>1. RowsTyped'
      BY <1>0, <2>3, ReleaseType DEF CommitSent, Terminal
    <3>2. FinishRecipient(w, "SENT") /\ FinishSchedule(Msg(w), "SENT")
      BY <2>3 DEF CommitSent
    <3>3. ctx[w].journal \in Nat
      BY <1>0 DEF Ctx
    <3> QED
      BY <1>0, <2>3, <3>1, <3>2, <3>3, FinishType
         DEF ProjectionsTyped, CommitSent, StatusIntent
  <2>4. CASE CommitFailed(w)
    <3>1. RowsTyped'
      BY <1>0, <2>4, ReleaseType DEF CommitFailed, Terminal
    <3>2. FinishRecipient(w, "FAILED") /\ FinishSchedule(Msg(w), "FAILED")
      BY <2>4 DEF CommitFailed
    <3> QED
      BY <1>0, <2>4, <3>1, <3>2, FinishType
         DEF ProjectionsTyped, CommitFailed, StatusIntent
  <2>5. CASE CommitUnknown(w)
    <3>1. RowsTyped'
      BY <1>0, <2>5, ReleaseType DEF CommitUnknown, Terminal
    <3>2. FinishRecipient(w, "UNKNOWN") /\ FinishSchedule(Msg(w), "UNKNOWN")
      BY <2>5 DEF CommitUnknown
    <3> QED
      BY <1>0, <2>5, <3>1, <3>2, FinishType
         DEF ProjectionsTyped, CommitUnknown, StatusIntent
  <2>6. CASE CommitDeferred(w)
    BY <1>0, <2>6, ReleaseType DEF ProjectionsTyped, CommitDeferred
  <2>7. CASE CommitCancelled(w)
    BY <1>0, <2>7, ReleaseType DEF ProjectionsTyped, CommitCancelled, Terminal
  <2> QED
    BY <2>1, <2>2, <2>3, <2>4, <2>5, <2>6, <2>7, CommitCases
<1> QED
  BY <1>1, <1>2, <1>3 DEF TypeInv

LEMMA HandleType ==
    ASSUME TypeInv, NEW w \in Workers, Handle(w)
    PROVE  TypeInv'
BY ClaimType, ReadConnectionType, LoadRecipientType, MarkType, UploadMediaType,
   StoreUploadType, CheckWindowType, CallProviderType, CallActionType, JournalType,
   CountRecipientsType, CommitType
   DEF Handle
-----------------------------------------------------------------------------
LEMMA CrashType ==
    ASSUME TypeInv, NEW w \in Workers, Crash(w)
    PROVE  TypeInv'
<1>0. row[w] \in Outboxes
  BY BusyHasRow DEF Crash, At
<1>1. RowsTyped' /\ ProjectionsTyped'
  BY DEF TypeInv, RowsTyped, ProjectionsTyped, Crash, rowVars, projVars
<1>2. OutsideTyped'
  BY <1>0, WhatsAppAssumption
     DEF TypeInv, OutsideTyped, controlVars, Crash, LoseAnswer, MayRunAgain, Fault, metaVars
<1>3. HandlersInv'
  BY LeaveKeeps DEF TypeInv, Crash
<1> QED
  BY <1>1, <1>2, <1>3 DEF TypeInv

LEMMA DatabaseErrorType ==
    ASSUME TypeInv, NEW w \in Workers, DatabaseError(w)
    PROVE  TypeInv'
<1>0. row[w] \in Outboxes
  BY BusyHasRow DEF DatabaseError, At
<1>1. RowsTyped' /\ ProjectionsTyped'
  BY DEF TypeInv, RowsTyped, ProjectionsTyped, DatabaseError, rowVars, projVars
<1>2. OutsideTyped'
  BY <1>0, WhatsAppAssumption
     DEF TypeInv, OutsideTyped, controlVars, DatabaseError, LoseAnswer, MayRunAgain, Fault,
         metaVars
<1>3. HandlersInv'
  BY LeaveKeeps, RetryKeeps DEF TypeInv, DatabaseError, At
<1> QED
  BY <1>1, <1>2, <1>3 DEF TypeInv

(* Time, the queue and the recovery scan write no handler and no projection. *)
LEMMA ScanType ==
    ASSUME TypeInv, NEW o \in Outboxes,
           LeaseLapses(o) \/ BecomesDue(o) \/ LoseSignal(o) \/ Recover(o) \/ Enqueue(o)
    PROVE  TypeInv'
<1>1. ProjectionsTyped' /\ HandlersInv'
  <2>1. UNCHANGED <<projVars, handlerVars>>
    BY DEF LeaseLapses, BecomesDue, LoseSignal, Recover, Enqueue
  <2> QED
    BY <2>1 DEF TypeInv, ProjectionsTyped, HandlersInv, HandlersTyped, HandlerInv,
                projVars, handlerVars
<1>2. RowsTyped'
  <2>1. CASE LoseSignal(o) \/ Enqueue(o)
    BY <2>1 DEF TypeInv, RowsTyped, LoseSignal, Enqueue, rowVars
  <2>2. CASE LeaseLapses(o)
    BY <2>2 DEF TypeInv, RowsTyped, LeaseLapses
  <2>3. CASE BecomesDue(o)
    BY <2>3 DEF TypeInv, RowsTyped, BecomesDue
  <2>4. CASE Recover(o)
    BY <2>4 DEF TypeInv, RowsTyped, Recover
  <2> QED
    BY <2>1, <2>2, <2>3, <2>4
<1>3. OutsideTyped'
  BY WhatsAppAssumption
     DEF TypeInv, OutsideTyped, controlVars, LeaseLapses, BecomesDue, LoseSignal, Recover,
         Enqueue, Fault,
         metaVars
<1> QED
  BY <1>1, <1>2, <1>3 DEF TypeInv

(* A request is a new row. *)
LEMMA RequestType ==
    ASSUME TypeInv, NEW o \in Outboxes, Request(o)
    PROVE  TypeInv'
<1>1. ProjectionsTyped' /\ HandlersInv'
  BY DEF Request, TypeInv, ProjectionsTyped, HandlersInv, HandlersTyped, HandlerInv,
         projVars, handlerVars
<1>2. RowsTyped'
  BY DEF Request, TypeInv, RowsTyped
<1>3. OutsideTyped'
  BY DEF Request, TypeInv, OutsideTyped, controlVars, metaVars
<1> QED
  BY <1>1, <1>2, <1>3 DEF TypeInv

(* What the requests to retry write: the rows they read, by id. *)
LEMMA RetryFacts ==
    ASSUME TypeInv, NEW a \in Retries
    PROVE  /\ retry[a].ids \subseteq Broadcasted /\ Reopened(a) \subseteq Broadcasted
           /\ {MessageOf[o] : o \in retry[a].ids} \subseteq Messages
           /\ retry[a] \in [step : {"none", "checked", "read", "done"}, ids : SUBSET Broadcasted]
<1>1. retry[a] \in [step : {"none", "checked", "read", "done"}, ids : SUBSET Broadcasted]
  BY DEF TypeInv, OutsideTyped
<1>2. retry[a].ids \subseteq Broadcasted
  BY <1>1
<1> QED
  BY <1>1, <1>2, WhatsAppAssumption DEF Reopened

LEMMA RetryStepsType ==
    ASSUME TypeInv, NEW a \in Retries, RetryChecks(a) \/ RetryReads(a)
    PROVE  TypeInv'
<1>1. UNCHANGED <<rowVars, projVars, jobs, metaVars, gap, handlerVars, cancel, waiting, overwritten,
                  late, faults>>
  BY DEF RetryChecks, RetryReads
<1>2. PICK r \in [step : {"none", "checked", "read", "done"}, ids : SUBSET Broadcasted] :
         retry' = [retry EXCEPT ![a] = r]
  <2>1. CASE RetryChecks(a)
    <3>1. retry' = [retry EXCEPT ![a] = [retry[a] EXCEPT !.step = "checked"]]
      BY <2>1 DEF RetryChecks
    <3>2. [retry[a] EXCEPT !.step = "checked"]
             \in [step : {"none", "checked", "read", "done"}, ids : SUBSET Broadcasted]
      BY RetryFacts
    <3> QED
      BY <3>1, <3>2
  <2>2. CASE RetryReads(a)
    BY <2>2 DEF RetryReads
  <2> QED
    BY <2>1, <2>2
<1>3. OutsideTyped'
  BY <1>1, <1>2 DEF TypeInv, OutsideTyped, metaVars
<1>4. RowsTyped' /\ ProjectionsTyped' /\ HandlersInv'
  BY <1>1 DEF TypeInv, RowsTyped, ProjectionsTyped, HandlersInv, HandlersTyped, HandlerInv,
              rowVars, projVars, handlerVars
<1> QED
  BY <1>3, <1>4 DEF TypeInv

LEMMA RetryWritesType ==
    ASSUME TypeInv, NEW a \in Retries, RetryWrites(a)
    PROVE  TypeInv'
<1> DEFINE theirs == {MessageOf[o] : o \in retry[a].ids}
<1>1. /\ theirs \subseteq Messages /\ retry[a].ids \subseteq Broadcasted
      /\ Broadcasted \subseteq Outboxes
  BY RetryFacts, WhatsAppAssumption
<1>2. RowsTyped'
  BY DEF RetryWrites, TypeInv, RowsTyped, Terminal
<1>3. ProjectionsTyped'
  BY DEF RetryWrites, TypeInv, ProjectionsTyped
<1>4. OutsideTyped'
  <2>1. retry' \in [Retries -> [step : {"none", "checked", "read", "done"},
                               ids : SUBSET Broadcasted]]
    BY DEF RetryWrites, TypeInv, OutsideTyped
  <2>2. late' \subseteq Messages
    <3>1. late' \subseteq late \cup theirs
      BY DEF RetryWrites
    <3> QED
      BY <1>1, <3>1 DEF TypeInv, OutsideTyped
  <2>3. overwritten' \subseteq Broadcasted /\ jobs' \subseteq Outboxes
    BY <1>1 DEF RetryWrites, TypeInv, OutsideTyped
  <2>4. UNCHANGED <<metaVars, gap, cancel, waiting, faults>>
    BY DEF RetryWrites
  <2> QED
    BY <2>1, <2>2, <2>3, <2>4 DEF TypeInv, OutsideTyped, metaVars
<1>5. HandlersInv'
  BY DEF RetryWrites, TypeInv, HandlersInv, HandlersTyped, HandlerInv, handlerVars
<1> QED
  BY <1>2, <1>3, <1>4, <1>5 DEF TypeInv

(* The controls but for the requests to retry. *)
Steers == Pause \/ Resume \/ CancelChecks \/ CancelReads \/ CancelWrites \/ CancelFails

LEMMA ControlCases ==
    ASSUME Control
    PROVE  Steers \/ \E a \in Retries : RetryChecks(a) \/ RetryReads(a) \/ RetryWrites(a)
BY DEF Control, Steers

LEMMA SteersType ==
    ASSUME TypeInv, Steers
    PROVE  TypeInv'
<1>1. /\ UNCHANGED <<handlerVars, metaVars, gap, lockedBy, attempts, leases, lapsed, journal, media>>
      /\ UNCHANGED <<retry, overwritten, late>>
      /\ jobs' \subseteq Outboxes
      /\ due' \in [Outboxes -> BOOLEAN]
      /\ faults' \in 0..MaxFaults
      /\ cancel' \in {"none", "checked", "open"}
      /\ waiting' \subseteq Broadcasted
  <2> USE WhatsAppAssumption DEF TypeInv, RowsTyped, OutsideTyped
  <2>1. CASE Pause
    BY <2>1 DEF Pause, rowVars, controlVars
  <2>2. CASE Resume
    BY <2>2 DEF Resume, controlVars
  <2>3. CASE CancelChecks
    BY <2>3 DEF CancelChecks, rowVars
  <2>4. CASE CancelReads
    BY <2>4 DEF CancelReads, rowVars
  <2>5. CASE CancelWrites
    BY <2>5 DEF CancelWrites
  <2>6. CASE CancelFails
    BY <2>6 DEF CancelFails, Fault, rowVars
  <2> QED
    BY <2>1, <2>2, <2>3, <2>4, <2>5, <2>6 DEF Steers
<1>2. HandlersInv' /\ OutsideTyped'
  BY <1>1 DEF TypeInv, OutsideTyped, controlVars, HandlersInv, HandlersTyped, HandlerInv,
              handlerVars, metaVars
<1>3. status' \in [Outboxes -> {"NONE", "PENDING", "RETRY", "PROCESSING"} \cup Terminal]
  <2>1. CASE CancelWrites
    <3>1. \A o \in Outboxes : status'[o] \in {"FAILED", status[o]}
      BY <2>1 DEF CancelWrites
    <3> QED
      BY <2>1, <3>1 DEF TypeInv, RowsTyped, CancelWrites, Terminal
  <2>2. CASE UNCHANGED status
    BY <2>2 DEF TypeInv, RowsTyped
  <2> QED
    BY <2>1, <2>2
       DEF Steers, Pause, Resume, CancelChecks, CancelReads, CancelFails, rowVars
<1>4. RowsTyped'
  BY <1>1, <1>3 DEF TypeInv, RowsTyped
<1>5. ProjectionsTyped'
  BY DEF TypeInv, ProjectionsTyped, Steers, Pause, Resume, CancelChecks, CancelReads,
         CancelWrites, CancelFails, projVars
<1> QED
  BY <1>2, <1>4, <1>5 DEF TypeInv

LEMMA ControlType ==
    ASSUME TypeInv, Control
    PROVE  TypeInv'
BY ControlCases, SteersType, RetryStepsType, RetryWritesType

LEMMA TypeStep == TypeInv /\ [Next]_vars => TypeInv'
<1> SUFFICES ASSUME TypeInv, [Next]_vars PROVE TypeInv'
  OBVIOUS
<1>1. CASE UNCHANGED vars
  BY <1>1 DEF TypeInv, RowsTyped, ProjectionsTyped, OutsideTyped, controlVars, HandlersInv,
              HandlersTyped,
              HandlerInv, vars, rowVars, projVars, metaVars, handlerVars
<1>2. ASSUME NEW w \in Workers,
             Handle(w) \/ Crash(w) \/ DatabaseError(w) \/ \E o \in Outboxes : Deliver(w, o)
      PROVE  TypeInv'
  BY <1>2, HandleType, CrashType, DatabaseErrorType, DeliverType
<1>3. ASSUME NEW o \in Outboxes,
             LeaseLapses(o) \/ BecomesDue(o) \/ LoseSignal(o) \/ Recover(o) \/ Enqueue(o)
      PROVE  TypeInv'
  BY <1>3, ScanType
<1>4. CASE Control
  BY <1>4, ControlType
<1>5. ASSUME NEW o \in Outboxes, Request(o) PROVE TypeInv'
  BY <1>5, RequestType
<1> QED
  BY <1>1, <1>2, <1>3, <1>4, <1>5 DEF Next

(* Rows, projections and handlers keep to the values of their columns, and a
   handler carries a row, a token and an outcome exactly when its step needs
   them (process() and what it calls). *)
THEOREM TypeCorrect == Spec => [](TypeOK /\ HandlerInv)
<1>1. TypeInv => TypeOK /\ HandlerInv
  BY DEF TypeInv, TypeOK, HandlersInv
<1> QED
  BY TypeInit, TypeStep, <1>1, PTL DEF Spec
-----------------------------------------------------------------------------
(* The processor implements the lease protocol: every step is a step of     *)
(* OutboxLease on the columns and handler variables the two share, or        *)
(* changes none of them.                                                     *)
LEMMA LeaseInitMaps == Init => Lease!Init
<1> SUFFICES ASSUME Init PROVE Lease!Init
  OBVIOUS
<1>1. LeaseStatus = [o \in Outboxes |-> "PENDING"]
  BY DEF Init, LeaseStatus
<1> QED
  BY <1>1 DEF Init, Lease!Init

(* The status of the protocol's row moves with the row's. *)
LEMMA LeaseStatusIs ==
    ASSUME NEW o \in Outboxes
    PROVE  LeaseStatus[o] = IF status[o] = "NONE" THEN "PENDING" ELSE status[o]
BY DEF LeaseStatus

LEMMA LeaseStatusStays ==
    ASSUME UNCHANGED status
    PROVE  LeaseStatus' = LeaseStatus
BY DEF LeaseStatus

LEMMA LeaseStatusSet ==
    ASSUME TypeInv, NEW o \in Outboxes, NEW s, s # "NONE", status' = [status EXCEPT ![o] = s]
    PROVE  LeaseStatus' = [LeaseStatus EXCEPT ![o] = s]
BY DEF LeaseStatus, TypeInv, RowsTyped

(* A handler leaves with its row: Drop, whatever made it leave. *)
LEMMA LeaveDrops ==
    ASSUME TypeInv, NEW w \in Workers, pc[w] # "idle", Leave(w),
           UNCHANGED <<status, lockedBy, leases>>
    PROVE  Lease!Next
<1>1. Lease!Drop(w)
  BY LeaseStatusStays DEF TypeInv, HandlersInv, HandlerInv, Leave, Lease!Drop
<1> QED
  BY <1>1 DEF Lease!Next

LEMMA ClaimMaps ==
    ASSUME TypeInv, NEW w \in Workers, Claim(w)
    PROVE  Lease!Next
<1>0. pc[w] = "claim" /\ row[w] \in Outboxes /\ lease[w] = 0
  BY BusyHasRow DEF TypeInv, HandlersInv, HandlerInv, Claim, At
<1>1. CASE Claimable(row[w])
  <2>1. LeaseStatus' = [LeaseStatus EXCEPT ![row[w]] = "PROCESSING"]
    BY <1>0, <1>1, LeaseStatusSet DEF Claim
  <2>2. LeaseStatus[row[w]] \notin Lease!Terminal
    BY <1>0, <1>1, LeaseStatusIs DEF Claimable, Lease!Terminal
  <2>3. /\ leases[row[w]] < MaxLeases
        /\ leases' = [leases EXCEPT ![row[w]] = @ + 1]
        /\ lockedBy' = [lockedBy EXCEPT ![row[w]] = leases[row[w]] + 1]
        /\ lease' = [lease EXCEPT ![w] = leases[row[w]] + 1]
        /\ UNCHANGED row
    BY <1>1 DEF Claim
  <2>4. Lease!Claim(w, row[w])
    BY <1>0, <2>1, <2>2, <2>3 DEF Lease!Claim
  <2> QED
    BY <1>0, <2>4 DEF Lease!Next
<1>2. CASE ~Claimable(row[w])
  BY <1>0, <1>2, LeaveDrops DEF Claim, rowVars
<1> QED
  BY <1>1, <1>2

LEMMA CommitMaps ==
    ASSUME TypeInv, NEW w \in Workers, Commit(w)
    PROVE  Lease!Next
<1>0. pc[w] = "commit" /\ Leave(w)
  BY DEF Commit, At
<1>1. CASE Holds(w)
  <2>1. PICK s \in Terminal \cup {"RETRY"} : Release(w, s)
    BY <1>1, CommitCases
       DEF CommitRowOnly, CommitSent, CommitFailed, CommitUnknown, CommitDeferred,
           CommitCancelled, Terminal
  <2>2. row[w] \in Outboxes /\ s # "NONE"
    BY <1>1, <2>1 DEF Holds, Terminal
  <2>3. LeaseStatus' = [LeaseStatus EXCEPT ![row[w]] = s]
    BY <2>1, <2>2, LeaseStatusSet DEF Release
  <2>4. Lease!Holds(w)
    BY <1>1, <2>2, LeaseStatusIs DEF Holds, Lease!Holds
  <2>5. /\ lockedBy' = [lockedBy EXCEPT ![row[w]] = 0]
        /\ row' = [row EXCEPT ![w] = NoRow] /\ lease' = [lease EXCEPT ![w] = 0]
        /\ UNCHANGED leases
    BY <1>0, <2>1 DEF Release, Leave
  <2>6. Lease!Settle(w)
    BY <2>1, <2>3, <2>4, <2>5 DEF Terminal, Lease!Settle, Lease!Terminal
  <2> QED
    BY <2>6 DEF Lease!Next
<1>2. CASE ~Holds(w)
  BY <1>0, <1>2, LeaveDrops DEF Commit, rowVars
<1> QED
  BY <1>1, <1>2

LEMMA CancelMaps == ASSUME TypeInv, CancelWrites PROVE Lease!Next
<1> DEFINE S == {o \in waiting : status[o] \in {"PENDING", "RETRY"}}
<1>1. S \subseteq {o \in Outboxes : LeaseStatus[o] \in {"PENDING", "RETRY"}}
  BY WhatsAppAssumption, LeaseStatusIs DEF TypeInv, OutsideTyped
<1>2. LeaseStatus' = [o \in Outboxes |-> IF o \in S THEN "FAILED" ELSE LeaseStatus[o]]
  BY DEF CancelWrites, LeaseStatus
<1>3. UNCHANGED <<lockedBy, leases, row, lease>>
  BY DEF CancelWrites, handlerVars
<1> HIDE DEF S
<1>4. Lease!Withdraw
  BY <1>1, <1>2, <1>3 DEF Lease!Withdraw
<1> QED
  BY <1>4 DEF Lease!Next

(* retryFailed() is the protocol's operator: it opens failed rows of the broadcast. *)
LEMMA RetryMaps == ASSUME TypeInv, NEW a \in Retries, RetryWrites(a) PROVE Lease!Next
<1> DEFINE S == Reopened(a)
<1>1. S \subseteq {o \in Broadcasted \cap Outboxes : LeaseStatus[o] = "FAILED"}
  BY RetryFacts, WhatsAppAssumption, LeaseStatusIs DEF Reopened
<1>2. LeaseStatus' = [o \in Outboxes |-> IF o \in S THEN "PENDING" ELSE LeaseStatus[o]]
  BY DEF RetryWrites, LeaseStatus
<1>3. UNCHANGED <<lockedBy, leases, row, lease>>
  BY DEF RetryWrites, handlerVars
<1> HIDE DEF S
<1>4. Lease!Reopen
  BY <1>1, <1>2, <1>3 DEF Lease!Reopen
<1> QED
  BY <1>4 DEF Lease!Next

(* Steps that touch none of the columns the two share. *)
Quiet == UNCHANGED <<status, lockedBy, leases, row, lease>>

LEMMA QuietMaps == ASSUME Quiet PROVE UNCHANGED Lease!vars
BY LeaseStatusStays DEF Quiet, Lease!vars

LEMMA StepMaps == TypeInv /\ [Next]_vars => [Lease!Next]_(Lease!vars)
<1> SUFFICES ASSUME TypeInv, [Next]_vars PROVE Lease!Next \/ UNCHANGED Lease!vars
  OBVIOUS
<1>1. CASE UNCHANGED vars
  BY <1>1, QuietMaps DEF Quiet, vars, rowVars, handlerVars
<1>2. ASSUME NEW w \in Workers, Handle(w)
      PROVE  Lease!Next \/ UNCHANGED Lease!vars
  <2>1. CASE \/ ReadConnection(w) \/ LoadRecipient(w) \/ MarkRecipient(w)
             \/ MarkScheduled(w) \/ UploadMedia(w) \/ StoreUpload(w) \/ CheckWindow(w)
             \/ CallProvider(w) \/ CallAction(w) \/ CountRecipients(w)
    <3>1. Quiet
      BY <2>1 DEF Quiet, ReadConnection, LoadRecipient, MarkRecipient, MarkScheduled,
                  UploadMedia, StoreUpload, CheckWindow, CallProvider, CallAction,
                  CountRecipients, rowVars
    <3> QED
      BY <3>1, QuietMaps
  <2>2. CASE Journal(w)
    <3>1. CASE Holds(w)
      <4>1. Quiet
        BY <2>2, <3>1 DEF Quiet, Journal
      <4> QED
        BY <4>1, QuietMaps
    <3>2. CASE ~Holds(w)
      BY <2>2, <3>2, LeaveDrops DEF Journal, At
    <3> QED
      BY <3>1, <3>2
  <2> QED
    BY <1>2, <2>1, <2>2, ClaimMaps, CommitMaps DEF Handle
<1>3. ASSUME NEW w \in Workers, Crash(w) \/ DatabaseError(w)
      PROVE  Lease!Next \/ UNCHANGED Lease!vars
  <2>1. pc[w] # "idle" /\ UNCHANGED <<status, lockedBy, leases>>
    BY <1>3 DEF Crash, DatabaseError, At, rowVars
  <2>2. CASE Leave(w)
    BY <2>1, <2>2, LeaveDrops
  <2>3. CASE UNCHANGED <<row, lease>>
    BY <2>1, <2>3, QuietMaps DEF Quiet
  <2> QED
    BY <1>3, <2>2, <2>3 DEF Crash, DatabaseError
<1>4. ASSUME NEW w \in Workers, NEW o \in Outboxes, Deliver(w, o)
      PROVE  Lease!Next \/ UNCHANGED Lease!vars
  <2>1. UNCHANGED <<status, lockedBy, leases>> /\ row[w] = NoRow
    BY <1>4 DEF TypeInv, HandlersInv, HandlerInv, Deliver, At, rowVars
  <2>2. CASE UNCHANGED handlerVars
    BY <2>1, <2>2, QuietMaps DEF Quiet, handlerVars
  <2>3. CASE row' = [row EXCEPT ![w] = o] /\ UNCHANGED lease
    <3>1. Lease!Pick(w, o)
      BY <2>1, <2>3, LeaseStatusStays DEF Lease!Pick
    <3> QED
      BY <3>1 DEF Lease!Next
  <2> QED
    BY <1>4, <2>2, <2>3 DEF Deliver
<1>5. ASSUME NEW o \in Outboxes,
             \/ LeaseLapses(o) \/ BecomesDue(o) \/ LoseSignal(o) \/ Recover(o)
             \/ Enqueue(o) \/ Request(o)
      PROVE  Lease!Next \/ UNCHANGED Lease!vars
  <2>1. CASE Recover(o)
    <3>1. LeaseStatus' = [LeaseStatus EXCEPT ![o] = "RETRY"]
      BY <2>1, LeaseStatusSet DEF Recover
    <3>2. LeaseStatus[o] = "PROCESSING"
      BY <2>1, LeaseStatusIs DEF Recover
    <3>3. lockedBy' = [lockedBy EXCEPT ![o] = 0] /\ UNCHANGED <<leases, row, lease>>
      BY <2>1 DEF Recover, handlerVars
    <3>4. Lease!Recover(o)
      BY <3>1, <3>2, <3>3 DEF Lease!Recover
    <3> QED
      BY <3>4 DEF Lease!Next
  <2>2. CASE Request(o)
    <3>1. \A p \in Outboxes : status'[p] = IF p = o THEN "PENDING" ELSE status[p]
      BY <2>2 DEF Request, TypeInv, RowsTyped
    <3>2. status[o] = "NONE"
      BY <2>2 DEF Request
    <3>3. LeaseStatus' = LeaseStatus
      BY <3>1, <3>2 DEF LeaseStatus
    <3>4. UNCHANGED <<lockedBy, leases, row, lease>>
      BY <2>2 DEF Request, handlerVars
    <3> QED
      BY <3>3, <3>4 DEF Lease!vars
  <2>3. CASE LeaseLapses(o) \/ BecomesDue(o) \/ LoseSignal(o) \/ Enqueue(o)
    <3>1. Quiet
      BY <2>3 DEF Quiet, LeaseLapses, BecomesDue, LoseSignal, Enqueue, rowVars, handlerVars
    <3> QED
      BY <3>1, QuietMaps
  <2> QED
    BY <1>5, <2>1, <2>2, <2>3
<1>6. CASE Control
  <2>1. CASE Pause \/ Resume \/ CancelChecks \/ CancelReads \/ CancelFails
    <3>1. Quiet
      BY <2>1 DEF Quiet, Pause, Resume, CancelChecks, CancelReads, CancelFails, rowVars,
                  handlerVars
    <3> QED
      BY <3>1, QuietMaps
  <2>2. ASSUME NEW a \in Retries, RetryChecks(a) \/ RetryReads(a)
        PROVE  UNCHANGED Lease!vars
    <3>1. Quiet
      BY <2>2 DEF Quiet, RetryChecks, RetryReads, rowVars, handlerVars
    <3> QED
      BY <3>1, QuietMaps
  <2> QED
    BY <1>6, <2>1, <2>2, CancelMaps, RetryMaps, ControlCases DEF Steers
<1> QED
  BY <1>1, <1>2, <1>3, <1>4, <1>5, <1>6 DEF Next

(* The leases of the WhatsApp table follow the protocol of OutboxLease: no
   interleaving of handlers, faults, recovery, cancellation and retries of the
   failed settles a row without its current token or touches a settled one,
   but that retryFailed() opens failed rows of the broadcast again. *)
THEOREM ImplementsLease == Spec => LeaseSpec
<1>1. Init => Lease!Init
  BY LeaseInitMaps
<1> QED
  BY <1>1, TypeInit, TypeStep, StepMaps, PTL DEF Spec, LeaseSpec, Lease!Spec
-----------------------------------------------------------------------------
(* That the outbox row, its message, its recipient, its schedule, its CRM
   intents and the broadcast tell one story, for any number of handlers,
   rows, messages, faults and leases. *)

(* A wamid in a payload, or in a handler's copy of one, is one Meta returned
   for this row; a handler that is to write SENT has one; it sends, and so does
   one that is to write UNKNOWN further than its row. *)
WamidInv ==
    /\ \A o \in Outboxes : journal[o] <= accepted[o]
    /\ \A w \in Workers : row[w] \in Outboxes =>
          /\ ctx[w].journal <= accepted[row[w]]
          /\ pc[w] = "journal" => ctx[w].wamid \in 1..accepted[row[w]]
          /\ ctx[w].outcome = "SUCCEEDED" /\ ~ctx[w].only => ctx[w].journal # 0
          /\ ctx[w].outcome \in {"SUCCEEDED", "UNKNOWN"} /\ ~ctx[w].only =>
                Action[row[w]] = "SEND"

(* Which messages have a recipient or a schedule row never changes. *)
LinksInv ==
    \A m \in Messages :
        /\ recipient[m] # "NONE" <=> \E o \in Broadcasted : MessageOf[o] = m
        /\ schedule[m] # "NONE" <=> m \in Scheduled

(* Nothing downstream of a row is finished before the row, except that a
   recipient may be cancelled. *)
RowWaits(o) ==
    status[o] \notin Terminal =>
        /\ recipient[MessageOf[o]] \in {"NONE", "QUEUED", "PROCESSING", "CANCELLED"}
        /\ schedule[MessageOf[o]] \in {"NONE", "QUEUED", "PROCESSING"}

(* A cancellation is not under way once it is done. *)
CancelInv == broadcast = "CANCELLED" => cancel = "none"

(* A row of another action comes after the send, and so does its failure. *)
RequestInv ==
    /\ \A o \in Outboxes \ Sends : status[o] # "NONE" => externalId[MessageOf[o]] # 0
    /\ \A m \in spoiled : externalId[m] # 0

RowInv(o) == RowAgrees(o) /\ RowWaits(o)
AgreeInv == LinksInv /\ CancelInv /\ RequestInv /\ \A o \in Sends : RowInv(o)
-----------------------------------------------------------------------------
(* Deciding leaves the wamids of a handler and everybody else alone. *)
LEMMA DecideFields ==
    ASSUME TypeInv, NEW w \in Workers, NEW outcome, NEW code,
           NEW only \in BOOLEAN, NEW caught,
           Decide(w, outcome, code, only, caught)
    PROVE  /\ ctx'[w].journal = ctx[w].journal /\ ctx'[w].media = ctx[w].media
           /\ ctx'[w].alone = ctx[w].alone
           /\ ctx'[w].outcome = outcome /\ ctx'[w].only = only
           /\ \A v \in Workers \ {w} : ctx'[v] = ctx[v] /\ pc'[v] = pc[v]
           /\ pc'[w] \in {"count", "commit"}
<1> DEFINE new == [ctx[w] EXCEPT !.outcome = outcome, !.code = code,
                              !.only = only, !.caught = caught]
<1>1. ctx[w] \in Ctx /\ ctx \in [Workers -> Ctx] /\ pc \in [Workers -> Steps]
  BY DEF TypeInv, HandlersInv, HandlersTyped
<1>2. /\ new.outcome = outcome /\ new.only = only
      /\ new.journal = ctx[w].journal /\ new.alone = ctx[w].alone
      /\ new.media = ctx[w].media
  BY <1>1 DEF Ctx
<1>3. ctx' = [ctx EXCEPT ![w] = new]
  BY DEF Decide
<1>4. PICK s \in {"count", "commit"} : pc' = [pc EXCEPT ![w] = s]
  BY DEF Decide, Goto
<1> HIDE DEF new
<1> QED
  BY <1>1, <1>2, <1>3, <1>4

LEMMA LeaveFields ==
    ASSUME TypeInv, NEW w \in Workers, Leave(w)
    PROVE  /\ row'[w] = NoRow /\ row'[w] \notin Outboxes
           /\ ~ctx'[w].alone /\ ctx'[w].outcome = "NONE"
           /\ \A v \in Workers \ {w} : ctx'[v] = ctx[v] /\ row'[v] = row[v] /\ pc'[v] = pc[v]
<1>1. ~NoCtx.alone /\ NoCtx.outcome = "NONE"
  BY DEF NoCtx
<1> HIDE DEF NoCtx
<1> QED
  BY <1>1, WhatsAppAssumption DEF TypeInv, HandlersInv, HandlersTyped, Leave

LEMMA WamidDecide ==
    ASSUME TypeInv, WamidInv, NEW w \in Workers, NEW outcome, NEW code,
           NEW only \in BOOLEAN, NEW caught,
           Decide(w, outcome, code, only, caught), UNCHANGED <<row, journal, accepted>>,
           outcome = "SUCCEEDED" /\ ~only => ctx[w].journal # 0,
           outcome \in {"SUCCEEDED", "UNKNOWN"} /\ ~only => Action[row[w]] = "SEND"
    PROVE  WamidInv'
BY DecideFields DEF WamidInv

LEMMA WamidLeave ==
    ASSUME TypeInv, WamidInv, NEW w \in Workers, Leave(w), UNCHANGED <<journal, accepted>>
    PROVE  WamidInv'
BY LeaveFields DEF WamidInv

LEMMA WamidGoto ==
    ASSUME TypeInv, WamidInv, NEW w \in Workers, NEW where, where # "journal",
           Goto(w, where), UNCHANGED <<row, ctx, journal, accepted>>
    PROVE  WamidInv'
BY DEF TypeInv, HandlersInv, HandlersTyped, WamidInv, Goto

LEMMA WamidInit == Init => WamidInv
BY WhatsAppAssumption DEF Init, WamidInv, NoCtx

LEMMA WamidDeliver ==
    ASSUME TypeInv, WamidInv, NEW w \in Workers, NEW o \in Outboxes, Deliver(w, o)
    PROVE  WamidInv'
<1>1. UNCHANGED <<journal, accepted>>
  BY DEF Deliver, rowVars, metaVars
<1>2. CASE UNCHANGED handlerVars
  BY <1>1, <1>2 DEF WamidInv, handlerVars
<1>3. CASE ~UNCHANGED handlerVars
  <2> DEFINE new == [ctx[w] EXCEPT !.tries = attempts[o] + 1,
                                 !.journal = journal[o], !.media = media[o]]
  <2>1. /\ pc' = [pc EXCEPT ![w] = "claim"] /\ row' = [row EXCEPT ![w] = o]
        /\ ctx' = [ctx EXCEPT ![w] = new] /\ pc[w] = "idle"
    BY <1>3 DEF Deliver, Goto, At
  <2>2. ctx[w] \in Ctx /\ ctx[w].outcome = "NONE"
    BY <2>1 DEF TypeInv, HandlersInv, HandlersTyped, HandlerInv
  <2>3. new.journal = journal[o] /\ new.outcome = "NONE"
    BY <2>2 DEF Ctx
  <2> HIDE DEF new
  <2> QED
    BY <1>1, <2>1, <2>3 DEF TypeInv, HandlersInv, HandlersTyped, WamidInv
<1> QED
  BY <1>2, <1>3

LEMMA WamidStoreUpload ==
    ASSUME TypeInv, WamidInv, NEW w \in Workers, StoreUpload(w)
    PROVE  WamidInv'
<1>0. row[w] \in Outboxes /\ UNCHANGED <<row, accepted>> /\ Action[row[w]] = "SEND"
  BY BusyHasRow DEF StoreUpload, At, metaVars, TypeInv, HandlersInv, HandlerInv
<1>1. CASE Holds(w)
  <2> DEFINE new == [ctx[w] EXCEPT !.media = TRUE]
  <2>1. ctx[w] \in Ctx
    BY DEF TypeInv, HandlersInv, HandlersTyped
  <2>2. /\ new.journal = ctx[w].journal /\ new.outcome = ctx[w].outcome
        /\ new.only = ctx[w].only /\ new.wamid = ctx[w].wamid
    BY <2>1 DEF Ctx
  <2>3. /\ journal' = [journal EXCEPT ![row[w]] = ctx[w].journal]
        /\ ctx' = [ctx EXCEPT ![w] = new] /\ pc' = [pc EXCEPT ![w] = "window"]
    BY <1>1 DEF StoreUpload, Goto
  <2> HIDE DEF new
  <2> QED
    BY <1>0, <2>2, <2>3 DEF TypeInv, RowsTyped, HandlersInv, HandlersTyped, WamidInv
<1>2. CASE ~Holds(w)
  BY <1>0, <1>2, WamidDecide DEF StoreUpload
<1> QED
  BY <1>1, <1>2

LEMMA WamidCallProvider ==
    ASSUME TypeInv, WamidInv, NEW w \in Workers, CallProvider(w)
    PROVE  WamidInv'
<1>0. row[w] \in Outboxes /\ UNCHANGED <<row, journal>> /\ Action[row[w]] = "SEND"
  BY BusyHasRow DEF CallProvider, At, rowVars, TypeInv, HandlersInv, HandlerInv
<1>1. \/ /\ UNCHANGED accepted
         /\ \/ Decide(w, "UNKNOWN", "NONE", FALSE, FALSE)
            \/ \E code \in {"RECIPIENT", "OTHER"} : Decide(w, "FAILED", code, FALSE, FALSE)
            \/ Decide(w, RetryOrFail(w), "NONE", FALSE, FALSE)
      \/ /\ accepted' = [accepted EXCEPT ![row[w]] = @ + 1]
         /\ \/ Decide(w, "UNKNOWN", "NONE", FALSE, FALSE)
            \/ Decide(w, RetryOrFail(w), "NONE", FALSE, FALSE)
            \/ /\ ctx' = [ctx EXCEPT ![w] = [@ EXCEPT !.wamid = accepted[row[w]] + 1]]
               /\ Goto(w, "journal")
  BY DEF CallProvider, SendFails
<1>2. CASE UNCHANGED accepted
  <2>1. accepted' # [accepted EXCEPT ![row[w]] = @ + 1]
    BY <1>0, <1>2 DEF TypeInv, OutsideTyped
  <2>2. CASE Decide(w, "UNKNOWN", "NONE", FALSE, FALSE)
    BY <1>0, <1>2, <2>2, WamidDecide
  <2>3. CASE \E code \in {"RECIPIENT", "OTHER"} : Decide(w, "FAILED", code, FALSE, FALSE)
    BY <1>0, <1>2, <2>3, WamidDecide
  <2>4. CASE Decide(w, RetryOrFail(w), "NONE", FALSE, FALSE)
    BY <1>0, <1>2, <2>4, WamidDecide, RetryType
  <2> QED
    BY <1>1, <2>1, <2>2, <2>3, <2>4
<1>3. CASE accepted' = [accepted EXCEPT ![row[w]] = @ + 1]
  <2>1. /\ accepted'[row[w]] = accepted[row[w]] + 1
        /\ \A o \in Outboxes : accepted'[o] \in Nat /\ accepted[o] \in Nat
                                /\ accepted[o] <= accepted'[o]
    BY <1>0, <1>3 DEF TypeInv, OutsideTyped
  <2>2. /\ \A o \in Outboxes : journal[o] \in Nat
        /\ \A v \in Workers : ctx[v] \in Ctx /\ ctx[v].journal \in Nat /\ ctx[v].wamid \in Nat
    BY DEF TypeInv, RowsTyped, HandlersInv, HandlersTyped, Ctx
  <2>3. \A o \in Outboxes : journal'[o] <= accepted'[o]
    BY <1>0, <2>1, <2>2 DEF WamidInv
  <2>4. ASSUME NEW v \in Workers \ {w}, row'[v] \in Outboxes, ctx'[v] = ctx[v], pc'[v] = pc[v]
        PROVE  /\ ctx'[v].journal <= accepted'[row'[v]]
               /\ pc'[v] = "journal" => ctx'[v].wamid \in 1..accepted'[row'[v]]
               /\ ctx'[v].outcome = "SUCCEEDED" /\ ~ctx'[v].only => ctx'[v].journal # 0
               /\ ctx'[v].outcome \in {"SUCCEEDED", "UNKNOWN"} /\ ~ctx'[v].only =>
                     Action[row'[v]] = "SEND"
    <3>1. row[v] \in Outboxes /\ row'[v] = row[v]
      BY <1>0, <2>4
    <3>2. accepted[row[v]] <= accepted'[row[v]] /\ accepted[row[v]] \in Nat
          /\ accepted'[row[v]] \in Nat
      BY <2>1, <3>1
    <3>3. /\ ctx[v].journal <= accepted[row[v]]
          /\ pc[v] = "journal" => ctx[v].wamid \in 1..accepted[row[v]]
          /\ ctx[v].outcome = "SUCCEEDED" /\ ~ctx[v].only => ctx[v].journal # 0
          /\ ctx[v].outcome \in {"SUCCEEDED", "UNKNOWN"} /\ ~ctx[v].only =>
                Action[row[v]] = "SEND"
      BY <3>1 DEF WamidInv
    <3> QED
      BY <2>2, <2>4, <3>1, <3>2, <3>3
  <2>5. ctx[w].journal <= accepted'[row[w]]
    BY <1>0, <2>1, <2>2 DEF WamidInv
  <2>6. CASE \/ Decide(w, "UNKNOWN", "NONE", FALSE, FALSE)
             \/ Decide(w, RetryOrFail(w), "NONE", FALSE, FALSE)
    <3>1. /\ ctx'[w].journal = ctx[w].journal /\ ctx'[w].outcome # "SUCCEEDED"
          /\ pc'[w] # "journal"
          /\ \A v \in Workers \ {w} : ctx'[v] = ctx[v] /\ pc'[v] = pc[v]
      <4>1. PICK outcome \in {"UNKNOWN", "FAILED", "RETRY"} :
               Decide(w, outcome, "NONE", FALSE, FALSE)
        BY <2>6, RetryType
      <4> QED
        BY <4>1, DecideFields
    <3> QED
      BY <1>0, <2>3, <2>4, <2>5, <3>1 DEF WamidInv
  <2>7. CASE /\ ctx' = [ctx EXCEPT ![w] = [@ EXCEPT !.wamid = accepted[row[w]] + 1]]
             /\ Goto(w, "journal")
    <3> DEFINE new == [ctx[w] EXCEPT !.wamid = accepted[row[w]] + 1]
    <3>1. /\ new.journal = ctx[w].journal /\ new.outcome = ctx[w].outcome
          /\ new.only = ctx[w].only /\ new.wamid = accepted[row[w]] + 1
      BY <2>2 DEF Ctx
    <3>2. ctx' = [ctx EXCEPT ![w] = new] /\ pc' = [pc EXCEPT ![w] = "journal"]
      BY <2>7 DEF Goto
    <3> HIDE DEF new
    <3>3. ctx'[w] = new /\ \A v \in Workers \ {w} : ctx'[v] = ctx[v] /\ pc'[v] = pc[v]
      BY <3>2 DEF TypeInv, HandlersInv, HandlersTyped
    <3>4. ctx'[w].wamid \in 1..accepted'[row'[w]]
      BY <1>0, <2>1, <3>1, <3>3
    <3>5. /\ ctx'[w].outcome = "SUCCEEDED" /\ ~ctx'[w].only => ctx'[w].journal # 0
          /\ Action[row'[w]] = "SEND"
      BY <1>0, <3>1, <3>3 DEF WamidInv
    <3> QED
      BY <1>0, <2>3, <2>4, <2>5, <3>1, <3>3, <3>4, <3>5 DEF WamidInv
  <2> QED
    BY <1>1, <2>6, <2>7, <1>2
<1> QED
  BY <1>1, <1>2, <1>3

LEMMA WamidJournal ==
    ASSUME TypeInv, WamidInv, NEW w \in Workers, Journal(w)
    PROVE  WamidInv'
<1>0. row[w] \in Outboxes /\ UNCHANGED accepted /\ pc[w] = "journal"
      /\ ctx[w] \in Ctx /\ Action[row[w]] = "SEND"
  BY BusyHasRow DEF TypeInv, HandlersInv, HandlersTyped, HandlerInv, Journal, At, metaVars
<1>1. CASE Holds(w)
  <2> DEFINE new == [ctx[w] EXCEPT !.journal = ctx[w].wamid, !.outcome = "SUCCEEDED"]
  <2>1. new.journal = ctx[w].wamid /\ new.outcome = "SUCCEEDED" /\ ctx[w].wamid \in Nat
    BY <1>0 DEF Ctx
  <2>2. /\ journal' = [journal EXCEPT ![row[w]] = ctx[w].wamid]
        /\ ctx' = [ctx EXCEPT ![w] = new]
        /\ \E where \in {"count", "commit"} : pc' = [pc EXCEPT ![w] = where]
        /\ UNCHANGED row
    BY <1>1 DEF Journal, Goto
  <2>3. ctx[w].wamid \in 1..accepted[row[w]] /\ accepted[row[w]] \in Nat
    BY <1>0 DEF WamidInv, TypeInv, OutsideTyped
  <2> HIDE DEF new
  <2> QED
    BY <1>0, <2>1, <2>2, <2>3 DEF TypeInv, RowsTyped, HandlersInv, HandlersTyped, WamidInv
<1>2. CASE ~Holds(w)
  BY <1>0, <1>2, WamidLeave DEF Journal
<1> QED
  BY <1>1, <1>2

LEMMA WamidCount ==
    ASSUME TypeInv, WamidInv, NEW w \in Workers, CountRecipients(w)
    PROVE  WamidInv'
<1> DEFINE alone == \A m \in Messages \ {Msg(w)} : recipient[m] \notin NonTerminal
           new == [ctx[w] EXCEPT !.alone = alone]
<1>1. ctx' = [ctx EXCEPT ![w] = new] /\ pc' = [pc EXCEPT ![w] = "commit"]
      /\ UNCHANGED <<row, journal, accepted>>
  BY DEF CountRecipients, Goto, rowVars, metaVars
<1>2. ctx[w] \in Ctx
  BY DEF TypeInv, HandlersInv, HandlersTyped
<1> HIDE DEF alone
<1>3. new.journal = ctx[w].journal /\ new.outcome = ctx[w].outcome /\ new.only = ctx[w].only
  BY <1>2 DEF Ctx
<1> HIDE DEF new
<1> QED
  BY <1>1, <1>3 DEF TypeInv, HandlersInv, HandlersTyped, WamidInv

(* Every other step decides, goes on, leaves, or touches no wamid at all. *)
LEMMA WamidStep == TypeInv /\ WamidInv /\ [Next]_vars => WamidInv'
<1> SUFFICES ASSUME TypeInv, WamidInv, [Next]_vars PROVE WamidInv'
  OBVIOUS
<1>1. CASE UNCHANGED <<journal, accepted, pc, row, ctx>>
  BY <1>1 DEF WamidInv
<1>2. ASSUME NEW w \in Workers, Handle(w) PROVE WamidInv'
  <2>1. CASE Claim(w)
    <3>1. UNCHANGED <<journal, accepted>>
      BY <2>1 DEF Claim, rowVars, metaVars
    <3> QED
      BY <2>1, <3>1, WamidLeave, WamidGoto DEF Claim
  <2>2. CASE ReadConnection(w)
    <3>1. UNCHANGED <<journal, accepted, row>>
      BY <2>2 DEF ReadConnection, rowVars, metaVars
    <3>2. \/ FailPermanently(w)
          \/ \E where \in {"act", "load"} : Goto(w, where) /\ UNCHANGED ctx
          \/ /\ Decide(w, "SUCCEEDED", "NONE", FALSE, FALSE)
             /\ Journaled(w) /\ Action[row[w]] = "SEND"
      BY <2>2, BusyHasRow, WhatsAppAssumption DEF ReadConnection, At, Sends
    <3> QED
      BY <3>1, <3>2, WamidGoto, WamidDecide DEF FailPermanently, Journaled
  <2>3. CASE LoadRecipient(w)
    BY <2>3, WamidGoto, WamidDecide DEF LoadRecipient, rowVars, metaVars
  <2>4. CASE MarkRecipient(w) \/ MarkScheduled(w)
    BY <2>4, WamidGoto DEF MarkRecipient, MarkScheduled, rowVars, metaVars
  <2>5. CASE UploadMedia(w)
    <3>1. UNCHANGED <<journal, accepted, row>> /\ Action[row[w]] = "SEND"
      BY <2>5 DEF UploadMedia, At, rowVars, TypeInv, HandlersInv, HandlerInv
    <3> QED
      BY <2>5, <3>1, WamidGoto, WamidDecide, RetryType
         DEF UploadMedia, FailPermanently, RetryPreparation
  <2>6. CASE CheckWindow(w)
    BY <2>6, WamidGoto, WamidDecide DEF CheckWindow, Unsendable, FailPermanently, rowVars, metaVars
  <2>7. CASE CallAction(w)
    BY <2>7, WamidDecide DEF CallAction, rowVars, metaVars
  <2>8. CASE Commit(w)
    <3>1. UNCHANGED <<journal, accepted>>
      BY <2>8, CommitCases
         DEF Commit, CommitRowOnly, CommitSent, CommitFailed, CommitUnknown, CommitDeferred,
             CommitCancelled, Release, rowVars, metaVars
    <3> QED
      BY <2>8, <3>1, WamidLeave DEF Commit
  <2> QED
    BY <1>2, <2>1, <2>2, <2>3, <2>4, <2>5, <2>6, <2>7, <2>8, WamidStoreUpload,
       WamidCallProvider, WamidJournal, WamidCount DEF Handle
<1>3. ASSUME NEW w \in Workers, Crash(w) \/ DatabaseError(w) PROVE WamidInv'
  BY <1>3, WamidLeave, WamidDecide, RetryType
     DEF Crash, DatabaseError, RetryPreparation, rowVars, metaVars
<1>4. ASSUME NEW o \in Outboxes,
             LeaseLapses(o) \/ BecomesDue(o) \/ LoseSignal(o) \/ Recover(o) \/ Enqueue(o)
      PROVE  WamidInv'
  BY <1>1, <1>4 DEF LeaseLapses, BecomesDue, LoseSignal, Recover, Enqueue, rowVars, metaVars,
                    handlerVars
<1>5. CASE Control
  <2>1. ASSUME NEW a \in Retries, RetryChecks(a) \/ RetryReads(a) \/ RetryWrites(a)
        PROVE  WamidInv'
    BY <1>1, <2>1 DEF RetryChecks, RetryReads, RetryWrites, rowVars, metaVars, handlerVars
  <2>2. CASE Steers
    BY <1>1, <2>2 DEF Steers, Pause, Resume, CancelChecks, CancelReads, CancelWrites, CancelFails,
                      rowVars, metaVars, handlerVars
  <2> QED
    BY <1>5, <2>1, <2>2, ControlCases
<1>6. ASSUME NEW o \in Outboxes, Request(o) PROVE WamidInv'
  BY <1>1, <1>6 DEF Request, metaVars, handlerVars
<1>7. CASE UNCHANGED vars
  BY <1>1, <1>7 DEF vars, rowVars, metaVars, handlerVars
<1> QED
  BY <1>2, <1>3, <1>4, <1>5, <1>6, <1>7, WamidDeliver DEF Next
-----------------------------------------------------------------------------
LEMMA AgreeInit == Init => AgreeInv
BY WhatsAppAssumption
   DEF Init, AgreeInv, LinksInv, CancelInv, RequestInv, RowInv, RowAgrees, RowWaits, Sends,
       Terminal

(* Two sending rows never share a message. *)
LEMMA OwnMessage ==
    ASSUME NEW o \in Sends, NEW p \in Sends, p # o
    PROVE  MessageOf[o] # MessageOf[p] /\ MessageOf[o] \in Messages /\ o \in Outboxes
BY WhatsAppAssumption DEF Sends

(* A step that leaves a row's message alone and neither settles nor reopens
   the row keeps it in agreement. *)
LEMMA RowFrame ==
    ASSUME TypeInv, TypeInv', NEW o \in Sends, RowInv(o),
           \/ status'[o] = status[o]
           \/ status[o] \notin Terminal /\ status'[o] \notin Terminal,
           message'[MessageOf[o]] = message[MessageOf[o]],
           externalId'[MessageOf[o]] = externalId[MessageOf[o]],
           recipient'[MessageOf[o]] = recipient[MessageOf[o]],
           schedule'[MessageOf[o]] = schedule[MessageOf[o]],
           broadcast = "CANCELLED" => broadcast' = "CANCELLED" /\ waiting' = waiting,
           o \in overwritten => o \in overwritten',
           MessageOf[o] \in spoiled => MessageOf[o] \in spoiled',
           accepted[o] <= accepted'[o]
    PROVE  RowInv(o)'
<1>1. /\ accepted[o] \in Nat /\ accepted'[o] \in Nat
      /\ externalId[MessageOf[o]] \in Nat
  BY WhatsAppAssumption DEF TypeInv, OutsideTyped, ProjectionsTyped, Sends
<1> QED
  BY <1>1 DEF RowInv, RowAgrees, StaysSent, RowWaits, Shows, Torn, Terminal

LEMMA AgreeFrame ==
    ASSUME TypeInv, TypeInv', AgreeInv,
           \A o \in Outboxes : \/ status'[o] = status[o]
                               \/ status[o] \notin Terminal /\ status'[o] \notin Terminal,
           \A o \in Outboxes \ Sends : \/ status[o] # "NONE" \/ status'[o] = "NONE"
                                        \/ externalId[MessageOf[o]] # 0,
           UNCHANGED <<message, externalId, recipient, schedule, spoiled, overwritten>>,
           broadcast = "CANCELLED" => broadcast' = "CANCELLED" /\ waiting' = waiting,
           CancelInv',
           \A o \in Outboxes : accepted[o] <= accepted'[o]
    PROVE  AgreeInv'
<1>1. LinksInv' /\ CancelInv' /\ RequestInv'
  BY DEF AgreeInv, LinksInv, RequestInv, Sends
<1>2. ASSUME NEW o \in Sends PROVE RowInv(o)'
  BY RowFrame DEF AgreeInv, Sends
<1> QED
  BY <1>1, <1>2 DEF AgreeInv, Sends

LEMMA AgreeMark ==
    ASSUME TypeInv, TypeInv', AgreeInv, NEW w \in Workers, MarkRecipient(w) \/ MarkScheduled(w)
    PROVE  AgreeInv'
<1>0. row[w] \in Outboxes /\ Msg(w) \in Messages
  BY BusyHasRow DEF MarkRecipient, MarkScheduled, At
<1>1. /\ UNCHANGED <<status, message, externalId, broadcast, spoiled, accepted, controlVars>>
      /\ \/ /\ UNCHANGED schedule
            /\ recipient' = [recipient EXCEPT ![Msg(w)] =
                               IF @ \in {"QUEUED", "PROCESSING"} THEN "PROCESSING" ELSE @]
         \/ /\ UNCHANGED recipient
            /\ schedule' = [schedule EXCEPT ![Msg(w)] = IF @ = "QUEUED" THEN "PROCESSING" ELSE @]
  BY DEF MarkRecipient, MarkScheduled, rowVars, metaVars
<1>2. LinksInv' /\ CancelInv' /\ RequestInv'
  BY <1>0, <1>1 DEF AgreeInv, LinksInv, CancelInv, RequestInv, TypeInv, ProjectionsTyped,
                    controlVars, Sends
<1>3. ASSUME NEW o \in Sends PROVE RowInv(o)'
  <2>1. RowInv(o) /\ MessageOf[o] \in Messages /\ o \in Outboxes
    BY WhatsAppAssumption DEF AgreeInv, Sends
  <2>2. /\ recipient'[MessageOf[o]] \in {recipient[MessageOf[o]], "PROCESSING"}
        /\ recipient'[MessageOf[o]] # recipient[MessageOf[o]] =>
              recipient[MessageOf[o]] = "QUEUED"
        /\ schedule'[MessageOf[o]] \in {schedule[MessageOf[o]], "PROCESSING"}
        /\ schedule'[MessageOf[o]] # schedule[MessageOf[o]] =>
              schedule[MessageOf[o]] = "QUEUED"
    BY <1>1, <2>1 DEF TypeInv, ProjectionsTyped
  <2> QED
    BY <1>1, <2>1, <2>2 DEF RowInv, RowAgrees, StaysSent, RowWaits, Shows, Torn, Terminal, TypeInv,
                            RowsTyped, controlVars
<1> QED
  BY <1>2, <1>3 DEF AgreeInv, Sends

(* An outcome reaches no row and no message but the handler's own. *)
LEMMA CommitElsewhere ==
    ASSUME TypeInv, NEW w \in Workers, Commit(w)
    PROVE  /\ \A o \in Outboxes : o # row[w] => status'[o] = status[o]
           /\ \A m \in Messages : m # Msg(w) =>
                 /\ message'[m] = message[m] /\ externalId'[m] = externalId[m]
                 /\ recipient'[m] = recipient[m] /\ schedule'[m] = schedule[m]
                 /\ m \in spoiled' <=> m \in spoiled
           /\ spoiled \subseteq spoiled'
           /\ \/ broadcast' = broadcast
              \/ broadcast = "RUNNING" /\ broadcast' = "COMPLETED"
           /\ UNCHANGED <<accepted, controlVars>>
<1> USE DEF TypeInv, RowsTyped, ProjectionsTyped, Release
<1>1. UNCHANGED <<accepted, controlVars>>
  BY DEF Commit, metaVars
<1>2. CASE UNCHANGED <<rowVars, projVars>> \/ CommitRowOnly(w)
  BY <1>1, <1>2 DEF CommitRowOnly, rowVars, projVars
<1>3. CASE CommitSent(w)
  BY <1>1, <1>3 DEF CommitSent, FinishRecipient, FinishSchedule
<1>4. CASE CommitFailed(w)
  BY <1>1, <1>4 DEF CommitFailed, FinishRecipient, FinishSchedule
<1>5. CASE CommitUnknown(w)
  BY <1>1, <1>5 DEF CommitUnknown, FinishRecipient, FinishSchedule
<1>6. CASE CommitDeferred(w)
  BY <1>1, <1>6 DEF CommitDeferred
<1>7. CASE CommitCancelled(w)
  BY <1>1, <1>7 DEF CommitCancelled
<1> QED
  BY <1>2, <1>3, <1>4, <1>5, <1>6, <1>7, CommitCases

(* The handler's own row and message after the outcome, by what it wrote. *)
LEMMA CommitHere ==
    ASSUME TypeInv, TypeInv', WamidInv, AgreeInv, NEW w \in Workers, Commit(w),
           NEW o \in Sends, row[w] = o
    PROVE  RowInv(o)'
<1> DEFINE m == MessageOf[o]
<1>0. /\ o \in Outboxes /\ m \in Messages /\ m = Msg(w)
      /\ RowInv(o) /\ ctx[w] \in Ctx
  BY WhatsAppAssumption DEF AgreeInv, Sends, Msg, TypeInv, HandlersInv, HandlersTyped
<1> USE DEF TypeInv, RowsTyped, ProjectionsTyped, Terminal
<1>1. CASE ~Holds(w) /\ UNCHANGED <<rowVars, projVars>>
  BY <1>0, <1>1, CommitElsewhere, RowFrame DEF rowVars, projVars, controlVars, OutsideTyped
<1>2. CASE Holds(w) /\ CommitRowOnly(w) /\ ctx[w].outcome = "RETRY"
  <2>1. status[o] = "PROCESSING" /\ status'[o] = "RETRY" /\ UNCHANGED projVars
        /\ UNCHANGED <<accepted, controlVars>>
    BY <1>0, <1>2, CommitElsewhere DEF Holds, CommitRowOnly, Release
  <2> QED
    BY <1>0, <2>1, RowFrame DEF projVars, controlVars, OutsideTyped
<1>3. ASSUME Holds(w)
      PROVE  /\ status[o] = "PROCESSING" /\ externalId[m] = 0
             /\ \/ message[m] = "QUEUED"
                \/ message[m] = "FAILED" /\ broadcast = "CANCELLED"
             /\ recipient[m] \in {"NONE", "QUEUED", "PROCESSING", "CANCELLED"}
             /\ schedule[m] \in {"NONE", "QUEUED", "PROCESSING"}
  BY <1>0, <1>3 DEF Holds, RowInv, RowAgrees, RowWaits
<1>4. CASE Holds(w) /\ CommitSent(w) /\ ctx[w].outcome = "SUCCEEDED" /\ ~ctx[w].only
  <2>1. ctx[w].journal \in 1..accepted[o]
    BY <1>0, <1>4 DEF WamidInv, Ctx, OutsideTyped
  <2>2. /\ status'[o] = "SUCCEEDED" /\ message'[m] = "SENT"
        /\ externalId'[m] = ctx[w].journal
        /\ recipient'[m] \in {"NONE", "SENT"} /\ schedule'[m] \in {"NONE", "SENT"}
    BY <1>0, <1>3, <1>4 DEF CommitSent, Release, FinishRecipient, FinishSchedule
  <2>3. accepted'[o] = accepted[o]
    BY CommitElsewhere
  <2> QED
    BY <1>0, <2>1, <2>2, <2>3 DEF RowInv, RowAgrees, StaysSent, RowWaits, Shows
<1>5. CASE Holds(w) /\ CommitFailed(w)
  <2>1. /\ status'[o] = "FAILED" /\ message'[m] = "FAILED" /\ externalId'[m] = 0
        /\ recipient'[m] \in {"NONE", "FAILED"} /\ schedule'[m] \in {"NONE", "FAILED"}
    BY <1>0, <1>3, <1>5 DEF CommitFailed, Release, FinishRecipient, FinishSchedule
  <2> QED
    BY <1>0, <2>1 DEF RowInv, RowAgrees, RowWaits, Shows
<1>6. CASE Holds(w) /\ CommitUnknown(w)
  <2>1. /\ status'[o] = "UNKNOWN" /\ message'[m] = "UNKNOWN" /\ externalId'[m] = 0
        /\ recipient'[m] \in {"NONE", "UNKNOWN"} /\ schedule'[m] \in {"NONE", "UNKNOWN"}
    BY <1>0, <1>3, <1>6 DEF CommitUnknown, Release, FinishRecipient, FinishSchedule
  <2> QED
    BY <1>0, <2>1 DEF RowInv, RowAgrees, RowWaits, Shows
<1>7. CASE Holds(w) /\ CommitDeferred(w)
  <2>1. /\ status'[o] = "RETRY" /\ recipient'[m] = "QUEUED"
        /\ UNCHANGED <<message, externalId, broadcast, schedule>>
    BY <1>0, <1>7 DEF CommitDeferred, Release
  <2> QED
    BY <1>0, <1>3, <1>7, <2>1 DEF RowInv, RowAgrees, RowWaits, Shows
<1>8. CASE Holds(w) /\ CommitCancelled(w) /\ row[w] \in Broadcasted
  <2>1. recipient[m] # "NONE" /\ schedule[m] = "NONE"
    BY <1>0, <1>8, WhatsAppAssumption DEF AgreeInv, LinksInv
  <2>2. /\ status'[o] = "FAILED" /\ message'[m] = "FAILED" /\ recipient'[m] = "CANCELLED"
        /\ UNCHANGED <<externalId, schedule>>
    BY <1>0, <1>3, <1>8, <2>1 DEF CommitCancelled, Release
  <2> QED
    BY <1>0, <1>3, <1>8, <2>1, <2>2 DEF RowInv, RowAgrees, RowWaits, Shows
<1> QED
  BY <1>0, <1>1, <1>2, <1>4, <1>5, <1>6, <1>7, <1>8, CommitCases DEF Sends

(* A row of another action comes to fail() after the send has succeeded. *)
LEMMA CommitBeside ==
    ASSUME TypeInv, TypeInv', WamidInv, AgreeInv, NEW w \in Workers, Commit(w),
           NEW o \in Sends, row[w] # o, MessageOf[o] = Msg(w)
    PROVE  RowInv(o)'
<1> DEFINE m == MessageOf[o]
<1>0. /\ o \in Outboxes /\ m \in Messages /\ RowInv(o) /\ row[w] \in Outboxes
      /\ row[w] \notin Sends /\ Msg(w) = MessageOf[row[w]]
  BY BusyHasRow, OwnMessage, WhatsAppAssumption DEF AgreeInv, Sends, Msg, Commit, At
<1>1. status'[o] = status[o] /\ accepted'[o] = accepted[o] /\ accepted[o] \in Nat
      /\ UNCHANGED controlVars /\ spoiled \subseteq spoiled'
  BY <1>0, CommitElsewhere DEF TypeInv, OutsideTyped
<1>2. CASE UNCHANGED projVars
  BY <1>0, <1>1, <1>2, RowFrame DEF projVars, controlVars
<1>3. CASE Holds(w) /\ CommitFailed(w)
  <2>1. externalId[m] # 0
    <3>1. status[row[w]] # "NONE"
      BY <1>3 DEF Holds
    <3> QED
      BY <1>0, <3>1 DEF AgreeInv, RequestInv
  <2>2. status[o] = "SUCCEEDED"
    BY <1>0, <2>1 DEF RowInv, RowAgrees, Terminal
  <2>3. /\ message'[m] = "FAILED" /\ externalId'[m] = externalId[m] /\ m \in spoiled'
        /\ recipient'[m] \in {"NONE", "FAILED"}
        /\ schedule[m] \in {"NONE", "SENT"} => schedule'[m] = schedule[m]
    BY <1>0, <1>3 DEF CommitFailed, FinishRecipient, FinishSchedule, TypeInv, ProjectionsTyped
  <2>4. o \in overwritten \/ schedule[m] \in {"NONE", "SENT"}
    BY <1>0, <2>2 DEF RowInv, RowAgrees, StaysSent, Shows
  <2>5. StaysSent(o)'
    BY <1>1, <2>3, <2>4 DEF StaysSent, Shows, controlVars
  <2>6. externalId[m] \in 1..accepted[o]
    BY <1>0, <2>2 DEF RowInv, RowAgrees
  <2> QED
    BY <1>1, <2>2, <2>3, <2>5, <2>6 DEF RowInv, RowAgrees, RowWaits, Terminal
<1>4. ~CommitSent(w) \/ ~(ctx[w].outcome = "SUCCEEDED" /\ ~ctx[w].only)
  BY <1>0 DEF WamidInv, Sends
<1>5. ~(ctx[w].outcome = "UNKNOWN" /\ ~ctx[w].only) /\ row[w] \notin Broadcasted
  BY <1>0, WhatsAppAssumption DEF WamidInv, Sends
<1> QED
  BY <1>2, <1>3, <1>4, <1>5, CommitCases DEF CommitRowOnly, projVars

(* The external id of a message is written once, by its send. *)
LEMMA RequestCommit ==
    ASSUME TypeInv, WamidInv, AgreeInv, NEW w \in Workers, Commit(w)
    PROVE  RequestInv'
<1>0. row[w] \in Outboxes /\ Msg(w) \in Messages
  BY BusyHasRow DEF Commit, At, Msg
<1>1. \A m \in Messages : externalId[m] # 0 => externalId'[m] # 0
  <2>1. CASE UNCHANGED externalId
    BY <2>1
  <2>2. CASE CommitSent(w) /\ ctx[w].outcome = "SUCCEEDED" /\ ~ctx[w].only
    <3>1. ctx[w].journal # 0
      BY <1>0, <2>2 DEF WamidInv
    <3> QED
      BY <2>2, <3>1 DEF CommitSent, TypeInv, ProjectionsTyped
  <2> QED
    BY <2>1, <2>2, CommitCases
       DEF CommitRowOnly, CommitFailed, CommitUnknown, CommitDeferred, CommitCancelled, projVars
<1>2. \A o \in Outboxes : status'[o] # "NONE" => status[o] # "NONE"
  BY <1>0, CommitElsewhere, CommitCases DEF Holds, rowVars
<1>3. \A m \in spoiled' : m \in spoiled \/ /\ m = Msg(w) /\ row[w] \notin Sends
                                           /\ status[row[w]] # "NONE"
  BY CommitCases
     DEF CommitRowOnly, CommitSent, CommitFailed, CommitUnknown, CommitDeferred, CommitCancelled,
         projVars, Holds
<1>4. spoiled' \subseteq Messages
  BY <1>0, <1>3 DEF TypeInv, ProjectionsTyped
<1>5. \A m \in spoiled' : externalId[m] # 0
  BY <1>0, <1>3 DEF AgreeInv, RequestInv, Msg
<1> QED
  BY <1>1, <1>2, <1>4, <1>5, WhatsAppAssumption DEF AgreeInv, RequestInv, Sends

LEMMA AgreeCommit ==
    ASSUME TypeInv, TypeInv', WamidInv, AgreeInv, NEW w \in Workers, Commit(w)
    PROVE  AgreeInv'
<1>0. row[w] \in Outboxes /\ Msg(w) \in Messages /\ Msg(w) = MessageOf[row[w]]
  BY BusyHasRow DEF Commit, At, Msg
<1>1. LinksInv'
  <2>1. recipient'[Msg(w)] # "NONE" <=> recipient[Msg(w)] # "NONE"
    <3> USE <1>0 DEF TypeInv, ProjectionsTyped
    <3>1. CASE UNCHANGED projVars
      BY <3>1 DEF projVars
    <3>2. CASE CommitSent(w) \/ CommitFailed(w) \/ CommitUnknown(w)
      BY <3>2 DEF CommitSent, CommitFailed, CommitUnknown, FinishRecipient
    <3>3. CASE (CommitDeferred(w) \/ CommitCancelled(w)) /\ row[w] \in Broadcasted
      <4>1. recipient[Msg(w)] # "NONE"
        BY <3>3 DEF AgreeInv, LinksInv
      <4> QED
        BY <3>3, <4>1 DEF CommitDeferred, CommitCancelled
    <3> QED
      BY <3>1, <3>2, <3>3, CommitCases DEF CommitRowOnly
  <2>2. schedule'[Msg(w)] # "NONE" <=> schedule[Msg(w)] # "NONE"
    BY <1>0, CommitCases
       DEF TypeInv, ProjectionsTyped, CommitRowOnly, CommitSent, CommitFailed, CommitUnknown,
           CommitDeferred, CommitCancelled, FinishSchedule, projVars
  <2> QED
    BY <2>1, <2>2, CommitElsewhere DEF AgreeInv, LinksInv
<1>2. CancelInv'
  BY CommitElsewhere DEF AgreeInv, CancelInv, controlVars
<1>3. ASSUME NEW o \in Sends PROVE RowInv(o)'
  <2>1. CASE o = row[w]
    BY <2>1, CommitHere
  <2>2. CASE o # row[w] /\ MessageOf[o] = Msg(w)
    BY <2>2, CommitBeside
  <2>3. CASE o # row[w] /\ MessageOf[o] # Msg(w)
    <3>1. MessageOf[o] \in Messages /\ o \in Outboxes
      BY WhatsAppAssumption DEF Sends
    <3>2. RowInv(o) /\ accepted[o] <= accepted'[o]
      BY <3>1, CommitElsewhere DEF AgreeInv, TypeInv, OutsideTyped
    <3>3. /\ status'[o] = status[o]
          /\ message'[MessageOf[o]] = message[MessageOf[o]]
          /\ externalId'[MessageOf[o]] = externalId[MessageOf[o]]
          /\ recipient'[MessageOf[o]] = recipient[MessageOf[o]]
          /\ schedule'[MessageOf[o]] = schedule[MessageOf[o]]
          /\ broadcast = "CANCELLED" => broadcast' = "CANCELLED" /\ waiting' = waiting
          /\ overwritten' = overwritten /\ spoiled \subseteq spoiled'
      BY <2>3, <3>1, CommitElsewhere DEF controlVars
    <3> QED
      BY <3>2, <3>3, RowFrame
  <2> QED
    BY <2>1, <2>2, <2>3
<1> QED
  BY <1>1, <1>2, <1>3, RequestCommit DEF AgreeInv, Sends

LEMMA AgreeCancel ==
    ASSUME TypeInv, TypeInv', AgreeInv, CancelWrites
    PROVE  AgreeInv'
<1> DEFINE theirs == {MessageOf[o] : o \in waiting}
<1>1. /\ recipient' = [m \in Messages |-> IF recipient[m] \in {"PENDING", "QUEUED"}
                                          THEN "CANCELLED" ELSE recipient[m]]
      /\ message' = [m \in Messages |->
                       IF m \in theirs /\ message[m] = "QUEUED" THEN "FAILED" ELSE message[m]]
      /\ status' = [o \in Outboxes |->
                      IF o \in waiting /\ status[o] \in {"PENDING", "RETRY"}
                      THEN "FAILED" ELSE status[o]]
      /\ waiting' = {o \in waiting : ~NotStarted(o)}
      /\ UNCHANGED <<externalId, schedule, accepted, spoiled, overwritten>>
      /\ broadcast' = "CANCELLED" /\ broadcast # "CANCELLED" /\ cancel' = "none"
  BY DEF CancelWrites, metaVars, AgreeInv, CancelInv
<1>2. LinksInv' /\ CancelInv' /\ RequestInv'
  BY <1>1 DEF AgreeInv, LinksInv, CancelInv, RequestInv, Sends
<1>3. ASSUME NEW o \in Sends PROVE RowInv(o)'
  <2> DEFINE m == MessageOf[o]
  <2>1. RowInv(o) /\ m \in Messages /\ o \in Outboxes /\ accepted[o] \in Nat
    BY WhatsAppAssumption DEF AgreeInv, Sends, TypeInv, OutsideTyped
  <2>2. m \in theirs <=> o \in waiting
    BY OwnMessage, WhatsAppAssumption DEF TypeInv, OutsideTyped, Sends
  <2>3. o \in waiting => recipient[m] # "NONE" /\ schedule[m] = "NONE"
    BY <2>1, WhatsAppAssumption DEF AgreeInv, LinksInv, TypeInv, OutsideTyped
  <2>4. /\ recipient'[m] = IF recipient[m] \in {"PENDING", "QUEUED"}
                           THEN "CANCELLED" ELSE recipient[m]
        /\ message'[m] = IF o \in waiting /\ message[m] = "QUEUED"
                         THEN "FAILED" ELSE message[m]
        /\ status'[o] = IF o \in waiting /\ status[o] \in {"PENDING", "RETRY"}
                        THEN "FAILED" ELSE status[o]
        /\ externalId'[m] = externalId[m] /\ schedule'[m] = schedule[m]
        /\ accepted'[o] = accepted[o]
    BY <1>1, <2>1, <2>2
  <2>5. \/ o \in overwritten /\ status[o] \in {"SUCCEEDED", "UNKNOWN"}
        \/ recipient[m] \in {"PENDING", "QUEUED"} => status[o] \notin Terminal
    BY <1>1, <2>1 DEF RowInv, RowAgrees, StaysSent, Shows, Torn, Terminal
  <2>6. o \in waiting' <=> o \in waiting /\ recipient[m] \notin {"PENDING", "QUEUED"}
    BY <1>1 DEF NotStarted
  <2>9. CASE o \in overwritten /\ status[o] \in {"SUCCEEDED", "UNKNOWN"}
    <3>1. status'[o] = status[o] /\ o \in overwritten'
      BY <1>1, <2>4, <2>9
    <3> QED
      BY <2>1, <2>4, <2>9, <3>1 DEF RowInv, RowAgrees, StaysSent, RowWaits, Terminal
  <2>7. CASE status[o] \in Terminal /\ ~(o \in overwritten /\ status[o] \in {"SUCCEEDED", "UNKNOWN"})
    <3>1. /\ message[m] # "QUEUED" /\ status'[o] = status[o] /\ ~Torn(o)
          /\ recipient'[m] = recipient[m]
      BY <1>1, <2>1, <2>4, <2>5, <2>7 DEF RowInv, RowAgrees, StaysSent, Shows, Torn, Terminal
    <3> QED
      BY <1>1, <2>1, <2>4, <2>7, <3>1 DEF RowInv, RowAgrees, StaysSent, RowWaits, Shows, Terminal
  <2>8. CASE status[o] \notin Terminal
    <3>1. /\ message[m] = "QUEUED" /\ externalId[m] = 0
          /\ recipient[m] \in {"NONE", "QUEUED", "PROCESSING", "CANCELLED"}
          /\ schedule[m] \in {"NONE", "QUEUED", "PROCESSING"}
      BY <1>1, <2>1, <2>8 DEF RowInv, RowAgrees, RowWaits
    <3>2. CASE o \in waiting /\ status[o] \in {"PENDING", "RETRY"}
      <4>1. status'[o] = "FAILED" /\ message'[m] = "FAILED"
        BY <2>4, <3>1, <3>2
      <4>2. \/ recipient'[m] = "CANCELLED"
            \/ recipient'[m] = "PROCESSING" /\ o \in waiting'
        BY <2>3, <2>4, <2>6, <3>1, <3>2
      <4>3. schedule'[m] = "NONE"
        BY <2>3, <2>4, <3>2
      <4>4. Torn(o)' \/ recipient'[m] = "CANCELLED"
        BY <1>1, <4>2 DEF Torn
      <4> QED
        BY <2>4, <3>1, <4>1, <4>2, <4>3, <4>4 DEF RowInv, RowAgrees, RowWaits, Shows, Terminal
    <3>3. CASE ~(o \in waiting /\ status[o] \in {"PENDING", "RETRY"})
      <4>1. status'[o] = status[o] /\ message'[m] \in {"QUEUED", "FAILED"}
        BY <2>4, <3>1, <3>3
      <4> QED
        BY <1>1, <2>4, <2>8, <3>1, <4>1 DEF RowInv, RowAgrees, RowWaits, Shows, Terminal
    <3> QED
      BY <3>2, <3>3
  <2> QED
    BY <2>7, <2>8, <2>9
<1> QED
  BY <1>2, <1>3 DEF AgreeInv, Sends

(* retryFailed() reopens the rows it finds FAILED; those settled otherwise it
   leaves behind overwritten. *)
LEMMA AgreeRetry ==
    ASSUME TypeInv, TypeInv', AgreeInv, NEW a \in Retries, RetryWrites(a)
    PROVE  AgreeInv'
<1> DEFINE ids == retry[a].ids
           theirs == {MessageOf[o] : o \in ids}
<1>1. /\ recipient' = [m \in Messages |-> IF m \in theirs THEN "QUEUED" ELSE recipient[m]]
      /\ message' = [m \in Messages |-> IF m \in theirs THEN "QUEUED" ELSE message[m]]
      /\ status' = [o \in Outboxes |->
                      IF o \in ids /\ status[o] = "FAILED" THEN "PENDING" ELSE status[o]]
      /\ overwritten' = overwritten \cup {o \in ids : status[o] \in {"SUCCEEDED", "UNKNOWN"}}
      /\ UNCHANGED <<externalId, schedule, accepted, spoiled, broadcast, cancel, waiting>>
  BY DEF RetryWrites, Reopened, metaVars
<1>2. ids \subseteq Broadcasted /\ Broadcasted \subseteq Sends /\ Sends \subseteq Outboxes
  BY RetryFacts, WhatsAppAssumption DEF Sends
<1> HIDE DEF ids
<1>3. LinksInv' /\ CancelInv' /\ RequestInv'
  BY <1>1, <1>2 DEF AgreeInv, LinksInv, CancelInv, RequestInv
<1>4. ASSUME NEW o \in Sends PROVE RowInv(o)'
  <2> DEFINE m == MessageOf[o]
  <2>1. RowInv(o) /\ m \in Messages /\ o \in Outboxes /\ accepted[o] \in Nat
    BY WhatsAppAssumption DEF AgreeInv, Sends, TypeInv, OutsideTyped
  <2>2. m \in theirs <=> o \in ids
    BY <1>2, OwnMessage
  <2>3. CASE o \notin ids
    <3>1. /\ status'[o] = status[o] /\ message'[m] = message[m]
          /\ recipient'[m] = recipient[m]
          /\ o \in overwritten => o \in overwritten'
      BY <1>1, <2>1, <2>2, <2>3
    <3> QED
      BY <1>1, <2>1, <3>1, RowFrame
  <2>4. CASE o \in ids
    <3>1. message'[m] = "QUEUED" /\ recipient'[m] = "QUEUED" /\ schedule'[m] = "NONE"
      BY <1>1, <1>2, <2>1, <2>2, <2>4, WhatsAppAssumption DEF AgreeInv, LinksInv
    <3>2. CASE status[o] \in {"SUCCEEDED", "UNKNOWN"}
      <4>1. status'[o] = status[o] /\ o \in overwritten'
        BY <1>1, <2>1, <2>4, <3>2
      <4> QED
        BY <1>1, <2>1, <3>2, <4>1 DEF RowInv, RowAgrees, StaysSent, RowWaits, Terminal
    <3>3. CASE status[o] \notin {"SUCCEEDED", "UNKNOWN"}
      <4>1. status'[o] \notin Terminal /\ externalId'[m] = 0
        BY <1>1, <2>1, <2>4, <3>3 DEF RowInv, RowAgrees, Terminal
      <4> QED
        BY <3>1, <4>1 DEF RowInv, RowAgrees, RowWaits, Terminal
    <3> QED
      BY <3>2, <3>3
  <2> QED
    BY <2>3, <2>4
<1> QED
  BY <1>3, <1>4 DEF AgreeInv, Sends

LEMMA AgreeStep ==
    TypeInv /\ TypeInv' /\ WamidInv /\ AgreeInv /\ [Next]_vars => AgreeInv'
<1> SUFFICES ASSUME TypeInv, TypeInv', WamidInv, AgreeInv, [Next]_vars PROVE AgreeInv'
  OBVIOUS
<1>0. \A o \in Outboxes : accepted[o] \in Nat
  BY DEF TypeInv, OutsideTyped
<1>c. UNCHANGED <<broadcast, cancel>> => CancelInv'
  BY DEF AgreeInv, CancelInv
<1>1. CASE UNCHANGED <<status, message, externalId, recipient, schedule, spoiled, broadcast,
                       accepted, cancel, waiting, overwritten>>
  BY <1>0, <1>1, <1>c, AgreeFrame
<1>2. ASSUME NEW w \in Workers, Handle(w) PROVE AgreeInv'
  <2>1. CASE Claim(w)
    <3>1. /\ UNCHANGED <<projVars, accepted, controlVars>>
          /\ \/ UNCHANGED status
             \/ status' = [status EXCEPT ![row[w]] = "PROCESSING"] /\ Claimable(row[w])
      BY <2>1 DEF Claim, rowVars, metaVars
    <3>2. \A o \in Outboxes : \/ status'[o] = status[o]
                              \/ /\ status[o] \notin Terminal \cup {"NONE"}
                                 /\ status'[o] \notin Terminal
      BY <3>1 DEF TypeInv, RowsTyped, Claimable, Terminal
    <3> QED
      BY <1>0, <1>c, <3>1, <3>2, AgreeFrame DEF projVars, controlVars
  <2>2. CASE CallProvider(w)
    <3>1. /\ UNCHANGED <<status, projVars, controlVars>>
          /\ UNCHANGED accepted \/ accepted' = [accepted EXCEPT ![row[w]] = @ + 1]
      BY <2>2 DEF CallProvider, rowVars
    <3>2. \A o \in Outboxes : accepted[o] <= accepted'[o]
      BY <1>0, <3>1 DEF TypeInv, OutsideTyped
    <3> QED
      BY <1>c, <3>1, <3>2, AgreeFrame DEF projVars, controlVars
  <2>3. CASE \/ ReadConnection(w) \/ LoadRecipient(w) \/ UploadMedia(w) \/ StoreUpload(w)
             \/ CheckWindow(w) \/ CallAction(w) \/ Journal(w) \/ CountRecipients(w)
    BY <1>1, <2>3 DEF ReadConnection, LoadRecipient, UploadMedia, StoreUpload, CheckWindow,
                      CallAction, Journal, CountRecipients, rowVars, projVars, metaVars,
                      controlVars
  <2> QED
    BY <1>2, <2>1, <2>2, <2>3, AgreeMark, AgreeCommit DEF Handle
<1>3. ASSUME NEW w \in Workers,
             Crash(w) \/ DatabaseError(w) \/ \E o \in Outboxes : Deliver(w, o)
      PROVE  AgreeInv'
  BY <1>1, <1>3 DEF Crash, DatabaseError, Deliver, rowVars, projVars, metaVars, controlVars
<1>4. ASSUME NEW o \in Outboxes,
             LeaseLapses(o) \/ BecomesDue(o) \/ LoseSignal(o) \/ Recover(o) \/ Enqueue(o)
      PROVE  AgreeInv'
  <2>1. CASE Recover(o)
    <3>1. /\ UNCHANGED <<projVars, accepted, controlVars>> /\ status[o] = "PROCESSING"
          /\ status' = [status EXCEPT ![o] = "RETRY"]
      BY <2>1 DEF Recover, metaVars
    <3>2. \A p \in Outboxes : \/ status'[p] = status[p]
                              \/ /\ status[p] \notin Terminal \cup {"NONE"}
                                 /\ status'[p] \notin Terminal
      BY <3>1 DEF TypeInv, RowsTyped, Terminal
    <3> QED
      BY <1>0, <1>c, <3>1, <3>2, AgreeFrame DEF projVars, controlVars
  <2> QED
    BY <1>1, <1>4, <2>1
       DEF LeaseLapses, BecomesDue, LoseSignal, Enqueue, rowVars, projVars, metaVars, controlVars
<1>5. CASE Control
  <2>1. CASE \/ Pause \/ Resume \/ CancelChecks \/ CancelReads \/ CancelFails
    <3>1. /\ UNCHANGED <<message, externalId, recipient, schedule, accepted, status, spoiled,
                        overwritten>>
          /\ broadcast' = "CANCELLED" <=> broadcast = "CANCELLED"
          /\ CancelInv'
          /\ broadcast = "CANCELLED" => waiting' = waiting
      BY <2>1 DEF Pause, Resume, CancelChecks, CancelReads, CancelFails, AgreeInv, CancelInv,
                  rowVars, projVars, metaVars, controlVars
    <3> QED
      BY <1>0, <3>1, AgreeFrame
  <2>2. ASSUME NEW a \in Retries, RetryChecks(a) \/ RetryReads(a)
        PROVE  AgreeInv'
    BY <1>1, <2>2 DEF RetryChecks, RetryReads, rowVars, projVars, metaVars
  <2> QED
    BY <1>5, <2>1, <2>2, AgreeCancel, AgreeRetry, ControlCases DEF Steers
<1>6. ASSUME NEW o \in Outboxes, Request(o) PROVE AgreeInv'
  <2>1. /\ UNCHANGED <<projVars, accepted, controlVars>>
        /\ status[o] = "NONE" /\ externalId[MessageOf[o]] # 0
        /\ status' = [status EXCEPT ![o] = "PENDING"]
    BY <1>6 DEF Request, metaVars
  <2>2. /\ \A p \in Outboxes : \/ status'[p] = status[p]
                               \/ status[p] \notin Terminal /\ status'[p] \notin Terminal
        /\ \A p \in Outboxes : \/ status[p] # "NONE" \/ status'[p] = "NONE"
                               \/ externalId[MessageOf[p]] # 0
    BY <2>1 DEF TypeInv, RowsTyped, Terminal
  <2> QED
    BY <1>0, <1>c, <2>1, <2>2, AgreeFrame DEF projVars, controlVars
<1>7. CASE UNCHANGED vars
  BY <1>1, <1>7 DEF vars, rowVars, projVars, metaVars, controlVars
<1> QED
  BY <1>2, <1>3, <1>4, <1>5, <1>6, <1>7 DEF Next

LEMMA AgreeInvariant == Spec => [](TypeInv /\ WamidInv /\ AgreeInv)
BY TypeInit, TypeStep, WamidInit, WamidStep, AgreeInit, AgreeStep, PTL DEF Spec

(* The outbox row, its message, its recipient and its schedule tell one
   story, and SENT is backed by a wamid Meta returned for this row. *)
THEOREM ProjectionsAgree == Spec => []ProjectionAgrees
<1>1. AgreeInv => ProjectionAgrees
  BY DEF AgreeInv, RowInv, ProjectionAgrees
<1> QED
  BY <1>1, AgreeInvariant, PTL
-----------------------------------------------------------------------------
(* The CRM half: what is told is decided in the transaction that settles. *)
RowTold(o) ==
    MessageOf[o] \in FromCrm =>
        Told(MessageOf[o]) =
            IF status[o] \in Terminal
            THEN {message[MessageOf[o]]} \cup (IF MessageOf[o] \in spoiled THEN {"SENT"} ELSE {})
            ELSE {}

LEMMA ToldFrame ==
    ASSUME NEW o \in Sends, RowTold(o), MessageOf[o] \in FromCrm,
           \A s \in {"SENT", "FAILED", "UNKNOWN"} :
               <<MessageOf[o], s>> \in crm' <=> <<MessageOf[o], s>> \in crm,
           status'[o] \in Terminal <=> status[o] \in Terminal,
           MessageOf[o] \in spoiled' <=> MessageOf[o] \in spoiled,
           message'[MessageOf[o]] = message[MessageOf[o]]
    PROVE  RowTold(o)'
BY DEF RowTold, Told, Terminal

LEMMA CommitTellsElsewhere ==
    ASSUME TypeInv, NEW w \in Workers, Commit(w), NEW m, m # Msg(w), NEW s
    PROVE  <<m, s>> \in crm' <=> <<m, s>> \in crm
<1>1. CASE \/ UNCHANGED <<rowVars, projVars>> \/ CommitRowOnly(w)
           \/ CommitDeferred(w) \/ CommitCancelled(w)
  BY <1>1 DEF CommitRowOnly, CommitDeferred, CommitCancelled, projVars
<1>2. CASE CommitSent(w)
  BY <1>2 DEF CommitSent, StatusIntent
<1>3. CASE CommitFailed(w)
  BY <1>3 DEF CommitFailed, StatusIntent
<1>4. CASE CommitUnknown(w)
  BY <1>4 DEF CommitUnknown, StatusIntent
<1> QED
  BY <1>1, <1>2, <1>3, <1>4, CommitCases

LEMMA CommitTellsHere ==
    ASSUME TypeInv, AgreeInv, NEW w \in Workers, Commit(w), NEW o \in Sends, row[w] = o,
           RowTold(o), MessageOf[o] \in FromCrm
    PROVE  RowTold(o)'
<1> DEFINE m == MessageOf[o]
<1>0. o \in Outboxes /\ m \in Messages /\ m = Msg(w) /\ o \notin Broadcasted
  BY WhatsAppAssumption DEF Sends, Msg
<1>1. CASE ~Holds(w) /\ UNCHANGED <<rowVars, projVars>>
  BY <1>0, <1>1, ToldFrame DEF rowVars, projVars
<1>2. ASSUME Holds(w)
      PROVE  status[o] = "PROCESSING" /\ Told(m) = {} /\ m \notin spoiled
  BY <1>2 DEF Holds, RowTold, AgreeInv, RowInv, RowAgrees, RequestInv, Terminal
<1>3. CASE Holds(w) /\ CommitRowOnly(w) /\ ctx[w].outcome = "RETRY"
  <2>1. status'[o] = "RETRY" /\ status[o] = "PROCESSING" /\ UNCHANGED <<crm, message, spoiled>>
    BY <1>0, <1>2, <1>3 DEF CommitRowOnly, Release, projVars, TypeInv, RowsTyped
  <2> QED
    BY <2>1, ToldFrame DEF Terminal
<1>4. CASE Holds(w) /\ CommitSent(w)
  <2>1. /\ status'[o] = "SUCCEEDED" /\ message'[m] = "SENT" /\ crm' = crm \cup {<<m, "SENT">>}
        /\ m \notin spoiled'
    BY <1>0, <1>2, <1>4 DEF CommitSent, Release, StatusIntent, TypeInv, RowsTyped, ProjectionsTyped
  <2>2. Told(m)' = {"SENT"}
    BY <1>2, <1>4, <2>1 DEF Told
  <2> QED
    BY <2>1, <2>2 DEF RowTold, Terminal
<1>5. CASE Holds(w) /\ CommitFailed(w)
  <2>1. /\ status'[o] = "FAILED" /\ message'[m] = "FAILED" /\ m \notin spoiled'
        /\ \A s \in {"SENT", "FAILED", "UNKNOWN"} :
              <<m, s>> \in crm' <=> <<m, s>> \in crm \/ s = "FAILED"
    BY <1>0, <1>2, <1>5 DEF CommitFailed, Release, StatusIntent, TypeInv, RowsTyped, ProjectionsTyped
  <2>2. Told(m)' = {"FAILED"}
    BY <1>2, <1>5, <2>1 DEF Told
  <2> QED
    BY <2>1, <2>2 DEF RowTold, Terminal
<1>6. CASE Holds(w) /\ CommitUnknown(w)
  <2>1. /\ status'[o] = "UNKNOWN" /\ message'[m] = "UNKNOWN"
        /\ crm' = crm \cup {<<m, "UNKNOWN">>} /\ m \notin spoiled'
    BY <1>0, <1>2, <1>6 DEF CommitUnknown, Release, StatusIntent, TypeInv, RowsTyped, ProjectionsTyped
  <2>2. Told(m)' = {"UNKNOWN"}
    BY <1>2, <1>6, <2>1 DEF Told
  <2> QED
    BY <2>1, <2>2 DEF RowTold, Terminal
<1> QED
  BY <1>0, <1>1, <1>3, <1>4, <1>5, <1>6, CommitCases DEF Sends

(* A failed row of another action adds FAILED to what was told. *)
LEMMA CommitTellsBeside ==
    ASSUME TypeInv, WamidInv, AgreeInv, NEW w \in Workers, Commit(w), NEW o \in Sends, row[w] # o,
           MessageOf[o] = Msg(w), RowTold(o), MessageOf[o] \in FromCrm
    PROVE  RowTold(o)'
<1> DEFINE m == MessageOf[o]
<1>0. /\ o \in Outboxes /\ m \in Messages /\ RowInv(o) /\ row[w] \in Outboxes
      /\ row[w] \notin Sends /\ Msg(w) = MessageOf[row[w]] /\ o \notin Broadcasted
  BY BusyHasRow, OwnMessage, WhatsAppAssumption DEF AgreeInv, Sends, Msg, Commit, At
<1>1. status'[o] = status[o]
  BY <1>0, CommitElsewhere
<1>2. CASE UNCHANGED projVars
  BY <1>0, <1>1, <1>2, ToldFrame DEF projVars
<1>3. CASE Holds(w) /\ CommitFailed(w)
  <2>1. externalId[m] # 0
    <3>1. status[row[w]] # "NONE"
      BY <1>3 DEF Holds
    <3> QED
      BY <1>0, <3>1 DEF AgreeInv, RequestInv
  <2>2. status[o] = "SUCCEEDED"
    BY <1>0, <2>1 DEF RowInv, RowAgrees, Terminal
  <2>3. o \notin overwritten
    BY <1>0 DEF TypeInv, OutsideTyped
  <2>4. message[m] = "SENT" \/ (message[m] = "FAILED" /\ m \in spoiled)
    <3>1. StaysSent(o)
      BY <1>0, <2>2 DEF RowInv, RowAgrees
    <3> QED
      BY <2>3, <3>1 DEF StaysSent, Shows
  <2>5. /\ message'[m] = "FAILED" /\ m \in spoiled'
        /\ \A s \in {"SENT", "FAILED", "UNKNOWN"} :
              <<m, s>> \in crm' <=> <<m, s>> \in crm \/ s = "FAILED"
    BY <1>0, <1>3 DEF CommitFailed, StatusIntent, TypeInv, ProjectionsTyped
  <2>6. Told(m) \in {{"SENT"}, {"SENT", "FAILED"}}
    BY <2>2, <2>4 DEF RowTold, Terminal
  <2>7. Told(m)' = Told(m) \cup {"FAILED"}
    BY <2>5 DEF Told
  <2>8. Told(m)' = {"FAILED"} \cup {"SENT"}
    BY <2>6, <2>7
  <2> QED
    BY <1>1, <2>2, <2>5, <2>8 DEF RowTold, Terminal
<1>4. ~(ctx[w].outcome \in {"SUCCEEDED", "UNKNOWN"} /\ ~ctx[w].only) /\ row[w] \notin Broadcasted
  BY <1>0, WhatsAppAssumption DEF WamidInv, Sends
<1> QED
  BY <1>2, <1>3, <1>4, CommitCases DEF CommitRowOnly, projVars

LEMMA ToldCommit ==
    ASSUME TypeInv, WamidInv, AgreeInv, CrmLearnsOutcome, NEW w \in Workers, Commit(w)
    PROVE  CrmLearnsOutcome'
<1>0. row[w] \in Outboxes /\ Msg(w) = MessageOf[row[w]]
  BY BusyHasRow DEF Commit, At, Msg
<1>1. ASSUME NEW o \in Sends, MessageOf[o] \in FromCrm PROVE RowTold(o)'
  <2>1. RowTold(o)
    BY DEF CrmLearnsOutcome, RowTold
  <2>2. CASE o = row[w]
    BY <1>1, <2>1, <2>2, CommitTellsHere
  <2>3. CASE o # row[w] /\ MessageOf[o] = Msg(w)
    BY <1>1, <2>1, <2>3, CommitTellsBeside
  <2>4. CASE o # row[w] /\ MessageOf[o] # Msg(w)
    <3>1. MessageOf[o] \in Messages /\ o \in Outboxes
      BY WhatsAppAssumption DEF Sends
    <3>2. /\ \A s \in {"SENT", "FAILED", "UNKNOWN"} :
               <<MessageOf[o], s>> \in crm' <=> <<MessageOf[o], s>> \in crm
          /\ status'[o] = status[o]
          /\ message'[MessageOf[o]] = message[MessageOf[o]]
          /\ MessageOf[o] \in spoiled' <=> MessageOf[o] \in spoiled
      BY <2>4, <3>1, CommitElsewhere, CommitTellsElsewhere
    <3> QED
      BY <1>1, <2>1, <3>2, ToldFrame
  <2> QED
    BY <2>2, <2>3, <2>4
<1> QED
  BY <1>1 DEF CrmLearnsOutcome, RowTold, Sends

LEMMA ToldStep ==
    TypeInv /\ WamidInv /\ AgreeInv /\ CrmLearnsOutcome /\ [Next]_vars => CrmLearnsOutcome'
<1> SUFFICES ASSUME TypeInv, WamidInv, AgreeInv, CrmLearnsOutcome, [Next]_vars
             PROVE  CrmLearnsOutcome'
  OBVIOUS
<1>1. ASSUME UNCHANGED <<crm, spoiled>>,
             \A o \in Sends : MessageOf[o] \in FromCrm =>
                 /\ status'[o] \in Terminal <=> status[o] \in Terminal
                 /\ message'[MessageOf[o]] = message[MessageOf[o]]
      PROVE  CrmLearnsOutcome'
  <2>1. ASSUME NEW o \in Sends, MessageOf[o] \in FromCrm PROVE RowTold(o)'
    BY <1>1, <2>1, ToldFrame DEF CrmLearnsOutcome, RowTold
  <2> QED
    BY <2>1 DEF CrmLearnsOutcome, RowTold, Sends
<1>2. CASE UNCHANGED <<crm, status, message, spoiled>>
  BY <1>1, <1>2
<1>3. ASSUME NEW w \in Workers, Handle(w) PROVE CrmLearnsOutcome'
  <2>1. CASE Claim(w)
    <3>1. /\ UNCHANGED <<crm, message, spoiled>>
          /\ \/ UNCHANGED status
             \/ status' = [status EXCEPT ![row[w]] = "PROCESSING"] /\ Claimable(row[w])
      BY <2>1 DEF Claim, rowVars, projVars
    <3> QED
      BY <1>1, <3>1 DEF TypeInv, RowsTyped, Claimable, Terminal, Sends
  <2>2. CASE \/ ReadConnection(w) \/ LoadRecipient(w) \/ UploadMedia(w) \/ StoreUpload(w)
             \/ CheckWindow(w) \/ CallAction(w) \/ Journal(w) \/ CountRecipients(w)
             \/ CallProvider(w) \/ MarkRecipient(w) \/ MarkScheduled(w)
    BY <1>2, <2>2 DEF ReadConnection, LoadRecipient, UploadMedia, StoreUpload, CheckWindow,
                      CallAction, Journal, CountRecipients, CallProvider, MarkRecipient,
                      MarkScheduled, rowVars, projVars
  <2> QED
    BY <1>3, <2>1, <2>2, ToldCommit DEF Handle
<1>4. ASSUME NEW w \in Workers,
             Crash(w) \/ DatabaseError(w) \/ \E o \in Outboxes : Deliver(w, o)
      PROVE  CrmLearnsOutcome'
  BY <1>2, <1>4 DEF Crash, DatabaseError, Deliver, rowVars, projVars
<1>5. ASSUME NEW o \in Outboxes,
             LeaseLapses(o) \/ BecomesDue(o) \/ LoseSignal(o) \/ Recover(o) \/ Enqueue(o)
      PROVE  CrmLearnsOutcome'
  <2>1. CASE Recover(o)
    BY <1>1, <2>1 DEF Recover, projVars, TypeInv, RowsTyped, Terminal, Sends
  <2> QED
    BY <1>2, <1>5, <2>1 DEF LeaseLapses, BecomesDue, LoseSignal, Enqueue, rowVars, projVars
<1>6. CASE Control
  <2>1. CASE \/ Pause \/ Resume \/ CancelChecks \/ CancelReads \/ CancelFails
    BY <1>2, <2>1 DEF Pause, Resume, CancelChecks, CancelReads, CancelFails, rowVars, projVars
  <2>2. CASE CancelWrites
    <3> DEFINE theirs == {MessageOf[o] : o \in waiting}
    <3>1. /\ message' = [m \in Messages |->
                           IF m \in theirs /\ message[m] = "QUEUED" THEN "FAILED" ELSE message[m]]
          /\ status' = [o \in Outboxes |->
                          IF o \in waiting /\ status[o] \in {"PENDING", "RETRY"}
                          THEN "FAILED" ELSE status[o]]
          /\ UNCHANGED <<crm, spoiled>>
      BY <2>2 DEF CancelWrites
    <3>2. \A o \in Sends : MessageOf[o] \in FromCrm =>
              MessageOf[o] \notin theirs /\ o \notin waiting /\ MessageOf[o] \in Messages
      BY WhatsAppAssumption DEF Sends, TypeInv, OutsideTyped
    <3> QED
      BY <1>1, <3>1, <3>2 DEF Sends
  <2>3. ASSUME NEW a \in Retries, RetryChecks(a) \/ RetryReads(a) PROVE CrmLearnsOutcome'
    BY <1>2, <2>3 DEF RetryChecks, RetryReads, rowVars, projVars
  <2>4. ASSUME NEW a \in Retries, RetryWrites(a) PROVE CrmLearnsOutcome'
    <3> DEFINE theirs == {MessageOf[o] : o \in retry[a].ids}
    <3>1. /\ message' = [m \in Messages |-> IF m \in theirs THEN "QUEUED" ELSE message[m]]
          /\ status' = [o \in Outboxes |-> IF o \in Reopened(a) THEN "PENDING" ELSE status[o]]
          /\ UNCHANGED <<crm, spoiled>>
      BY <2>4 DEF RetryWrites
    <3>2. retry[a].ids \subseteq Broadcasted /\ Reopened(a) \subseteq Broadcasted
      BY RetryFacts
    <3>3. \A o \in Sends : MessageOf[o] \in FromCrm =>
              MessageOf[o] \notin theirs /\ o \notin Reopened(a) /\ MessageOf[o] \in Messages
      BY <3>2, WhatsAppAssumption DEF Sends
    <3> QED
      BY <1>1, <3>1, <3>3 DEF Sends
  <2> QED
    BY <1>6, <2>1, <2>2, <2>3, <2>4, ControlCases DEF Steers
<1>7. ASSUME NEW o \in Outboxes, Request(o) PROVE CrmLearnsOutcome'
  BY <1>1, <1>7 DEF Request, projVars, TypeInv, RowsTyped, Terminal, Sends
<1>8. CASE UNCHANGED vars
  BY <1>2, <1>8 DEF vars, rowVars, projVars
<1> QED
  BY <1>3, <1>4, <1>5, <1>6, <1>7, <1>8 DEF Next

(* Cyber Pulse is told the outcome of the sending of each of its messages exactly
   when the row is settled, and beside it only the failure of a reaction to that
   message (queueCrmMessageStatus). *)
THEOREM CrmLearns == Spec => []CrmLearnsOutcome
<1>1. Init => CrmLearnsOutcome
  BY DEF Init, CrmLearnsOutcome, Told, Terminal, Sends
<1> QED
  BY <1>1, AgreeInvariant, ToldStep, PTL DEF Spec
-----------------------------------------------------------------------------
(* How often Meta is asked for one send. *)

(* A lease names its claim: the row under a lease has the latest, no handler has
   a later one, and no two handlers of a row have the same. *)
LeaseInv ==
    /\ \A o \in Outboxes : status[o] = "PROCESSING" =>
          lockedBy[o] = leases[o] /\ leases[o] # 0
    /\ \A w \in Workers : row[w] \in Outboxes => lease[w] <= leases[row[w]]
    /\ \A w \in Workers : pc[w] \notin {"idle", "claim"} => lease[w] # 0
    /\ \A v, w \in Workers :
          row[v] \in Outboxes /\ row[v] = row[w] /\ lease[v] = lease[w] /\ lease[v] # 0 => v = w

(* A handler uploads only what its row has and its copy lacks, calls only when its
   copy has it, and knows its outcome only when it comes to write it. *)
PayloadInv ==
    /\ \A w \in Workers :
          /\ pc[w] \in {"upload", "storeUpload"} => row[w] \in WithMedia /\ ~ctx[w].media
          /\ pc[w] \in {"window", "send", "journal"} /\ row[w] \in WithMedia => ctx[w].media
          /\ pc[w] \notin {"count", "commit"} => ctx[w].outcome = "NONE"
    /\ \A o \in Outboxes \ WithMedia : uploads[o] = 0

(* Seen by the row of a handler, its steps are five: it claims the row, works on,
   departs and leaves the row as it is, settles the row, or enters. *)
Claims(w) == Claim(w) /\ Claimable(row[w])
Decides(w) == DatabaseError(w) /\ ~At(w, "claim") /\ ~ctx[w].caught
Works(w) ==
    \/ ReadConnection(w) \/ LoadRecipient(w) \/ MarkRecipient(w) \/ MarkScheduled(w)
    \/ UploadMedia(w) \/ StoreUpload(w) \/ CheckWindow(w) \/ CallProvider(w)
    \/ CallAction(w) \/ CountRecipients(w) \/ (Journal(w) /\ Holds(w)) \/ Decides(w)
Departs(w) ==
    \/ Claim(w) /\ ~Claimable(row[w])
    \/ (Journal(w) \/ Commit(w)) /\ ~Holds(w)
    \/ Crash(w)
    \/ DatabaseError(w) /\ (At(w, "claim") \/ ctx[w].caught)
Settles(w) == Commit(w) /\ Holds(w)
Beside == \/ \E o \in Outboxes : BecomesDue(o) \/ LoseSignal(o) \/ Enqueue(o) \/ Request(o)
          \/ Control \/ UNCHANGED vars

LEMMA StepSplits ==
    ASSUME [Next]_vars
    PROVE  \/ \E w \in Workers :
                Claims(w) \/ Works(w) \/ Departs(w) \/ Settles(w) \/ \E o \in Outboxes : Deliver(w, o)
           \/ \E o \in Outboxes : LeaseLapses(o) \/ Recover(o)
           \/ Beside
<1>1. ASSUME NEW w \in Workers, Handle(w) \/ Crash(w) \/ DatabaseError(w)
      PROVE  Claims(w) \/ Works(w) \/ Departs(w) \/ Settles(w)
  <2>1. CASE Claim(w) \/ Commit(w)
    BY <2>1 DEF Claims, Departs, Settles
  <2>2. CASE Journal(w)
    BY <2>2 DEF Works, Departs
  <2>3. CASE Crash(w) \/ DatabaseError(w)
    BY <2>3 DEF Departs, Works, Decides
  <2>4. CASE Handle(w) /\ ~(Claim(w) \/ Commit(w) \/ Journal(w))
    BY <2>4 DEF Handle, Works
  <2> QED
    BY <1>1, <2>1, <2>2, <2>3, <2>4
<1>2. ASSUME NEW o \in Outboxes, BecomesDue(o) \/ LoseSignal(o) \/ Enqueue(o) \/ Request(o)
      PROVE  Beside
  BY <1>2 DEF Beside
<1>3. Control \/ UNCHANGED vars => Beside
  BY DEF Beside
<1> QED
  BY <1>1, <1>2, <1>3 DEF Next

LEMMA DepartsFrame ==
    ASSUME TypeInv, NEW w \in Workers, Departs(w)
    PROVE  /\ row[w] \in Outboxes /\ pc[w] # "idle" /\ Leave(w)
           /\ UNCHANGED <<status, lockedBy, leases, lapsed, journal, media, accepted, uploads>>
           /\ \/ UNCHANGED gap /\ (pc[w] = "claim" \/ ~Holds(w))
              \/ LoseAnswer(w)
<1>1. pc[w] # "idle" /\ Leave(w)
  BY DEF Departs, Claim, Journal, Commit, Crash, DatabaseError, At
<1>2. UNCHANGED <<status, lockedBy, leases, lapsed, journal, media, accepted, uploads>>
  BY DEF Departs, Claim, Journal, Commit, Crash, DatabaseError, rowVars, metaVars
<1>3. \/ UNCHANGED gap /\ (pc[w] = "claim" \/ ~Holds(w))
      \/ LoseAnswer(w)
  BY DEF Departs, Claim, Journal, Commit, Crash, DatabaseError, At
<1> QED
  BY <1>1, <1>2, <1>3, BusyHasRow

(* A handler that works on goes to another step, with another memory perhaps. *)
Moves(w) == /\ \E s \in Steps \ {"idle", "claim"} : pc' = [pc EXCEPT ![w] = s]
            /\ ctx' = ctx \/ \E new : ctx' = [ctx EXCEPT ![w] = new]

LEMMA DecideMoves ==
    ASSUME NEW w, NEW outcome, NEW code, NEW only, NEW caught,
           Decide(w, outcome, code, only, caught)
    PROVE  Moves(w)
<1>1. \E s \in {"count", "commit"} : pc' = [pc EXCEPT ![w] = s]
  BY DEF Decide, Goto
<1>2. \E new : ctx' = [ctx EXCEPT ![w] = new]
  BY DEF Decide
<1> QED
  BY <1>1, <1>2 DEF Moves, Steps

LEMMA GotoMoves ==
    ASSUME NEW w, NEW s \in Steps \ {"idle", "claim"}, Goto(w, s), UNCHANGED ctx
    PROVE  Moves(w)
BY DEF Goto, Moves

LEMMA WorksMoves ==
    ASSUME TypeInv, NEW w \in Workers, Works(w)
    PROVE  Moves(w)
<1> USE DEF Steps
<1>1. CASE ReadConnection(w)
  <2>1. \/ FailPermanently(w) \/ Decide(w, "SUCCEEDED", "NONE", FALSE, FALSE)
        \/ (Goto(w, "act") \/ Goto(w, "load")) /\ UNCHANGED ctx
    BY <1>1 DEF ReadConnection
  <2> QED
    BY <2>1, DecideMoves, GotoMoves DEF FailPermanently
<1>2. CASE LoadRecipient(w)
  <2>1. \/ (Goto(w, "schedule") \/ Goto(w, "recipient")) /\ UNCHANGED ctx
        \/ Decide(w, "DEFERRED", "NONE", FALSE, FALSE)
        \/ Decide(w, "CANCELLED", "NONE", FALSE, FALSE)
    BY <1>2 DEF LoadRecipient
  <2> QED
    BY <2>1, DecideMoves, GotoMoves
<1>3. CASE MarkRecipient(w) \/ MarkScheduled(w)
  <2>1. \E s \in {"schedule", "upload", "window"} : Goto(w, s) /\ UNCHANGED ctx
    BY <1>3 DEF MarkRecipient, MarkScheduled
  <2> QED
    BY <2>1, GotoMoves
<1>4. CASE UploadMedia(w)
  <2>1. \/ Goto(w, "storeUpload") /\ UNCHANGED ctx
        \/ Decide(w, "UNKNOWN", "NONE", FALSE, FALSE)
        \/ FailPermanently(w) \/ RetryPreparation(w)
    BY <1>4 DEF UploadMedia
  <2> QED
    BY <2>1, DecideMoves, GotoMoves DEF FailPermanently, RetryPreparation
<1>5. CASE StoreUpload(w)
  <2>1. CASE Holds(w)
    BY <1>5, <2>1 DEF StoreUpload, Moves, Goto
  <2>2. CASE ~Holds(w)
    BY <1>5, <2>2, DecideMoves DEF StoreUpload
  <2> QED
    BY <2>1, <2>2
<1>6. CASE CheckWindow(w)
  <2>1. \/ Goto(w, "send") /\ UNCHANGED ctx
        \/ FailPermanently(w) \/ Decide(w, "FAILED", "NONE", FALSE, FALSE)
    BY <1>6 DEF CheckWindow, Unsendable
  <2> QED
    BY <2>1, DecideMoves, GotoMoves DEF FailPermanently
<1>7. CASE CallProvider(w)
  <2>1. \/ ctx' = [ctx EXCEPT ![w] = [@ EXCEPT !.wamid = accepted[row[w]] + 1]]
           /\ Goto(w, "journal")
        \/ \E outcome, code : Decide(w, outcome, code, FALSE, FALSE)
    BY <1>7 DEF CallProvider, SendFails
  <2> QED
    BY <2>1, DecideMoves DEF Moves, Goto
<1>8. CASE CallAction(w)
  <2>1. \E outcome : Decide(w, outcome, "NONE", TRUE, FALSE)
    BY <1>8 DEF CallAction
  <2> QED
    BY <2>1, DecideMoves
<1>9. CASE CountRecipients(w)
  BY <1>9 DEF CountRecipients, Moves, Goto
<1>10. CASE Journal(w) /\ Holds(w)
  BY <1>10 DEF Journal, Moves, Goto
<1>11. CASE Decides(w)
  BY <1>11, DecideMoves DEF Decides, DatabaseError, RetryPreparation
<1> QED
  BY <1>1, <1>2, <1>3, <1>4, <1>5, <1>6, <1>7, <1>8, <1>9, <1>10, <1>11 DEF Works

LEMMA WorksFrame ==
    ASSUME TypeInv, NEW w \in Workers, Works(w)
    PROVE  /\ pc[w] \notin {"idle", "claim"} /\ row[w] \in Outboxes
           /\ UNCHANGED <<status, lockedBy, leases, lapsed, row, lease>>
           /\ pc'[w] \notin {"idle", "claim"}
           /\ \A v \in Workers \ {w} : pc'[v] = pc[v] /\ ctx'[v] = ctx[v]
<1>1. pc[w] \notin {"idle", "claim"} /\ row[w] \in Outboxes
  <2>1. pc[w] \notin {"idle", "claim"}
    BY DEF Works, ReadConnection, LoadRecipient, MarkRecipient, MarkScheduled, UploadMedia,
           StoreUpload, CheckWindow, CallProvider, CallAction, CountRecipients, Journal,
           Decides, DatabaseError, At
  <2> QED
    BY <2>1, BusyHasRow
<1>2. UNCHANGED <<status, lockedBy, leases, lapsed, row, lease>>
  <2>1. CASE ReadConnection(w) \/ LoadRecipient(w) \/ MarkRecipient(w) \/ MarkScheduled(w)
             \/ UploadMedia(w)
    BY <2>1 DEF ReadConnection, LoadRecipient, MarkRecipient, MarkScheduled, UploadMedia, rowVars
  <2>2. CASE StoreUpload(w) \/ CheckWindow(w) \/ CallProvider(w) \/ CallAction(w)
             \/ CountRecipients(w)
    BY <2>2 DEF StoreUpload, CheckWindow, CallProvider, CallAction, CountRecipients, rowVars
  <2>3. CASE (Journal(w) /\ Holds(w)) \/ Decides(w)
    BY <2>3 DEF Journal, Decides, DatabaseError, rowVars
  <2> QED
    BY <2>1, <2>2, <2>3 DEF Works
<1>3. /\ pc'[w] \notin {"idle", "claim"}
      /\ \A v \in Workers \ {w} : pc'[v] = pc[v] /\ ctx'[v] = ctx[v]
  BY WorksMoves DEF Moves, TypeInv, HandlersInv, HandlersTyped
<1> QED
  BY <1>1, <1>2, <1>3

LEMMA SettlesFrame ==
    ASSUME TypeInv, NEW w \in Workers, Settles(w)
    PROVE  /\ row[w] \in Outboxes /\ pc[w] = "commit" /\ Leave(w) /\ Holds(w)
           /\ UNCHANGED <<leases, journal, media, accepted, uploads, gap>>
           /\ \E s \in Terminal \cup {"RETRY"} :
                 /\ status' = [status EXCEPT ![row[w]] = s]
                 /\ lockedBy' = [lockedBy EXCEPT ![row[w]] = 0]
                 /\ lapsed' = [lapsed EXCEPT ![row[w]] = FALSE]
                 /\ s \in {"RETRY", "FAILED"} => ctx[w].outcome # "UNKNOWN"
<1>1. row[w] \in Outboxes /\ pc[w] = "commit" /\ Leave(w) /\ Holds(w) /\ Commit(w)
  BY BusyHasRow DEF Settles, Commit, At
<1>2. /\ ctx[w] \in Ctx /\ ctx[w].outcome # "NONE"
      /\ ctx[w].outcome \in {"DEFERRED", "CANCELLED"} => ~ctx[w].only
  BY <1>1 DEF TypeInv, HandlersInv, HandlersTyped, HandlerInv
<1>3. ctx[w].outcome \in Terminal \cup {"RETRY", "DEFERRED", "CANCELLED"}
  BY <1>2 DEF Ctx
<1>4. \E s \in Terminal \cup {"RETRY"} : Release(w, s) /\ (s \in {"RETRY", "FAILED"} => ctx[w].outcome # "UNKNOWN")
  <2>1. CASE ctx[w].only \/ ctx[w].outcome = "RETRY"
    <3>1. Release(w, ctx[w].outcome)
      BY <1>1, <1>2, <2>1 DEF Commit, CommitRowOnly
    <3> QED
      BY <1>2, <1>3, <2>1, <3>1 DEF Terminal
  <2>2. CASE ~ctx[w].only /\ ctx[w].outcome = "SUCCEEDED"
    BY <1>1, <2>2 DEF Commit, CommitSent, Terminal
  <2>3. CASE ~ctx[w].only /\ ctx[w].outcome = "FAILED"
    BY <1>1, <2>3 DEF Commit, CommitFailed, Terminal
  <2>4. CASE ~ctx[w].only /\ ctx[w].outcome = "UNKNOWN"
    BY <1>1, <2>4 DEF Commit, CommitUnknown, Terminal
  <2>5. CASE ~ctx[w].only /\ ctx[w].outcome = "DEFERRED"
    BY <1>1, <2>5 DEF Commit, CommitDeferred
  <2>6. CASE ~ctx[w].only /\ ctx[w].outcome = "CANCELLED"
    BY <1>1, <2>6 DEF Commit, CommitCancelled, Terminal
  <2> QED
    BY <1>2, <1>3, <2>1, <2>2, <2>3, <2>4, <2>5, <2>6 DEF Terminal
<1>5. UNCHANGED <<accepted, uploads, gap>>
  BY <1>1 DEF Commit, metaVars
<1> QED
  BY <1>1, <1>4, <1>5 DEF Release

LEMMA ClaimsFrame ==
    ASSUME TypeInv, NEW w \in Workers, Claims(w)
    PROVE  LET o == row[w] IN
           /\ o \in Outboxes /\ pc[w] = "claim" /\ lease[w] = 0
           /\ \/ status[o] \in {"PENDING", "RETRY"}
              \/ status[o] = "PROCESSING" /\ lapsed[o]
           /\ status' = [status EXCEPT ![o] = "PROCESSING"]
           /\ leases' = [leases EXCEPT ![o] = @ + 1]
           /\ lockedBy' = [lockedBy EXCEPT ![o] = leases[o] + 1]
           /\ lapsed' = [lapsed EXCEPT ![o] = FALSE]
           /\ lease' = [lease EXCEPT ![w] = leases[o] + 1]
           /\ pc' = [pc EXCEPT ![w] = "start"]
           /\ gap' = [gap EXCEPT ![o] =
                         IF ctx[w].journal # journal[o] \/ ctx[w].media # media[o]
                         THEN @ + 1 ELSE @]
           /\ UNCHANGED <<journal, media, row, ctx, accepted, uploads>>
<1>1. pc[w] = "claim" /\ row[w] \in Outboxes
  BY BusyHasRow DEF Claims, Claim, At
<1>2. lease[w] = 0
  BY <1>1 DEF TypeInv, HandlersInv, HandlerInv
<1> QED
  BY <1>1, <1>2 DEF Claims, Claim, Claimable, Goto, metaVars

(* Beside the handlers a row is only opened, failed or opened again. *)
Open == {"NONE", "PENDING", "RETRY", "FAILED"}

LEMMA BesideFrame ==
    ASSUME TypeInv, Beside
    PROVE  /\ UNCHANGED <<lockedBy, leases, lapsed, journal, media, accepted, uploads, gap,
                          pc, row, lease, ctx>>
           /\ \A o \in Outboxes : \/ status'[o] = status[o]
                                  \/ (status[o] \in Open /\ status'[o] \in Open)
<1>1. CASE \E o \in Outboxes : BecomesDue(o) \/ LoseSignal(o) \/ Enqueue(o)
  BY <1>1 DEF BecomesDue, LoseSignal, Enqueue, rowVars, metaVars, handlerVars
<1>2. CASE Pause \/ Resume
  BY <1>2 DEF Pause, Resume, rowVars, metaVars, handlerVars
<1>3. CASE CancelChecks \/ CancelReads \/ CancelFails
  BY <1>3 DEF CancelChecks, CancelReads, CancelFails, rowVars, metaVars, handlerVars
<1>4. CASE CancelWrites
  <2>1. UNCHANGED <<lockedBy, leases, lapsed, journal, media, accepted, uploads, gap,
                    pc, row, lease, ctx>>
    BY <1>4 DEF CancelWrites, metaVars, handlerVars
  <2>2. status' = [o \in Outboxes |->
                     IF o \in waiting /\ status[o] \in {"PENDING", "RETRY"}
                     THEN "FAILED" ELSE status[o]]
    BY <1>4 DEF CancelWrites
  <2> QED
    BY <2>1, <2>2 DEF Open
<1>5. CASE UNCHANGED vars
  BY <1>5 DEF vars, rowVars, metaVars, handlerVars
<1>6. ASSUME NEW p \in Outboxes, Request(p)
      PROVE  /\ UNCHANGED <<lockedBy, leases, lapsed, journal, media, accepted, uploads, gap,
                            pc, row, lease, ctx>>
             /\ \A o \in Outboxes : \/ status'[o] = status[o]
                                    \/ (status[o] \in Open /\ status'[o] \in Open)
  <2>1. UNCHANGED <<lockedBy, leases, lapsed, journal, media, accepted, uploads, gap,
                    pc, row, lease, ctx>>
    BY <1>6 DEF Request, metaVars, handlerVars
  <2>2. status' = [status EXCEPT ![p] = "PENDING"] /\ status[p] = "NONE"
    BY <1>6 DEF Request
  <2> QED
    BY <2>1, <2>2 DEF Open, TypeInv, RowsTyped
<1>7. ASSUME NEW a \in Retries, RetryChecks(a) \/ RetryReads(a)
      PROVE  UNCHANGED <<status, lockedBy, leases, lapsed, journal, media, accepted, uploads, gap,
                         pc, row, lease, ctx>>
  BY <1>7 DEF RetryChecks, RetryReads, rowVars, metaVars, handlerVars
<1>8. ASSUME NEW a \in Retries, RetryWrites(a)
      PROVE  /\ UNCHANGED <<lockedBy, leases, lapsed, journal, media, accepted, uploads, gap,
                            pc, row, lease, ctx>>
             /\ \A o \in Outboxes : \/ status'[o] = status[o]
                                    \/ (status[o] \in Open /\ status'[o] \in Open)
  <2>1. UNCHANGED <<lockedBy, leases, lapsed, journal, media, accepted, uploads, gap,
                    pc, row, lease, ctx>>
    BY <1>8 DEF RetryWrites, metaVars, handlerVars
  <2>2. status' = [o \in Outboxes |-> IF o \in Reopened(a) THEN "PENDING" ELSE status[o]]
    BY <1>8 DEF RetryWrites
  <2> QED
    BY <2>1, <2>2 DEF Open, Reopened
<1> QED
  BY <1>1, <1>2, <1>3, <1>4, <1>5, <1>6, <1>7, <1>8, ControlCases DEF Beside, Steers

LEMMA EntersFrame ==
    ASSUME TypeInv, NEW w \in Workers, NEW o \in Outboxes, Deliver(w, o)
    PROVE  /\ UNCHANGED <<rowVars, accepted, uploads, gap, lease>>
           /\ lease[w] = 0 /\ pc[w] = "idle"
           /\ \/ UNCHANGED handlerVars
              \/ /\ pc' = [pc EXCEPT ![w] = "claim"] /\ row' = [row EXCEPT ![w] = o]
                 /\ ctx' = [ctx EXCEPT ![w] = [@ EXCEPT !.tries = attempts[o] + 1,
                                    !.journal = journal[o], !.media = media[o]]]
<1>1. pc[w] = "idle"
  BY DEF Deliver, At
<1>2. lease[w] = 0
  BY <1>1 DEF TypeInv, HandlersInv, HandlerInv
<1>3. UNCHANGED <<rowVars, accepted, uploads, gap, lease>>
  BY DEF Deliver, metaVars, handlerVars
<1> QED
  BY <1>1, <1>2, <1>3 DEF Deliver, Goto
-----------------------------------------------------------------------------
LEMMA LeaseStep == TypeInv /\ LeaseInv /\ [Next]_vars => LeaseInv'
<1> SUFFICES ASSUME TypeInv, LeaseInv, [Next]_vars PROVE LeaseInv'
  OBVIOUS
<1>0. /\ status \in [Outboxes -> {"NONE", "PENDING", "RETRY", "PROCESSING"} \cup Terminal]
      /\ leases \in [Outboxes -> Nat] /\ lockedBy \in [Outboxes -> Nat]
      /\ lease \in [Workers -> Nat] /\ row \in [Workers -> Outboxes \cup {NoRow}]
      /\ pc \in [Workers -> Steps]
      /\ \A w \in Workers : pc[w] = "idle" <=> row[w] = NoRow
      /\ NoRow \notin Outboxes
  BY WhatsAppAssumption DEF TypeInv, RowsTyped, HandlersInv, HandlersTyped, HandlerInv
<1>1. ASSUME NEW w \in Workers, Claims(w) PROVE LeaseInv'
  <2> DEFINE o == row[w]
  <2>1. /\ o \in Outboxes /\ pc[w] = "claim"
        /\ status' = [status EXCEPT ![o] = "PROCESSING"]
        /\ leases' = [leases EXCEPT ![o] = @ + 1]
        /\ lockedBy' = [lockedBy EXCEPT ![o] = leases[o] + 1]
        /\ lease' = [lease EXCEPT ![w] = leases[o] + 1]
        /\ pc' = [pc EXCEPT ![w] = "start"] /\ UNCHANGED row
    BY <1>1, ClaimsFrame
  <2>2. /\ leases'[o] = leases[o] + 1 /\ leases[o] \in Nat
        /\ \A v \in Workers \ {w} : lease'[v] = lease[v] /\ pc'[v] = pc[v]
        /\ lease'[w] = leases[o] + 1 /\ pc'[w] = "start"
        /\ \A p \in Outboxes \ {o} : /\ status'[p] = status[p] /\ leases'[p] = leases[p]
                                     /\ lockedBy'[p] = lockedBy[p]
        /\ status'[o] = "PROCESSING" /\ lockedBy'[o] = leases[o] + 1
    BY <1>0, <2>1
  <2>3. \A v \in Workers : row[v] = o => lease[v] # leases[o] + 1
    BY <1>0, <2>1, <2>2 DEF LeaseInv
  <2>4. \A v \in Workers : row'[v] \in Outboxes => lease'[v] <= leases'[row'[v]]
    BY <1>0, <2>1, <2>2 DEF LeaseInv
  <2> HIDE DEF o
  <2>5. ASSUME NEW v \in Workers, NEW u \in Workers, row'[v] \in Outboxes, row'[v] = row'[u],
               lease'[v] = lease'[u], lease'[v] # 0
        PROVE  v = u
    <3>1. row[v] = row[u] /\ row[v] \in Outboxes
      BY <2>1, <2>5
    <3>2. CASE v # w /\ u # w
      BY <2>2, <2>5, <3>1, <3>2 DEF LeaseInv
    <3>3. CASE v = w /\ u # w
      BY <2>2, <2>3, <2>5, <3>1, <3>3 DEF o
    <3>4. CASE v # w /\ u = w
      BY <2>2, <2>3, <2>5, <3>1, <3>4 DEF o
    <3> QED
      BY <3>2, <3>3, <3>4
  <2>6. /\ \A p \in Outboxes : status'[p] = "PROCESSING" =>
              lockedBy'[p] = leases'[p] /\ leases'[p] # 0
        /\ \A v \in Workers : pc'[v] \notin {"idle", "claim"} => lease'[v] # 0
    BY <2>1, <2>2 DEF LeaseInv
  <2> QED
    BY <2>4, <2>5, <2>6 DEF LeaseInv
<1>2. ASSUME NEW w \in Workers, Works(w) PROVE LeaseInv'
  BY <1>2, WorksFrame DEF LeaseInv
<1>3. ASSUME NEW w \in Workers, Leave(w),
             UNCHANGED leases,
             \A o \in Outboxes : /\ status'[o] = "PROCESSING" => status[o] = "PROCESSING"
                                 /\ status'[o] = "PROCESSING" => lockedBy'[o] = lockedBy[o]
      PROVE  LeaseInv'
  <2>1. /\ pc'[w] = "idle" /\ row'[w] = NoRow /\ lease'[w] = 0
        /\ \A v \in Workers \ {w} : pc'[v] = pc[v] /\ row'[v] = row[v] /\ lease'[v] = lease[v]
    BY <1>0, <1>3 DEF Leave
  <2>2. \A o \in Outboxes : status'[o] = "PROCESSING" =>
           lockedBy'[o] = leases'[o] /\ leases'[o] # 0
    <3>1. leases' = leases
      BY <1>3
    <3>2. \A o \in Outboxes : status'[o] = "PROCESSING" => status[o] = "PROCESSING" /\ lockedBy'[o] = lockedBy[o]
      BY <1>3
    <3>3. \A o \in Outboxes : status[o] = "PROCESSING" => lockedBy[o] = leases[o] /\ leases[o] # 0
      BY DEF LeaseInv
    <3> QED
      BY <3>1, <3>2, <3>3
  <2>3. \A v \in Workers : /\ row'[v] \in Outboxes => lease'[v] <= leases'[row'[v]]
                           /\ pc'[v] \notin {"idle", "claim"} => lease'[v] # 0
    BY <1>0, <1>3, <2>1 DEF LeaseInv
  <2>4. ASSUME NEW v \in Workers, NEW u \in Workers, row'[v] \in Outboxes, row'[v] = row'[u],
               lease'[v] = lease'[u], lease'[v] # 0
        PROVE  v = u
    <3>1. v # w /\ u # w
      BY <1>0, <2>1, <2>4
    <3> QED
      BY <2>1, <2>4, <3>1 DEF LeaseInv
  <2>5. \A v, u \in Workers :
          row'[v] \in Outboxes /\ row'[v] = row'[u] /\ lease'[v] = lease'[u] /\ lease'[v] # 0 => v = u
    BY <2>4
  <2> QED
    BY <2>2, <2>3, <2>5 DEF LeaseInv
<1>4. ASSUME NEW w \in Workers, Departs(w) PROVE LeaseInv'
  BY <1>3, <1>4, DepartsFrame
<1>5. ASSUME NEW w \in Workers, Settles(w) PROVE LeaseInv'
  <2>1. \A o \in Outboxes : /\ status'[o] = "PROCESSING" => status[o] = "PROCESSING"
                            /\ status'[o] = "PROCESSING" => lockedBy'[o] = lockedBy[o]
    BY <1>0, <1>5, SettlesFrame DEF Terminal
  <2> QED
    BY <1>3, <1>5, <2>1, SettlesFrame
<1>6. ASSUME NEW w \in Workers, NEW o \in Outboxes, Deliver(w, o) PROVE LeaseInv'
  <2>1. CASE UNCHANGED handlerVars
    BY <1>6, <2>1, EntersFrame DEF LeaseInv, handlerVars, rowVars
  <2>2. CASE pc' = [pc EXCEPT ![w] = "claim"] /\ row' = [row EXCEPT ![w] = o]
    <3>1. UNCHANGED <<status, lockedBy, leases, lease>> /\ lease[w] = 0
      BY <1>6, EntersFrame DEF rowVars
    <3>2. \A v \in Workers \ {w} : pc'[v] = pc[v] /\ row'[v] = row[v]
      BY <1>0, <2>2
    <3>3. pc'[w] = "claim" /\ row'[w] = o
      BY <1>0, <2>2
    <3> QED
      BY <1>0, <3>1, <3>2, <3>3 DEF LeaseInv
  <2> QED
    BY <1>6, <2>1, <2>2, EntersFrame
<1>7. ASSUME NEW o \in Outboxes, LeaseLapses(o) PROVE LeaseInv'
  BY <1>7 DEF LeaseLapses, LeaseInv, handlerVars
<1>8. ASSUME NEW o \in Outboxes, Recover(o) PROVE LeaseInv'
  <2>1. UNCHANGED <<leases, pc, row, lease>>
    BY <1>8 DEF Recover, handlerVars
  <2>2. \A p \in Outboxes : status'[p] = "PROCESSING" =>
             status[p] = "PROCESSING" /\ lockedBy'[p] = lockedBy[p]
    BY <1>0, <1>8 DEF Recover
  <2> QED
    BY <2>1, <2>2 DEF LeaseInv
<1>9. CASE Beside
  <2>1. UNCHANGED <<lockedBy, leases, pc, row, lease>>
    BY <1>9, BesideFrame
  <2>2. \A p \in Outboxes : status'[p] = "PROCESSING" => status[p] = "PROCESSING"
    BY <1>9, BesideFrame DEF Open
  <2> QED
    BY <2>1, <2>2 DEF LeaseInv
<1> QED
  BY <1>1, <1>2, <1>4, <1>5, <1>6, <1>7, <1>8, <1>9, StepSplits
LEMMA LeaseInit == Init => LeaseInv
BY WhatsAppAssumption DEF Init, LeaseInv, NoCtx

LEMMA LeaseInvariant == Spec => []LeaseInv
BY LeaseInit, LeaseStep, AgreeInvariant, PTL DEF Spec
-----------------------------------------------------------------------------
(* COMPLETED is never premature.  A transaction that has counted and still has
   its lease will finish the broadcast. *)
Counted(w) ==
    /\ pc[w] = "commit" /\ ctx[w].alone /\ Holds(w)
    /\ ctx[w].outcome \in Terminal /\ ~ctx[w].only /\ recipient[Msg(w)] # "NONE"

(* Nobody is left to serve, or who is was queued by a late retryFailed(). *)
Finished(m) == recipient[m] \notin Unfinished \/ m \in late

(* What a handler counted stays finished, and a cancelled recipient whose row is
   not settled belongs to a cancelled broadcast. *)
CompletionInv ==
    /\ \A o \in Broadcasted :
          recipient[MessageOf[o]] = "CANCELLED" /\ status[o] \notin Terminal =>
              broadcast = "CANCELLED"
    /\ \A w \in Workers : Counted(w) =>
          broadcast = "CANCELLED" \/ \A m \in Messages \ {Msg(w)} : Finished(m)

Completion == CompletionInv /\ CompletedMeansFinished

LEMMA CompletionFrame ==
    ASSUME Completion, late \subseteq late',
           \A m \in Messages : recipient'[m] \in Unfinished =>
               \/ recipient[m] \in Unfinished
               \/ m \in late'
               \/ broadcast = "CANCELLED"
               \/ broadcast' # "COMPLETED" /\ \A v \in Workers : ~Counted(v)',
           \A o \in Broadcasted :
               recipient'[MessageOf[o]] = "CANCELLED" /\ status'[o] \notin Terminal =>
                   \/ broadcast' = "CANCELLED"
                   \/ recipient[MessageOf[o]] = "CANCELLED" /\ status[o] \notin Terminal,
           broadcast = "CANCELLED" => broadcast' = "CANCELLED",
           broadcast' = "COMPLETED" =>
               \/ broadcast = "COMPLETED"
               \/ \A m \in Messages : Finished(m)',
           \A v \in Workers : Counted(v)' =>
               \/ Counted(v) /\ row'[v] = row[v]
               \/ \A m \in Messages \ {MessageOf[row'[v]]} : Finished(m)'
    PROVE  Completion'
<1>1. (\A o \in Broadcasted :
          recipient[MessageOf[o]] = "CANCELLED" /\ status[o] \notin Terminal =>
              broadcast = "CANCELLED")'
  BY DEF Completion, CompletionInv, Terminal
<1>2. ASSUME NEW v \in Workers, Counted(v)', broadcast' # "CANCELLED"
      PROVE  \A m \in Messages \ {MessageOf[row'[v]]} : Finished(m)'
  <2>1. CASE Counted(v) /\ row'[v] = row[v]
    <3>1. \A m \in Messages \ {MessageOf[row'[v]]} : Finished(m)
      BY <1>2, <2>1 DEF Completion, CompletionInv, Msg
    <3> QED
      BY <1>2, <3>1 DEF Finished, Unfinished
  <2> QED
    BY <1>2, <2>1
<1>3. CompletedMeansFinished'
  <2> SUFFICES ASSUME broadcast' = "COMPLETED", NEW m \in Messages PROVE Finished(m)'
    BY DEF CompletedMeansFinished, Finished
  <2>1. CASE broadcast = "COMPLETED"
    <3>1. Finished(m)
      BY <2>1 DEF Completion, CompletedMeansFinished, Finished
    <3> QED
      BY <2>1, <3>1 DEF Finished, Unfinished
  <2> QED
    BY <2>1
<1> QED
  BY <1>1, <1>2, <1>3 DEF Completion, CompletionInv, Msg

(* A decision that finishes a recipient goes on to count. *)
LEMMA DecideCounts ==
    ASSUME TypeInv, NEW w \in Workers, NEW outcome, NEW code, NEW only \in BOOLEAN, NEW caught,
           Decide(w, outcome, code, only, caught), recipient[Msg(w)] # "NONE",
           ctx'[w].outcome \in Terminal, ~ctx'[w].only
    PROVE  pc'[w] = "count"
<1>1. ctx'[w].outcome = outcome /\ ctx'[w].only = only
  BY DecideFields
<1> QED
  BY <1>1 DEF Decide, Goto, TypeInv, HandlersInv, HandlersTyped

LEMMA OnlyCountLeadsToCommit ==
    ASSUME TypeInv, NEW w \in Workers, Works(w), recipient[Msg(w)] # "NONE",
           ctx'[w].outcome \in Terminal, ~ctx'[w].only, pc'[w] = "commit"
    PROVE  CountRecipients(w)
<1>0. /\ \A outcome, code : \A only, caught \in BOOLEAN : ~Decide(w, outcome, code, only, caught)
      /\ \A s : Goto(w, s) => s = "commit"
  BY DecideCounts DEF Goto, TypeInv, HandlersInv, HandlersTyped
<1>1. ~FailPermanently(w) /\ ~RetryPreparation(w)
  BY <1>0 DEF FailPermanently, RetryPreparation
<1>2. ~ReadConnection(w)
  BY <1>0, <1>1 DEF ReadConnection
<1>3. ~LoadRecipient(w) /\ ~MarkRecipient(w) /\ ~MarkScheduled(w)
  BY <1>0 DEF LoadRecipient, MarkRecipient, MarkScheduled
<1>4. ~UploadMedia(w) /\ ~StoreUpload(w) /\ ~CheckWindow(w)
  BY <1>0, <1>1 DEF UploadMedia, StoreUpload, CheckWindow, Unsendable
<1>5. ~CallProvider(w) /\ ~CallAction(w)
  BY <1>0 DEF CallProvider, SendFails, CallAction
<1>6. ~(Journal(w) /\ Holds(w)) /\ ~Decides(w)
  BY <1>0, <1>1 DEF Journal, Decides, DatabaseError
<1> QED
  BY <1>1, <1>2, <1>3, <1>4, <1>5, <1>6 DEF Works

(* A lease that is lost is not found again. *)
LEMMA HoldsStays ==
    ASSUME TypeInv, LeaseInv, [Next]_vars, NEW v \in Workers,
           pc[v] \notin {"idle", "claim"}, row'[v] = row[v], lease'[v] = lease[v], Holds(v)'
    PROVE  Holds(v)
<1> DEFINE o == row[v]
<1>0. /\ o \in Outboxes /\ status'[o] = "PROCESSING" /\ lockedBy'[o] = lease[v]
      /\ lease[v] <= leases[o] /\ leases[o] \in Nat /\ lease[v] \in Nat
      /\ status \in [Outboxes -> {"NONE", "PENDING", "RETRY", "PROCESSING"} \cup Terminal]
      /\ lockedBy \in [Outboxes -> Nat]
  BY DEF Holds, LeaseInv, TypeInv, RowsTyped, HandlersInv, HandlersTyped
<1> SUFFICES ASSUME status[o] # "PROCESSING" \/ lockedBy[o] # lease[v] PROVE FALSE
  BY <1>0 DEF Holds
<1>1. ASSUME NEW w \in Workers, Claims(w) PROVE FALSE
  BY <1>0, <1>1, ClaimsFrame
<1>2. ASSUME NEW w \in Workers, Works(w) PROVE FALSE
  BY <1>0, <1>2, WorksFrame
<1>3. ASSUME NEW w \in Workers, Departs(w) PROVE FALSE
  BY <1>0, <1>3, DepartsFrame
<1>4. ASSUME NEW w \in Workers, Settles(w) PROVE FALSE
  BY <1>0, <1>4, SettlesFrame DEF Terminal
<1>5. ASSUME NEW w \in Workers, NEW p \in Outboxes, Deliver(w, p) PROVE FALSE
  BY <1>0, <1>5, EntersFrame DEF rowVars
<1>6. ASSUME NEW p \in Outboxes, LeaseLapses(p) \/ Recover(p) PROVE FALSE
  BY <1>0, <1>6 DEF LeaseLapses, Recover
<1>7. CASE Beside
  BY <1>0, <1>7, BesideFrame DEF Open
<1> QED
  BY <1>1, <1>2, <1>3, <1>4, <1>5, <1>6, <1>7, StepSplits

(* A handler comes to the end of its transaction by counting, or was there. *)
LEMMA CommitEntered ==
    ASSUME TypeInv, [Next]_vars, NEW v \in Workers, pc'[v] = "commit",
           recipient[MessageOf[row'[v]]] # "NONE", ctx'[v].outcome \in Terminal, ~ctx'[v].only
    PROVE  \/ CountRecipients(v)
           \/ UNCHANGED <<pc[v], row[v], lease[v], ctx[v]>>
<1>0. /\ pc \in [Workers -> Steps] /\ row \in [Workers -> Outboxes \cup {NoRow}]
      /\ lease \in [Workers -> Nat] /\ ctx \in [Workers -> Ctx]
  BY DEF TypeInv, HandlersInv, HandlersTyped
<1>1. ASSUME NEW w \in Workers, Claims(w) PROVE UNCHANGED <<pc[v], row[v], lease[v], ctx[v]>>
  <2>1. /\ pc' = [pc EXCEPT ![w] = "start"] /\ UNCHANGED <<row, ctx>>
        /\ \E n : lease' = [lease EXCEPT ![w] = n]
    BY <1>1, ClaimsFrame
  <2> QED
    BY <1>0, <2>1
<1>2. ASSUME NEW w \in Workers, Works(w)
      PROVE  CountRecipients(v) \/ UNCHANGED <<pc[v], row[v], lease[v], ctx[v]>>
  <2>1. CASE v = w
    BY <1>2, <2>1, WorksFrame, OnlyCountLeadsToCommit DEF Msg
  <2>2. CASE v # w
    BY <1>2, <2>2, WorksFrame
  <2> QED
    BY <2>1, <2>2
<1>3. ASSUME NEW w \in Workers, Leave(w)
      PROVE  UNCHANGED <<pc[v], row[v], lease[v], ctx[v]>>
  BY <1>0, <1>3 DEF Leave
<1>4. ASSUME NEW w \in Workers, Departs(w) \/ Settles(w)
      PROVE  UNCHANGED <<pc[v], row[v], lease[v], ctx[v]>>
  BY <1>3, <1>4, DepartsFrame, SettlesFrame
<1>5. ASSUME NEW w \in Workers, NEW p \in Outboxes, Deliver(w, p)
      PROVE  UNCHANGED <<pc[v], row[v], lease[v], ctx[v]>>
  <2>1. CASE UNCHANGED handlerVars
    BY <2>1 DEF handlerVars
  <2>2. CASE ~UNCHANGED handlerVars
    <3>1. /\ pc' = [pc EXCEPT ![w] = "claim"] /\ row' = [row EXCEPT ![w] = p]
          /\ \E new : ctx' = [ctx EXCEPT ![w] = new]
          /\ UNCHANGED lease
      BY <1>5, <2>2, EntersFrame
    <3> QED
      BY <1>0, <3>1
  <2> QED
    BY <2>1, <2>2
<1>6. ASSUME NEW p \in Outboxes, LeaseLapses(p) \/ Recover(p)
      PROVE  UNCHANGED <<pc[v], row[v], lease[v], ctx[v]>>
  BY <1>6 DEF LeaseLapses, Recover, handlerVars
<1>7. CASE Beside
  BY <1>7, BesideFrame
<1> QED
  BY <1>1, <1>2, <1>4, <1>5, <1>6, <1>7, StepSplits

LEMMA CountIs ==
    ASSUME TypeInv, NEW w \in Workers, CountRecipients(w), ctx'[w].alone
    PROVE  \A m \in Messages \ {MessageOf[row'[w]]} : Finished(m)'
<1> DEFINE alone == \A m \in Messages \ {Msg(w)} : recipient[m] \notin NonTerminal
           new == [ctx[w] EXCEPT !.alone = alone]
<1>1. ctx' = [ctx EXCEPT ![w] = new] /\ UNCHANGED <<row, recipient, late>>
  BY DEF CountRecipients, projVars, controlVars
<1>2. ctx[w] \in Ctx /\ ctx \in [Workers -> Ctx]
  BY DEF TypeInv, HandlersInv, HandlersTyped
<1>3. alone \in BOOLEAN
  OBVIOUS
<1> HIDE DEF alone
<1>4. new.alone = alone
  BY <1>2, <1>3 DEF Ctx
<1> HIDE DEF new
<1>5. alone
  BY <1>1, <1>2, <1>4
<1> QED
  BY <1>1, <1>5 DEF alone, Finished, NonTerminal, Unfinished, Msg

(* Who has counted has just counted, or had counted before this step. *)
LEMMA CountedStep ==
    ASSUME TypeInv, LeaseInv, LinksInv, LinksInv', [Next]_vars, NEW v \in Workers, Counted(v)'
    PROVE  \/ Counted(v) /\ row'[v] = row[v]
           \/ \A m \in Messages \ {MessageOf[row'[v]]} : Finished(m)'
<1>0. /\ pc'[v] = "commit" /\ ctx'[v].alone /\ Holds(v)'
      /\ ctx'[v].outcome \in Terminal /\ ~ctx'[v].only /\ recipient'[MessageOf[row'[v]]] # "NONE"
      /\ row'[v] \in Outboxes /\ MessageOf[row'[v]] \in Messages
  BY WhatsAppAssumption DEF Counted, Holds, Msg, Terminal
<1>1. recipient[MessageOf[row'[v]]] # "NONE"
  BY <1>0 DEF LinksInv
<1>2. CountRecipients(v) \/ UNCHANGED <<pc[v], row[v], lease[v], ctx[v]>>
  BY <1>0, <1>1, CommitEntered
<1>3. CASE CountRecipients(v)
  BY <1>0, <1>3, CountIs
<1>4. CASE UNCHANGED <<pc[v], row[v], lease[v], ctx[v]>>
  <2>1. Holds(v)
    BY <1>0, <1>4, HoldsStays
  <2> QED
    BY <1>0, <1>1, <1>4, <2>1 DEF Counted, Msg
<1> QED
  BY <1>2, <1>3, <1>4

(* The steps that write none of what completion is about. *)
Bystands == /\ UNCHANGED <<recipient, broadcast, late>>
            /\ \A o \in Outboxes : status'[o] \notin Terminal => status[o] \notin Terminal

LEMMA StepBystands ==
    ASSUME TypeInv, [Next]_vars
    PROVE  \/ \E w \in Workers : MarkRecipient(w) \/ Settles(w)
           \/ Pause \/ Resume \/ CancelWrites \/ \E a \in Retries : RetryWrites(a)
           \/ Bystands
<1>0. status \in [Outboxes -> {"NONE", "PENDING", "RETRY", "PROCESSING"} \cup Terminal]
  BY DEF TypeInv, RowsTyped
<1>1. ASSUME NEW w \in Workers, Claims(w) PROVE Bystands
  <2>1. UNCHANGED <<recipient, broadcast, late>>
    BY <1>1 DEF Claims, Claim, projVars, controlVars
  <2> QED
    BY <1>0, <1>1, <2>1, ClaimsFrame DEF Bystands, Terminal
<1>2. ASSUME NEW w \in Workers, Works(w), ~MarkRecipient(w) PROVE Bystands
  <2>1. UNCHANGED <<recipient, broadcast, late>>
    BY <1>2 DEF Works, ReadConnection, LoadRecipient, MarkScheduled, UploadMedia, StoreUpload,
                CheckWindow, CallProvider, CallAction, CountRecipients, Journal, Decides,
                DatabaseError, projVars, controlVars
  <2> QED
    BY <1>2, <2>1, WorksFrame DEF Bystands
<1>3. ASSUME NEW w \in Workers, Departs(w) PROVE Bystands
  <2>1. UNCHANGED <<recipient, broadcast, late>>
    BY <1>3 DEF Departs, Claim, Journal, Commit, Crash, DatabaseError, projVars, controlVars
  <2> QED
    BY <1>3, <2>1, DepartsFrame DEF Bystands
<1>4. ASSUME NEW w \in Workers, NEW p \in Outboxes, Deliver(w, p) PROVE Bystands
  BY <1>4 DEF Deliver, rowVars, projVars, controlVars, Bystands
<1>5. ASSUME NEW p \in Outboxes,
             \/ LeaseLapses(p) \/ Recover(p) \/ BecomesDue(p) \/ LoseSignal(p) \/ Enqueue(p)
             \/ Request(p)
      PROVE  Bystands
  <2>1. UNCHANGED <<recipient, broadcast, late>>
    BY <1>5 DEF LeaseLapses, Recover, BecomesDue, LoseSignal, Enqueue, Request, projVars,
                controlVars
  <2>2. \/ UNCHANGED status
        \/ \E s : status[p] \notin Terminal /\ status' = [status EXCEPT ![p] = s]
    BY <1>5 DEF LeaseLapses, Recover, BecomesDue, LoseSignal, Enqueue, Request, rowVars, Terminal
  <2> QED
    BY <1>0, <2>1, <2>2 DEF Bystands
<1>6. UNCHANGED vars => Bystands
  BY DEF vars, rowVars, projVars, controlVars, Bystands
<1>7. CASE CancelChecks \/ CancelReads \/ CancelFails
  BY <1>7 DEF CancelChecks, CancelReads, CancelFails, rowVars, projVars, Bystands
<1>8. ASSUME NEW a \in Retries, RetryChecks(a) \/ RetryReads(a) PROVE Bystands
  BY <1>8 DEF RetryChecks, RetryReads, rowVars, projVars, Bystands
<1>9. CASE Control
  BY <1>7, <1>8, <1>9, ControlCases DEF Steers
<1>10. Beside => Bystands \/ Control
  BY <1>5, <1>6 DEF Beside
<1> QED
  BY <1>1, <1>2, <1>3, <1>4, <1>5, <1>9, <1>10, StepSplits

LEMMA CompletionMark ==
    ASSUME TypeInv, Completion, NEW w \in Workers, MarkRecipient(w),
           \A v \in Workers : Counted(v)' =>
               \/ Counted(v) /\ row'[v] = row[v]
               \/ \A m \in Messages \ {MessageOf[row'[v]]} : Finished(m)'
    PROVE  Completion'
<1>1. /\ recipient' = [recipient EXCEPT ![Msg(w)] =
                         IF @ \in {"QUEUED", "PROCESSING"} THEN "PROCESSING" ELSE @]
      /\ UNCHANGED <<status, broadcast, late>>
  BY DEF MarkRecipient, rowVars, controlVars
<1>2. \A m : /\ recipient'[m] \in Unfinished => recipient[m] \in Unfinished
             /\ recipient'[m] = "CANCELLED" => recipient[m] = "CANCELLED"
  BY <1>1 DEF TypeInv, ProjectionsTyped, Unfinished
<1> QED
  BY <1>1, <1>2, CompletionFrame

(* The recipient of a row under a current lease is unfinished, unless its
   broadcast is cancelled: nobody can have counted it as finished. *)
LEMMA HeldIsUnfinished ==
    ASSUME TypeInv, AgreeInv, Completion, NEW w \in Workers, Holds(w), row[w] \in Broadcasted
    PROVE  recipient[Msg(w)] \in Unfinished \/ broadcast = "CANCELLED"
<1>1. row[w] \in Sends /\ Msg(w) = MessageOf[row[w]] /\ Msg(w) \in Messages
  BY WhatsAppAssumption DEF Sends, Msg
<1>2. /\ recipient[Msg(w)] \in {"QUEUED", "PROCESSING", "CANCELLED"}
      /\ status[row[w]] \notin Terminal
  BY <1>1 DEF AgreeInv, LinksInv, RowInv, RowWaits, Holds, Terminal
<1> QED
  BY <1>1, <1>2 DEF Completion, CompletionInv, Unfinished

LEMMA CompletionCommit ==
    ASSUME TypeInv, AgreeInv, Completion, NEW w \in Workers, Settles(w),
           \A v \in Workers : Counted(v)' =>
               \/ Counted(v) /\ row'[v] = row[v]
               \/ \A m \in Messages \ {MessageOf[row'[v]]} : Finished(m)'
    PROVE  Completion'
<1> DEFINE n == Msg(w)
<1>0. /\ row[w] \in Outboxes /\ n \in Messages /\ n = MessageOf[row[w]] /\ Holds(w)
      /\ pc[w] = "commit" /\ Commit(w) /\ UNCHANGED late
      /\ recipient \in [Messages ->
            {"NONE", "QUEUED", "PROCESSING", "SENT", "FAILED", "UNKNOWN", "CANCELLED"}]
  BY BusyHasRow DEF Settles, Commit, At, Msg, controlVars, TypeInv, ProjectionsTyped
<1>1. \A o \in Broadcasted : /\ o \in Outboxes
                             /\ status'[o] \notin Terminal => status[o] \notin Terminal
  BY SettlesFrame, WhatsAppAssumption DEF Holds, Terminal, TypeInv, RowsTyped
<1>2. CASE UNCHANGED <<recipient, broadcast>>
  BY <1>0, <1>1, <1>2, CompletionFrame
<1>3. ASSUME NEW new \in {"SENT", "FAILED", "UNKNOWN"}, FinishRecipient(w, new),
             ctx[w].outcome \in Terminal, ~ctx[w].only
      PROVE  Completion'
  <2>1. \A m \in Messages : /\ recipient'[m] \in Unfinished => recipient[m] \in Unfinished
                            /\ recipient'[m] = "CANCELLED" => recipient[m] = "CANCELLED"
    BY <1>0, <1>3 DEF FinishRecipient, Unfinished
  <2>2. \A o \in Broadcasted : MessageOf[o] \in Messages
    BY <1>1, WhatsAppAssumption
  <2>3. CASE UNCHANGED broadcast
    BY <1>0, <1>1, <2>1, <2>2, <2>3, CompletionFrame
  <2>4. CASE /\ recipient[n] # "NONE" /\ ctx[w].alone
             /\ broadcast = "RUNNING" /\ broadcast' = "COMPLETED"
    <3>1. \A m \in Messages \ {n} : Finished(m)
      BY <1>0, <1>3, <2>4 DEF Counted, Completion, CompletionInv
    <3>2. recipient'[n] \notin Unfinished
      BY <1>0, <1>3 DEF FinishRecipient, Unfinished
    <3>3. \A m \in Messages : Finished(m)'
      BY <1>0, <2>1, <3>1, <3>2 DEF Finished
    <3> QED
      BY <1>0, <1>1, <2>1, <2>2, <2>4, <3>3, CompletionFrame
  <2> QED
    BY <1>0, <1>3, <2>3, <2>4 DEF FinishRecipient
<1>4. CASE CommitDeferred(w) /\ row[w] \in Broadcasted
  <2>1. recipient[n] \in Unfinished \/ broadcast = "CANCELLED"
    BY <1>0, <1>4, HeldIsUnfinished
  <2>2. recipient' = [recipient EXCEPT ![n] = "QUEUED"] /\ UNCHANGED broadcast
    BY <1>4 DEF CommitDeferred
  <2>3. /\ \A m \in Messages : recipient'[m] \in Unfinished =>
                                  recipient[m] \in Unfinished \/ broadcast = "CANCELLED"
        /\ \A m \in Messages : recipient'[m] = "CANCELLED" => recipient[m] = "CANCELLED"
    BY <1>0, <2>1, <2>2
  <2>4. \A o \in Broadcasted : MessageOf[o] \in Messages
    BY <1>1, WhatsAppAssumption
  <2> QED
    BY <1>0, <1>1, <2>2, <2>3, <2>4, CompletionFrame
<1>5. CASE CommitCancelled(w) /\ row[w] \in Broadcasted
  <2>1. /\ recipient' = [recipient EXCEPT ![n] =
                           IF @ \in {"QUEUED", "PROCESSING"} THEN "CANCELLED" ELSE @]
        /\ status' = [status EXCEPT ![row[w]] = "FAILED"] /\ UNCHANGED broadcast
    BY <1>5 DEF CommitCancelled, Release
  <2>2. \A m \in Messages : recipient'[m] \in Unfinished => recipient[m] \in Unfinished
    BY <1>0, <2>1 DEF Unfinished
  <2>3. ASSUME NEW o \in Broadcasted, recipient'[MessageOf[o]] = "CANCELLED",
               status'[o] \notin Terminal
        PROVE  recipient[MessageOf[o]] = "CANCELLED" /\ status[o] \notin Terminal
    <3>1. o # row[w] /\ status[o] \notin Terminal
      BY <1>0, <1>1, <2>1, <2>3 DEF Terminal, TypeInv, RowsTyped
    <3>2. o \in Sends /\ row[w] \in Sends
      BY <1>5, WhatsAppAssumption DEF Sends
    <3>3. MessageOf[o] # n /\ MessageOf[o] \in Messages
      BY <1>0, <3>1, <3>2, OwnMessage
    <3> QED
      BY <1>0, <2>1, <2>3, <3>1, <3>3
  <2> QED
    BY <1>0, <2>1, <2>2, <2>3, CompletionFrame
<1>6. \/ CommitRowOnly(w)
      \/ CommitSent(w) /\ ctx[w].outcome = "SUCCEEDED" /\ ~ctx[w].only
      \/ CommitFailed(w) /\ ctx[w].outcome = "FAILED" /\ ~ctx[w].only
      \/ CommitUnknown(w) /\ ctx[w].outcome = "UNKNOWN" /\ ~ctx[w].only
      \/ CommitDeferred(w) /\ row[w] \in Broadcasted
      \/ CommitCancelled(w) /\ row[w] \in Broadcasted
  BY <1>0, CommitCases
<1>7. CASE CommitRowOnly(w)
  BY <1>2, <1>7 DEF CommitRowOnly, projVars
<1>8. CASE CommitSent(w) /\ ctx[w].outcome = "SUCCEEDED" /\ ~ctx[w].only
  BY <1>3, <1>8 DEF CommitSent, Terminal
<1>9. CASE CommitFailed(w) /\ ctx[w].outcome = "FAILED" /\ ~ctx[w].only
  BY <1>3, <1>9 DEF CommitFailed, Terminal
<1>10. CASE CommitUnknown(w) /\ ctx[w].outcome = "UNKNOWN" /\ ~ctx[w].only
  BY <1>3, <1>10 DEF CommitUnknown, Terminal
<1> QED
  BY <1>4, <1>5, <1>6, <1>7, <1>8, <1>9, <1>10

LEMMA CompletionControl ==
    ASSUME TypeInv, Completion,
           Pause \/ Resume \/ CancelWrites \/ \E a \in Retries : RetryWrites(a),
           \A v \in Workers : Counted(v)' =>
               \/ Counted(v) /\ row'[v] = row[v]
               \/ \A m \in Messages \ {MessageOf[row'[v]]} : Finished(m)'
    PROVE  Completion'
<1>0. \A o \in Broadcasted : o \in Outboxes /\ MessageOf[o] \in Messages
  BY WhatsAppAssumption
<1>1. CASE Pause \/ Resume
  <2>1. /\ UNCHANGED <<recipient, status, late>>
        /\ broadcast \in {"RUNNING", "PAUSED"} /\ broadcast' \in {"RUNNING", "PAUSED"}
    BY <1>1 DEF Pause, Resume, rowVars, controlVars
  <2> QED
    BY <2>1, CompletionFrame
<1>2. CASE CancelWrites
  <2>1. /\ broadcast' = "CANCELLED" /\ UNCHANGED late
        /\ \A m \in Messages : recipient'[m] \in Unfinished => recipient[m] \in Unfinished
    BY <1>2 DEF CancelWrites, Unfinished
  <2> QED
    BY <2>1, CompletionFrame
<1>3. ASSUME NEW a \in Retries, RetryWrites(a) PROVE Completion'
  <2> DEFINE theirs == {MessageOf[o] : o \in retry[a].ids}
  <2>1. /\ recipient' = [m \in Messages |-> IF m \in theirs THEN "QUEUED" ELSE recipient[m]]
        /\ status' = [o \in Outboxes |-> IF o \in Reopened(a) THEN "PENDING" ELSE status[o]]
        /\ late' = late \cup (IF broadcast = "COMPLETED" \/ Completing THEN theirs ELSE {})
        /\ UNCHANGED <<broadcast, row, pc, ctx, lease, lockedBy>>
        /\ Reopened(a) \subseteq retry[a].ids
    BY <1>3 DEF RetryWrites, handlerVars, Reopened
  <2>2. \A o \in Broadcasted :
            recipient'[MessageOf[o]] = "CANCELLED" /\ status'[o] \notin Terminal =>
                recipient[MessageOf[o]] = "CANCELLED" /\ status[o] \notin Terminal
    <3> TAKE o \in Broadcasted
    <3>1. o \in Reopened(a) => MessageOf[o] \in theirs
      BY <2>1
    <3>2. status'[o] = IF o \in Reopened(a) THEN "PENDING" ELSE status[o]
      BY <1>0, <2>1
    <3>3. recipient'[MessageOf[o]] = IF MessageOf[o] \in theirs THEN "QUEUED"
                                     ELSE recipient[MessageOf[o]]
      BY <1>0, <2>1
    <3> QED
      BY <3>1, <3>2, <3>3
  <2> HIDE DEF theirs
  <2>3. \A m \in Messages : recipient'[m] \in Unfinished => recipient[m] \in Unfinished \/ m \in theirs
    BY <2>1
  <2>4. CASE broadcast = "COMPLETED" \/ Completing
    <3>1. late' = late \cup theirs
      BY <2>1, <2>4
    <3> QED
      BY <2>1, <2>2, <2>3, <3>1, CompletionFrame
  <2>5. CASE broadcast # "COMPLETED" /\ ~Completing
    <3>1. ASSUME NEW v \in Workers, Counted(v)' PROVE FALSE
      <4>1. /\ pc[v] = "commit" /\ ctx[v].alone
            /\ row[v] \in Outboxes /\ status'[row[v]] = "PROCESSING" /\ lockedBy[row[v]] = lease[v]
        BY <2>1, <3>1 DEF Counted, Holds
      <4>2. status[row[v]] = "PROCESSING"
        BY <2>1, <4>1
      <4> QED
        BY <2>5, <4>1, <4>2 DEF Completing, Holds, At
    <3>2. UNCHANGED late
      BY <2>1, <2>5
    <3> QED
      BY <2>1, <2>2, <2>3, <2>5, <3>1, <3>2, CompletionFrame
  <2> QED
    BY <2>4, <2>5
<1> QED
  BY <1>1, <1>2, <1>3

LEMMA CompletionStep ==
    TypeInv /\ LeaseInv /\ AgreeInv /\ AgreeInv' /\ Completion /\ [Next]_vars => Completion'
<1> SUFFICES ASSUME TypeInv, LeaseInv, AgreeInv, AgreeInv', Completion, [Next]_vars
             PROVE  Completion'
  OBVIOUS
<1>1. \A v \in Workers : Counted(v)' =>
          \/ Counted(v) /\ row'[v] = row[v]
          \/ \A m \in Messages \ {MessageOf[row'[v]]} : Finished(m)'
  BY CountedStep DEF AgreeInv
<1>2. CASE Bystands
  <2>1. \A o \in Broadcasted : o \in Outboxes /\ MessageOf[o] \in Messages
    BY WhatsAppAssumption
  <2> QED
    BY <1>1, <1>2, <2>1, CompletionFrame DEF Bystands
<1>3. ASSUME NEW w \in Workers, MarkRecipient(w) \/ Settles(w) PROVE Completion'
  BY <1>1, <1>3, CompletionMark, CompletionCommit
<1>4. CASE Pause \/ Resume \/ CancelWrites \/ \E a \in Retries : RetryWrites(a)
  BY <1>1, <1>4, CompletionControl
<1> QED
  BY <1>2, <1>3, <1>4, StepBystands

(* A broadcast is COMPLETED only when no recipient is left to serve, although
   completeBroadcastIfTerminal counts under READ COMMITTED: what it counted as
   finished stays finished, also beside cancel(), unless retryFailed() writes
   it QUEUED after the count. *)
THEOREM CompletedFinishes == Spec => []CompletedMeansFinished
<1>1. Init => Completion
  <2> SUFFICES ASSUME Init PROVE Completion
    OBVIOUS
  <2>1. /\ broadcast = "RUNNING" /\ \A w \in Workers : pc[w] = "idle"
        /\ \A m \in Messages : recipient[m] # "CANCELLED"
    BY DEF Init
  <2>2. \A o \in Broadcasted : MessageOf[o] \in Messages
    BY WhatsAppAssumption
  <2> QED
    BY <2>1, <2>2 DEF Completion, CompletionInv, CompletedMeansFinished, Counted
<1>2. Completion => CompletedMeansFinished
  BY DEF Completion
<1> QED
  BY <1>1, <1>2, AgreeInvariant, LeaseInvariant, CompletionStep, PTL DEF Spec
-----------------------------------------------------------------------------
(* What a handler remembers when it goes on, and what it then may do. *)
Remembers(w) == /\ ctx'[w].media = ctx[w].media /\ ctx'[w].journal = ctx[w].journal
                /\ ctx'[w].outcome = ctx[w].outcome

PayloadHolds(w) ==
    /\ pc[w] \in {"upload", "storeUpload"} => row[w] \in WithMedia /\ ~ctx[w].media
    /\ pc[w] \in {"window", "send", "journal"} /\ row[w] \in WithMedia => ctx[w].media
    /\ pc[w] \notin {"count", "commit"} => ctx[w].outcome = "NONE"

LEMMA Remembered ==
    ASSUME TypeInv, NEW w \in Workers
    PROVE  /\ \A s : Goto(w, s) => pc'[w] = s
           /\ UNCHANGED ctx => Remembers(w)
           /\ Goto(w, "journal") /\ ctx' = [ctx EXCEPT ![w] = [@ EXCEPT !.wamid = accepted[row[w]] + 1]]
                 => Remembers(w)
           /\ CountRecipients(w) => Remembers(w) /\ pc'[w] = "commit"
           /\ StoreUpload(w) /\ Holds(w) =>
                 /\ pc'[w] = "window" /\ ctx'[w].media /\ ctx'[w].outcome = ctx[w].outcome
                 /\ ctx'[w].journal = ctx[w].journal
           /\ Journal(w) /\ Holds(w) => pc'[w] \in {"count", "commit"}
<1>1. ctx[w] \in Ctx /\ ctx \in [Workers -> Ctx] /\ pc \in [Workers -> Steps]
  BY DEF TypeInv, HandlersInv, HandlersTyped
<1>2. \A s : Goto(w, s) => pc'[w] = s
  BY <1>1 DEF Goto
<1>3. UNCHANGED ctx => Remembers(w)
  BY DEF Remembers
<1>4. ASSUME ctx' = [ctx EXCEPT ![w] = [@ EXCEPT !.wamid = accepted[row[w]] + 1]]
      PROVE  Remembers(w)
  <2> DEFINE new == [ctx[w] EXCEPT !.wamid = accepted[row[w]] + 1]
  <2>1. /\ new.media = ctx[w].media /\ new.journal = ctx[w].journal
        /\ new.outcome = ctx[w].outcome
    BY <1>1 DEF Ctx
  <2>2. ctx' = [ctx EXCEPT ![w] = new]
    BY <1>4
  <2> HIDE DEF new
  <2> QED
    BY <1>1, <2>1, <2>2 DEF Remembers
<1>5. ASSUME CountRecipients(w) PROVE Remembers(w) /\ pc'[w] = "commit"
  <2> DEFINE alone == \A m \in Messages \ {Msg(w)} : recipient[m] \notin NonTerminal
             new == [ctx[w] EXCEPT !.alone = alone]
  <2>1. ctx' = [ctx EXCEPT ![w] = new] /\ pc'[w] = "commit"
    BY <1>2, <1>5 DEF CountRecipients
  <2> HIDE DEF alone
  <2>2. /\ new.media = ctx[w].media /\ new.journal = ctx[w].journal
        /\ new.outcome = ctx[w].outcome
    BY <1>1 DEF Ctx
  <2> HIDE DEF new
  <2> QED
    BY <1>1, <2>1, <2>2 DEF Remembers
<1>6. ASSUME StoreUpload(w), Holds(w)
      PROVE  /\ pc'[w] = "window" /\ ctx'[w].media /\ ctx'[w].outcome = ctx[w].outcome
             /\ ctx'[w].journal = ctx[w].journal
  <2> DEFINE new == [ctx[w] EXCEPT !.media = TRUE]
  <2>1. ctx' = [ctx EXCEPT ![w] = new] /\ pc'[w] = "window"
    BY <1>2, <1>6 DEF StoreUpload
  <2>2. new.media /\ new.journal = ctx[w].journal /\ new.outcome = ctx[w].outcome
    BY <1>1 DEF Ctx
  <2> HIDE DEF new
  <2> QED
    BY <1>1, <2>1, <2>2
<1>7. Journal(w) /\ Holds(w) => pc'[w] \in {"count", "commit"}
  BY <1>2 DEF Journal
<1> QED
  BY <1>2, <1>3, <1>4, <1>5, <1>6, <1>7

(* The steps that work on a row, by where they lead. *)
LEMMA WorksCases ==
    ASSUME TypeInv, NEW w \in Workers, Works(w)
    PROVE  LET now == pc[w]
               next == pc'[w]
               sent == row[w] \in Sends
               decided == /\ next \in {"count", "commit"}
                          /\ ctx'[w].media = ctx[w].media /\ ctx'[w].journal = ctx[w].journal
               quiet == UNCHANGED <<journal, media, accepted, uploads, gap>>
           IN
           \/ /\ now = "start" /\ quiet
              /\ \/ decided
                 \/ next = "act" /\ ~sent /\ Remembers(w)
                 \/ next = "load" /\ ctx[w].journal = 0 /\ Remembers(w)
           \/ /\ now = "load" /\ quiet
              /\ decided \/ (next \in {"recipient", "schedule"} /\ Remembers(w))
           \/ now = "recipient" /\ quiet /\ next = "schedule" /\ Remembers(w)
           \/ /\ now = "schedule" /\ quiet /\ Remembers(w)
              /\ next = IF NeedsUpload(w) THEN "upload" ELSE "window"
           \/ /\ now = "upload" /\ UNCHANGED <<journal, media, accepted, gap>>
              /\ \/ /\ uploads' = [uploads EXCEPT ![row[w]] = @ + 1]
                    /\ \/ next = "storeUpload" /\ Remembers(w)
                       \/ decided /\ ctx'[w].outcome = "UNKNOWN"
                 \/ decided /\ UNCHANGED uploads
           \/ /\ now = "storeUpload" /\ UNCHANGED <<accepted, uploads, gap>>
              /\ \/ /\ Holds(w) /\ next = "window" /\ ctx'[w].media
                    /\ ctx'[w].journal = ctx[w].journal /\ ctx'[w].outcome = ctx[w].outcome
                    /\ media' = [media EXCEPT ![row[w]] = TRUE]
                    /\ journal' = [journal EXCEPT ![row[w]] = ctx[w].journal]
                 \/ ~Holds(w) /\ decided /\ ctx'[w].outcome = "UNKNOWN" /\ UNCHANGED <<journal, media>>
           \/ /\ now = "window" /\ quiet
              /\ decided \/ (next = "send" /\ Remembers(w))
           \/ /\ now = "send" /\ UNCHANGED <<journal, media, uploads>>
              /\ \/ /\ accepted' = [accepted EXCEPT ![row[w]] = @ + 1]
                    /\ \/ next = "journal" /\ Remembers(w) /\ UNCHANGED gap
                       \/ decided /\ ctx'[w].outcome = "UNKNOWN" /\ UNCHANGED gap
                       \/ decided /\ gap' = [gap EXCEPT ![row[w]] = @ + 1]
                 \/ decided /\ UNCHANGED <<accepted, gap>>
           \/ now = "act" /\ decided /\ quiet
           \/ /\ now = "journal" /\ next \in {"count", "commit"} /\ Holds(w)
              /\ UNCHANGED <<accepted, uploads, gap>>
              /\ journal' = [journal EXCEPT ![row[w]] = ctx[w].wamid]
              /\ media' = [media EXCEPT ![row[w]] = ctx[w].media]
           \/ now = "count" /\ next = "commit" /\ Remembers(w) /\ quiet
           \/ /\ decided /\ UNCHANGED <<journal, media, accepted, uploads>> /\ LoseAnswer(w)
<1> DEFINE now == pc[w]
           next == pc'[w]
           decided == /\ next \in {"count", "commit"}
                      /\ ctx'[w].media = ctx[w].media /\ ctx'[w].journal = ctx[w].journal
           quiet == UNCHANGED <<journal, media, accepted, uploads, gap>>
<1>0. row[w] \in Outboxes /\ (row[w] \in Sends <=> Action[row[w]] = "SEND")
  BY WorksFrame DEF Sends
<1>1. ASSUME NEW outcome, NEW code, NEW only \in BOOLEAN, NEW caught,
             Decide(w, outcome, code, only, caught)
      PROVE  decided /\ ctx'[w].outcome = outcome
  BY <1>1, DecideFields
<1>2. (FailPermanently(w) => decided) /\ (RetryPreparation(w) => decided)
  BY <1>1 DEF FailPermanently, RetryPreparation
<1>3. CASE ReadConnection(w)
  <2>1. now = "start" /\ quiet
    BY <1>3 DEF ReadConnection, At, rowVars, metaVars
  <2>2. \/ FailPermanently(w)
        \/ Decide(w, "SUCCEEDED", "NONE", FALSE, FALSE)
        \/ Goto(w, "act") /\ UNCHANGED ctx /\ Action[row[w]] # "SEND"
        \/ Goto(w, "load") /\ UNCHANGED ctx /\ ctx[w].journal = 0
    BY <1>0, <1>3 DEF ReadConnection, Journaled
  <2>3. \/ decided
        \/ next = "act" /\ row[w] \notin Sends /\ Remembers(w)
        \/ next = "load" /\ ctx[w].journal = 0 /\ Remembers(w)
    BY <1>0, <1>1, <1>2, <2>2, Remembered
  <2> QED
    BY <2>1, <2>3
<1>4. CASE LoadRecipient(w)
  <2>1. now = "load" /\ quiet
    BY <1>4 DEF LoadRecipient, At, rowVars, metaVars
  <2>2. \/ (Goto(w, "schedule") \/ Goto(w, "recipient")) /\ UNCHANGED ctx
        \/ Decide(w, "DEFERRED", "NONE", FALSE, FALSE)
        \/ Decide(w, "CANCELLED", "NONE", FALSE, FALSE)
    BY <1>4 DEF LoadRecipient
  <2>3. decided \/ (next \in {"recipient", "schedule"} /\ Remembers(w))
    BY <1>1, <2>2, Remembered
  <2> QED
    BY <2>1, <2>3
<1>5. CASE MarkRecipient(w)
  BY <1>5, Remembered DEF MarkRecipient, At, rowVars, metaVars
<1>6. CASE MarkScheduled(w)
  BY <1>6, Remembered DEF MarkScheduled, At, rowVars, metaVars
<1>7. CASE UploadMedia(w)
  <2>1. now = "upload" /\ UNCHANGED <<journal, media, accepted, gap>>
    BY <1>7 DEF UploadMedia, At, rowVars
  <2>2. \/ /\ uploads' = [uploads EXCEPT ![row[w]] = @ + 1]
           /\ \/ Goto(w, "storeUpload") /\ UNCHANGED ctx
              \/ Decide(w, "UNKNOWN", "NONE", FALSE, FALSE)
        \/ /\ UNCHANGED uploads
           /\ \/ FailPermanently(w) \/ RetryPreparation(w)
              \/ Decide(w, "UNKNOWN", "NONE", FALSE, FALSE)
    BY <1>7 DEF UploadMedia
  <2>3. \/ /\ uploads' = [uploads EXCEPT ![row[w]] = @ + 1]
           /\ \/ next = "storeUpload" /\ Remembers(w)
              \/ decided /\ ctx'[w].outcome = "UNKNOWN"
        \/ decided /\ UNCHANGED uploads
    BY <1>1, <1>2, <2>2, Remembered
  <2> QED
    BY <2>1, <2>3
<1>8. CASE StoreUpload(w)
  <2>1. now = "storeUpload" /\ UNCHANGED <<accepted, uploads, gap>>
    BY <1>8 DEF StoreUpload, At, metaVars
  <2>2. CASE Holds(w)
    <3>1. /\ media' = [media EXCEPT ![row[w]] = TRUE]
          /\ journal' = [journal EXCEPT ![row[w]] = ctx[w].journal]
      BY <1>8, <2>2 DEF StoreUpload
    <3> QED
      BY <1>8, <2>1, <2>2, <3>1, Remembered
  <2>3. CASE ~Holds(w)
    <3>1. Decide(w, "UNKNOWN", "NONE", FALSE, FALSE) /\ UNCHANGED <<journal, media>>
      BY <1>8, <2>3 DEF StoreUpload
    <3> QED
      BY <1>1, <2>1, <2>3, <3>1
  <2> QED
    BY <2>2, <2>3
<1>9. CASE CheckWindow(w)
  <2>1. now = "window" /\ quiet
    BY <1>9 DEF CheckWindow, At, rowVars, metaVars
  <2>2. \/ Goto(w, "send") /\ UNCHANGED ctx
        \/ FailPermanently(w) \/ Decide(w, "FAILED", "NONE", FALSE, FALSE)
    BY <1>9 DEF CheckWindow, Unsendable
  <2>3. decided \/ (next = "send" /\ Remembers(w))
    BY <1>1, <1>2, <2>2, Remembered
  <2> QED
    BY <2>1, <2>3
<1>10. CASE CallProvider(w)
  <2>1. now = "send" /\ UNCHANGED <<journal, media, uploads>>
    BY <1>10 DEF CallProvider, At, rowVars
  <2>2. \/ /\ accepted' = [accepted EXCEPT ![row[w]] = @ + 1]
           /\ \/ /\ ctx' = [ctx EXCEPT ![w] = [@ EXCEPT !.wamid = accepted[row[w]] + 1]]
                 /\ Goto(w, "journal") /\ UNCHANGED gap
              \/ Decide(w, "UNKNOWN", "NONE", FALSE, FALSE) /\ UNCHANGED gap
              \/ /\ Decide(w, RetryOrFail(w), "NONE", FALSE, FALSE)
                 /\ gap' = [gap EXCEPT ![row[w]] = @ + 1]
        \/ /\ UNCHANGED <<accepted, gap>>
           /\ \E outcome, code : Decide(w, outcome, code, FALSE, FALSE)
    BY <1>10 DEF CallProvider, SendFails
  <2>3. \/ /\ accepted' = [accepted EXCEPT ![row[w]] = @ + 1]
           /\ \/ next = "journal" /\ Remembers(w) /\ UNCHANGED gap
              \/ decided /\ ctx'[w].outcome = "UNKNOWN" /\ UNCHANGED gap
              \/ decided /\ gap' = [gap EXCEPT ![row[w]] = @ + 1]
        \/ decided /\ UNCHANGED <<accepted, gap>>
    BY <1>1, <2>2, Remembered
  <2> QED
    BY <2>1, <2>3
<1>11. CASE CallAction(w)
  <2>1. now = "act" /\ quiet /\ \E outcome : Decide(w, outcome, "NONE", TRUE, FALSE)
    BY <1>11 DEF CallAction, At, rowVars, metaVars
  <2>2. decided
    BY <1>1, <2>1
  <2> QED
    BY <2>1, <2>2
<1>12. CASE Journal(w) /\ Holds(w)
  <2>1. /\ now = "journal" /\ UNCHANGED <<accepted, uploads, gap>>
        /\ journal' = [journal EXCEPT ![row[w]] = ctx[w].wamid]
        /\ media' = [media EXCEPT ![row[w]] = ctx[w].media]
    BY <1>12 DEF Journal, At, metaVars
  <2> QED
    BY <1>12, <2>1, Remembered
<1>13. CASE CountRecipients(w)
  <2>1. now = "count" /\ quiet
    BY <1>13 DEF CountRecipients, At, rowVars, metaVars
  <2> QED
    BY <1>13, <2>1, Remembered
<1>14. CASE Decides(w)
  <2>1. /\ UNCHANGED <<journal, media, accepted, uploads>> /\ LoseAnswer(w)
        /\ RetryPreparation(w)
    BY <1>14 DEF Decides, DatabaseError, rowVars, metaVars
  <2> QED
    BY <1>2, <2>1
<1> QED
  BY <1>3, <1>4, <1>5, <1>6, <1>7, <1>8, <1>9, <1>10, <1>11, <1>12, <1>13, <1>14 DEF Works

LEMMA PayloadWorks ==
    ASSUME TypeInv, PayloadInv, NEW w \in Workers, Works(w)
    PROVE  PayloadInv'
<1>0. /\ row[w] \in Outboxes /\ UNCHANGED row
      /\ \A v \in Workers \ {w} : pc'[v] = pc[v] /\ ctx'[v] = ctx[v]
  BY WorksFrame
<1>1. PayloadHolds(w)
  BY DEF PayloadInv, PayloadHolds
<1>2. PayloadHolds(w)'
  BY <1>0, <1>1, WorksCases DEF PayloadHolds, Remembers, NeedsUpload
<1>3. \A o \in Outboxes \ WithMedia : uploads'[o] = 0
  <2>1. CASE UNCHANGED uploads
    BY <2>1 DEF PayloadInv
  <2>2. CASE row[w] \in WithMedia /\ uploads' = [uploads EXCEPT ![row[w]] = @ + 1]
    BY <2>2 DEF PayloadInv, TypeInv, OutsideTyped
  <2> QED
    BY <1>1, <2>1, <2>2, WorksCases DEF PayloadHolds
<1> QED
  BY <1>0, <1>2, <1>3 DEF PayloadInv, PayloadHolds

LEMMA PayloadStep == TypeInv /\ PayloadInv /\ [Next]_vars => PayloadInv'
<1> SUFFICES ASSUME TypeInv, PayloadInv, [Next]_vars PROVE PayloadInv'
  OBVIOUS
<1>0. /\ pc \in [Workers -> Steps] /\ ctx \in [Workers -> Ctx]
      /\ row \in [Workers -> Outboxes \cup {NoRow}]
      /\ \A w \in Workers : pc[w] \in {"idle", "claim"} => ctx[w].outcome = "NONE"
  BY DEF TypeInv, HandlersInv, HandlersTyped, HandlerInv
<1>1. ASSUME NEW w \in Workers, Claims(w) PROVE PayloadInv'
  <2>1. pc' = [pc EXCEPT ![w] = "start"] /\ UNCHANGED <<row, ctx, uploads>> /\ pc[w] = "claim"
    BY <1>1, ClaimsFrame
  <2> QED
    BY <1>0, <2>1 DEF PayloadInv
<1>2. ASSUME NEW w \in Workers, Works(w) PROVE PayloadInv'
  BY <1>2, PayloadWorks
<1>3. ASSUME NEW w \in Workers, Leave(w), UNCHANGED uploads PROVE PayloadInv'
  <2>1. /\ pc'[w] = "idle" /\ ctx'[w].outcome = "NONE"
        /\ \A v \in Workers \ {w} : pc'[v] = pc[v] /\ row'[v] = row[v] /\ ctx'[v] = ctx[v]
    BY <1>0, <1>3, LeaveFields DEF Leave
  <2> QED
    BY <1>3, <2>1 DEF PayloadInv
<1>4. ASSUME NEW w \in Workers, Departs(w) \/ Settles(w) PROVE PayloadInv'
  BY <1>3, <1>4, DepartsFrame, SettlesFrame
<1>5. ASSUME NEW w \in Workers, NEW o \in Outboxes, Deliver(w, o) PROVE PayloadInv'
  <2>1. CASE UNCHANGED handlerVars
    BY <1>5, <2>1, EntersFrame DEF PayloadInv, handlerVars
  <2>2. CASE ~UNCHANGED handlerVars
    <3> DEFINE new == [ctx[w] EXCEPT !.tries = attempts[o] + 1,
                                   !.journal = journal[o], !.media = media[o]]
    <3>1. /\ pc' = [pc EXCEPT ![w] = "claim"] /\ row' = [row EXCEPT ![w] = o]
          /\ ctx' = [ctx EXCEPT ![w] = new] /\ UNCHANGED uploads /\ pc[w] = "idle"
      BY <1>5, <2>2, EntersFrame
    <3>2. new.outcome = "NONE"
      BY <1>0, <3>1 DEF Ctx
    <3> HIDE DEF new
    <3>3. /\ pc'[w] = "claim" /\ ctx'[w].outcome = "NONE"
          /\ \A v \in Workers \ {w} : pc'[v] = pc[v] /\ row'[v] = row[v] /\ ctx'[v] = ctx[v]
      BY <1>0, <3>1, <3>2
    <3> QED
      BY <3>1, <3>3 DEF PayloadInv
  <2> QED
    BY <2>1, <2>2
<1>6. ASSUME NEW o \in Outboxes, LeaseLapses(o) \/ Recover(o) PROVE PayloadInv'
  BY <1>6 DEF LeaseLapses, Recover, PayloadInv, handlerVars, metaVars
<1>7. CASE Beside
  BY <1>7, BesideFrame DEF PayloadInv
<1> QED
  BY <1>1, <1>2, <1>4, <1>5, <1>6, <1>7, StepSplits
-----------------------------------------------------------------------------
(* The two things Meta is asked for: to send, and to store media. *)
Asked == {"send", "upload"}
Rows(k) == IF k = "send" THEN Sends ELSE Sends \cap WithMedia
Made(k, o) == IF k = "send" THEN accepted[o] ELSE uploads[o]
Written(k, o) == IF k = "send" THEN journal[o] # 0 ELSE media[o]

(* A handler may yet ask, or has asked and not written the answer. *)
MayAsk(k, w) ==
    IF k = "send"
    THEN \/ pc[w] \in {"load", "recipient", "schedule", "upload", "storeUpload", "window", "send"}
         \/ pc[w] = "start" /\ ctx[w].journal = 0
    ELSE pc[w] \in {"start", "load", "recipient", "schedule", "upload"} /\ ~ctx[w].media
InDoubt(k, w) == \/ pc[w] = (IF k = "send" THEN "journal" ELSE "storeUpload")
                 \/ ctx[w].outcome = "UNKNOWN"

(* The leases beside the one in force that may lead to another call: those of
   handlers that lost theirs, and one that ran out and was not yet taken away. *)
Holder(o, w) == row[w] = o /\ Holds(w)
Late(k, o) ==
    {n \in 1..leases[o] : \E w \in Workers :
        /\ row[w] = o /\ lease[w] = n
        /\ (Holds(w) /\ lapsed[o]) \/ (~Holds(w) /\ MayAsk(k, w))}

(* The row itself may lead to another call: its handler's, or, once it is nobody's
   and has no answer written, the next one's.  A failed row may be opened again. *)
Live(k, o) ==
    /\ status[o] \notin {"SUCCEEDED", "UNKNOWN"}
    /\ \/ \E w \in Workers : Holder(o, w) /\ MayAsk(k, w)
       \/ ~Written(k, o) /\ \A w \in Workers : Holder(o, w) => ~InDoubt(k, w)

(* Calls made and calls that may come are paid for: one is owed, the others are
   excused by a gap. *)
Spent(k, o) == Made(k, o) + Cardinality(Late(k, o)) + (IF Live(k, o) THEN 1 ELSE 0)
BudgetInv == \A k \in Asked : \A o \in Rows(k) : Spent(k, o) <= 1 + gap[o]

(* What one step may do to the budget of a row. *)
Still(k, o) == /\ Made(k, o)' = Made(k, o) /\ gap'[o] >= gap[o]
               /\ Late(k, o)' \subseteq Late(k, o) /\ (Live(k, o)' => Live(k, o))
Excused(k, o) == /\ Made(k, o)' = Made(k, o) /\ gap'[o] = gap[o] + 1
                 /\ \/ Late(k, o)' \subseteq Late(k, o)
                    \/ /\ \E n : Late(k, o)' \subseteq Late(k, o) \cup {n}
                       /\ Live(k, o)' => Live(k, o)
Owed(k, o) == /\ Made(k, o)' = Made(k, o) + 1 /\ gap'[o] >= gap[o]
              /\ Late(k, o)' \subseteq Late(k, o) /\ Live(k, o) /\ ~Live(k, o)'
Dropped(k, o) == /\ Made(k, o)' = Made(k, o) /\ gap'[o] >= gap[o]
                 /\ \E n \in Late(k, o) : Late(k, o)' \subseteq Late(k, o) \ {n}
CalledLate(k, o) == /\ Made(k, o)' = Made(k, o) + 1 /\ gap'[o] >= gap[o]
                    /\ \E n \in Late(k, o) : Late(k, o)' \subseteq Late(k, o) \ {n}
                    /\ Live(k, o)' => Live(k, o)
Paid(k, o) == /\ Made(k, o)' = Made(k, o) + 1 /\ gap'[o] = gap[o] + 1
              /\ Late(k, o)' \subseteq Late(k, o) /\ (Live(k, o)' => Live(k, o))

LEMMA RowFacts ==
    TypeInv => \A k \in Asked : \A o \in Rows(k) :
        /\ o \in Outboxes /\ Made(k, o) \in Nat /\ gap[o] \in Nat /\ leases[o] \in Nat
        /\ IsFiniteSet(Late(k, o)) /\ Cardinality(Late(k, o)) \in Nat
<1> SUFFICES ASSUME TypeInv, NEW k \in Asked, NEW o \in Rows(k)
             PROVE  /\ o \in Outboxes /\ Made(k, o) \in Nat /\ gap[o] \in Nat /\ leases[o] \in Nat
                    /\ IsFiniteSet(Late(k, o)) /\ Cardinality(Late(k, o)) \in Nat
  OBVIOUS
<1>1. o \in Outboxes /\ Made(k, o) \in Nat /\ gap[o] \in Nat /\ leases[o] \in Nat
  BY DEF Rows, Sends, Made, TypeInv, RowsTyped, OutsideTyped
<1>2. IsFiniteSet(1..leases[o])
  <2>1. leases[o] \in Int /\ 1 \in Int
    BY <1>1
  <2> QED
    BY <2>1, FS_Interval
<1>3. Late(k, o) \in SUBSET (1..leases[o])
  BY DEF Late
<1> QED
  BY <1>1, <1>2, <1>3, FS_Subset, FS_CardinalityType

LEMMA RowFactsThen ==
    TypeInv' => \A k \in Asked : \A o \in Rows(k) :
        /\ Made(k, o)' \in Nat /\ gap'[o] \in Nat
        /\ IsFiniteSet(Late(k, o)') /\ Cardinality(Late(k, o)') \in Nat
<1>1. TypeInv' => (\A k \in Asked : \A o \in Rows(k) :
        /\ o \in Outboxes /\ Made(k, o) \in Nat /\ gap[o] \in Nat /\ leases[o] \in Nat
        /\ IsFiniteSet(Late(k, o)) /\ Cardinality(Late(k, o)) \in Nat)'
  BY RowFacts, PTL
<1> QED
  BY <1>1

LEMMA BudgetKept ==
    ASSUME TypeInv, TypeInv', NEW k \in Asked, NEW o \in Rows(k), Spent(k, o) <= 1 + gap[o],
           \/ Still(k, o) \/ Excused(k, o) \/ Owed(k, o) \/ Dropped(k, o)
           \/ CalledLate(k, o) \/ Paid(k, o)
    PROVE  Spent(k, o)' <= 1 + gap'[o]
<1> DEFINE S == Late(k, o)
           T == Late(k, o)'
           c == Cardinality(S)
           d == Cardinality(T)
<1>1. /\ Made(k, o) \in Nat /\ gap[o] \in Nat /\ c \in Nat /\ IsFiniteSet(S)
      /\ Made(k, o)' \in Nat /\ gap'[o] \in Nat /\ d \in Nat
  BY RowFacts, RowFactsThen
<1>2. /\ Made(k, o) + c + (IF Live(k, o) THEN 1 ELSE 0) <= 1 + gap[o]
      /\ Spent(k, o)' = Made(k, o)' + d + (IF Live(k, o)' THEN 1 ELSE 0)
  BY DEF Spent
<1> HIDE DEF S, T
<1>3. T \subseteq S => d <= c
  BY <1>1, FS_Subset
<1>4. ASSUME NEW n, T \subseteq S \cup {n} PROVE d <= c + 1
  <2>1. IsFiniteSet(S \cup {n}) /\ Cardinality(S \cup {n}) \in {c, c + 1}
    BY <1>1, FS_AddElement
  <2>2. T \in SUBSET (S \cup {n})
    BY <1>4
  <2>3. d <= Cardinality(S \cup {n})
    BY <2>1, <2>2, FS_Subset
  <2> QED
    BY <1>1, <2>1, <2>3
<1>5. ASSUME NEW n \in S, T \subseteq S \ {n} PROVE d <= c - 1
  <2>1. IsFiniteSet(S \ {n}) /\ Cardinality(S \ {n}) = c - 1
    BY <1>1, FS_RemoveElement
  <2>2. T \in SUBSET (S \ {n})
    BY <1>5
  <2>3. d <= Cardinality(S \ {n})
    BY <2>1, <2>2, FS_Subset
  <2> QED
    BY <1>1, <2>1, <2>3
<1> HIDE DEF c, d
<1>6. CASE Still(k, o)
  BY <1>1, <1>2, <1>3, <1>6 DEF Still, S, T
<1>7. CASE Excused(k, o)
  <2>1. d <= c \/ (d <= c + 1 /\ (Live(k, o)' => Live(k, o)))
    BY <1>3, <1>4, <1>7 DEF Excused, S, T
  <2> QED
    BY <1>1, <1>2, <1>7, <2>1 DEF Excused
<1>8. CASE Owed(k, o)
  BY <1>1, <1>2, <1>3, <1>8 DEF Owed, S, T
<1>9. CASE Dropped(k, o)
  <2>1. d <= c - 1
    BY <1>5, <1>9 DEF Dropped, S, T
  <2> QED
    BY <1>1, <1>2, <1>9, <2>1 DEF Dropped
<1>10. CASE CalledLate(k, o)
  <2>1. d <= c - 1
    BY <1>5, <1>10 DEF CalledLate, S, T
  <2> QED
    BY <1>1, <1>2, <1>10, <2>1 DEF CalledLate
<1>11. CASE Paid(k, o)
  BY <1>1, <1>2, <1>3, <1>11 DEF Paid, S, T
<1> QED
  BY <1>6, <1>7, <1>8, <1>9, <1>10, <1>11
-----------------------------------------------------------------------------
(* A step that neither the row nor the handlers with a lease of it notice. *)
LEMMA Undisturbed ==
    ASSUME LeaseInv, TypeInv, NEW k \in Asked, NEW o \in Rows(k),
           leases'[o] = leases[o], lockedBy'[o] = lockedBy[o], lapsed'[o] = lapsed[o],
           Made(k, o)' = Made(k, o), Written(k, o)' = Written(k, o), gap'[o] >= gap[o],
           status'[o] = status[o] \/ (status[o] \in Open /\ status'[o] \in Open),
           \A v \in Workers : \/ /\ row'[v] = row[v] /\ lease'[v] = lease[v]
                                 /\ pc'[v] = pc[v] /\ ctx'[v] = ctx[v]
                              \/ lease'[v] = 0 /\ lease[v] = 0
                              \/ row[v] # o /\ row'[v] # o
    PROVE  Still(k, o)
<1>0. o \in Outboxes
  BY DEF Rows, Sends
<1>1. \A v \in Workers :
        /\ row'[v] = o /\ Holds(v)' => row[v] = o /\ Holds(v) /\ pc'[v] = pc[v] /\ ctx'[v] = ctx[v]
        /\ row[v] = o /\ row'[v] = o /\ lease'[v] # 0 => (Holds(v) => status'[o] # status[o] \/ Holds(v)')
  BY <1>0 DEF Holds, LeaseInv, Open
<1>2. \A v \in Workers : pc'[v] = pc[v] /\ ctx'[v] = ctx[v] =>
        (MayAsk(k, v)' <=> MayAsk(k, v)) /\ (InDoubt(k, v)' <=> InDoubt(k, v))
  BY DEF MayAsk, InDoubt
<1>3. \A v \in Workers : row[v] = o /\ Holds(v) => status[o] = "PROCESSING" /\ lease[v] # 0
  BY <1>0 DEF Holds, LeaseInv
<1>4. Late(k, o)' \subseteq Late(k, o)
  BY <1>0, <1>1, <1>2, <1>3 DEF Late, Open
<1>5. Live(k, o)' => Live(k, o)
  BY <1>0, <1>1, <1>2, <1>3 DEF Live, Holder, Open
<1> QED
  BY <1>4, <1>5 DEF Still

(* What working on a row does to its budget. *)
LEMMA WorksAsks ==
    ASSUME TypeInv, WamidInv, PayloadInv, NEW w \in Workers, Works(w),
           NEW k \in Asked, NEW o \in Rows(k), row[w] = o
    PROVE  \/ /\ Made(k, o)' = Made(k, o) /\ gap'[o] = gap[o]
              /\ MayAsk(k, w)' => MayAsk(k, w)
              /\ Written(k, o) => Written(k, o)' \/ MayAsk(k, w)
              /\ InDoubt(k, w) => InDoubt(k, w)' \/ Written(k, o)'
              /\ Holds(w) \/ Written(k, o)' = Written(k, o)
           \/ /\ Made(k, o)' = Made(k, o) /\ gap'[o] = gap[o] + 1
              /\ MayAsk(k, w)' => MayAsk(k, w)
           \/ /\ Made(k, o)' = Made(k, o) + 1 /\ gap'[o] = gap[o]
              /\ Written(k, o)' = Written(k, o)
              /\ MayAsk(k, w) /\ ~MayAsk(k, w)' /\ InDoubt(k, w)'
           \/ /\ Made(k, o)' = Made(k, o) + 1 /\ gap'[o] = gap[o] + 1
              /\ Written(k, o)' = Written(k, o)
              /\ MayAsk(k, w) /\ ~MayAsk(k, w)' /\ ~InDoubt(k, w)
<1>0. /\ o \in Outboxes /\ o \in Sends /\ PayloadHolds(w)
      /\ journal[o] \in Nat /\ media[o] \in BOOLEAN /\ ctx[w].media \in BOOLEAN
      /\ accepted[o] \in Nat /\ uploads[o] \in Nat /\ gap[o] \in Nat
      /\ journal \in [Outboxes -> Nat] /\ media \in [Outboxes -> BOOLEAN]
      /\ accepted \in [Outboxes -> Nat] /\ uploads \in [Outboxes -> Nat]
      /\ gap \in [Outboxes -> Nat]
      /\ pc[w] = "journal" => ctx[w].wamid # 0
  <2>1. ctx[w] \in Ctx
    BY DEF TypeInv, HandlersInv, HandlersTyped
  <2>2. o \in Outboxes /\ o \in Sends /\ PayloadHolds(w)
    BY DEF Rows, Sends, PayloadInv, PayloadHolds
  <2>3. pc[w] = "journal" => ctx[w].wamid # 0
    BY <2>2 DEF WamidInv, TypeInv, OutsideTyped
  <2> QED
    BY <2>1, <2>2, <2>3 DEF TypeInv, RowsTyped, OutsideTyped, Ctx
<1> DEFINE next == pc'[w]
           decided == /\ next \in {"count", "commit"}
                      /\ ctx'[w].media = ctx[w].media /\ ctx'[w].journal = ctx[w].journal
           quiet == UNCHANGED <<journal, media, accepted, uploads, gap>>
           lost == decided /\ UNCHANGED <<journal, media, accepted, uploads>> /\ LoseAnswer(w)
           Goal == \/ /\ Made(k, o)' = Made(k, o) /\ gap'[o] = gap[o]
                      /\ MayAsk(k, w)' => MayAsk(k, w)
                      /\ Written(k, o) => Written(k, o)' \/ MayAsk(k, w)
                      /\ InDoubt(k, w) => InDoubt(k, w)' \/ Written(k, o)'
                      /\ Holds(w) \/ Written(k, o)' = Written(k, o)
                   \/ /\ Made(k, o)' = Made(k, o) /\ gap'[o] = gap[o] + 1
                      /\ MayAsk(k, w)' => MayAsk(k, w)
                   \/ /\ Made(k, o)' = Made(k, o) + 1 /\ gap'[o] = gap[o]
                      /\ Written(k, o)' = Written(k, o)
                      /\ MayAsk(k, w) /\ ~MayAsk(k, w)' /\ InDoubt(k, w)'
                   \/ /\ Made(k, o)' = Made(k, o) + 1 /\ gap'[o] = gap[o] + 1
                      /\ Written(k, o)' = Written(k, o)
                      /\ MayAsk(k, w) /\ ~MayAsk(k, w)' /\ ~InDoubt(k, w)
<1>d. decided => ~MayAsk(k, w)'
  BY DEF MayAsk
<1>q. quiet => Made(k, o)' = Made(k, o) /\ gap'[o] = gap[o] /\ Written(k, o)' = Written(k, o)
  BY DEF Made, Written
<1>n. pc[w] \notin {"count", "commit"} => ctx[w].outcome = "NONE"
  BY <1>0 DEF PayloadHolds
<1>1. CASE lost
  <2>1. Made(k, o)' = Made(k, o) /\ Written(k, o)' = Written(k, o) /\ ~MayAsk(k, w)'
    BY <1>1, <1>d DEF Made, Written
  <2>2. gap'[o] = gap[o] + 1 \/ (gap'[o] = gap[o] /\ ~InDoubt(k, w))
    BY <1>0, <1>1 DEF LoseAnswer, Unwritten, InDoubt
  <2> QED
    BY <2>1, <2>2
<1>2. CASE pc[w] = "start" /\ ~lost
  <2>1. quiet /\ (decided \/ (next = "load" /\ ctx[w].journal = 0 /\ Remembers(w)))
    BY <1>0, <1>2, WorksCases
  <2>2. ~InDoubt(k, w)
    BY <1>2, <1>n DEF InDoubt
  <2>3. MayAsk(k, w)' => MayAsk(k, w)
    BY <1>2, <1>d, <2>1 DEF MayAsk, Remembers
  <2> QED
    BY <1>q, <2>1, <2>2, <2>3
<1>3. CASE pc[w] = "load" /\ ~lost
  <2>1. quiet /\ (decided \/ (next \in {"recipient", "schedule"} /\ Remembers(w)))
    BY <1>0, <1>3, WorksCases
  <2>2. ~InDoubt(k, w)
    BY <1>3, <1>n DEF InDoubt
  <2>3. MayAsk(k, w)' => MayAsk(k, w)
    BY <1>3, <1>d, <2>1 DEF MayAsk, Remembers
  <2> QED
    BY <1>q, <2>1, <2>2, <2>3
<1>4. CASE pc[w] \in {"recipient", "schedule"} /\ ~lost
  <2>1. quiet /\ next \in {"schedule", "upload", "window"} /\ Remembers(w)
    BY <1>0, <1>4, WorksCases
  <2>2. ~InDoubt(k, w)
    BY <1>4, <1>n DEF InDoubt
  <2>3. MayAsk(k, w)' => MayAsk(k, w)
    BY <1>4, <2>1 DEF MayAsk, Remembers
  <2> QED
    BY <1>q, <2>1, <2>2, <2>3
<1>5. CASE pc[w] = "upload" /\ ~lost
  <2>1. /\ UNCHANGED <<journal, media, accepted, gap>>
        /\ \/ /\ uploads' = [uploads EXCEPT ![o] = @ + 1]
              /\ \/ next = "storeUpload" /\ Remembers(w)
                 \/ decided /\ ctx'[w].outcome = "UNKNOWN"
           \/ decided /\ UNCHANGED uploads
    BY <1>0, <1>5, WorksCases
  <2>2. ~InDoubt(k, w) /\ MayAsk(k, w)
    BY <1>0, <1>5, <1>n DEF InDoubt, MayAsk, PayloadHolds, Asked
  <2>3. gap'[o] = gap[o] /\ Written(k, o)' = Written(k, o)
    BY <2>1 DEF Written
  <2>4. CASE k = "send"
    <3>1. Made(k, o)' = Made(k, o)
      BY <2>1, <2>4 DEF Made
    <3> QED
      BY <2>2, <2>3, <3>1
  <2>5. CASE k = "upload"
    <3>1. uploads'[o] = uploads[o] + 1 => InDoubt(k, w)' /\ ~MayAsk(k, w)'
      BY <1>0, <2>1, <2>5 DEF InDoubt, MayAsk
    <3>2. uploads'[o] = uploads[o] + 1 \/ uploads'[o] = uploads[o]
      BY <1>0, <2>1
    <3> QED
      BY <2>2, <2>3, <2>5, <3>1, <3>2 DEF Made
  <2> QED
    BY <2>4, <2>5 DEF Asked
<1>6. CASE pc[w] = "storeUpload" /\ ~lost
  <2>1. /\ UNCHANGED <<accepted, uploads, gap>>
        /\ \/ /\ Holds(w) /\ next = "window" /\ ctx'[w].media
              /\ media' = [media EXCEPT ![o] = TRUE]
           \/ decided /\ ctx'[w].outcome = "UNKNOWN" /\ UNCHANGED <<journal, media>>
    BY <1>0, <1>6, WorksCases
  <2>2. Made(k, o)' = Made(k, o) /\ gap'[o] = gap[o]
    BY <2>1 DEF Made
  <2>3. Holds(w) \/ Written(k, o)' = Written(k, o)
    BY <2>1 DEF Written
  <2>4. CASE k = "send"
    <3>1. MayAsk(k, w) /\ ~InDoubt(k, w)
      BY <1>6, <1>n, <2>4 DEF MayAsk, InDoubt
    <3> QED
      BY <2>2, <2>3, <3>1
  <2>5. CASE k = "upload"
    <3>1. ~MayAsk(k, w)' /\ (Written(k, o)' \/ (InDoubt(k, w)' /\ Written(k, o)' = Written(k, o)))
      BY <1>0, <2>1, <2>5 DEF MayAsk, InDoubt, Written
    <3> QED
      BY <2>2, <2>3, <3>1
  <2> QED
    BY <2>4, <2>5 DEF Asked
<1>7. CASE pc[w] = "window" /\ ~lost
  <2>1. quiet /\ (decided \/ (next = "send" /\ Remembers(w)))
    BY <1>0, <1>7, WorksCases
  <2>2. ~InDoubt(k, w)
    BY <1>7, <1>n DEF InDoubt
  <2>3. MayAsk(k, w)' => MayAsk(k, w)
    BY <1>7, <1>d, <2>1 DEF MayAsk
  <2> QED
    BY <1>q, <2>1, <2>2, <2>3
<1>8. CASE pc[w] = "send" /\ ~lost
  <2>1. /\ UNCHANGED <<journal, media, uploads>>
        /\ \/ /\ accepted' = [accepted EXCEPT ![o] = @ + 1]
              /\ \/ next = "journal" /\ UNCHANGED gap
                 \/ decided /\ ctx'[w].outcome = "UNKNOWN" /\ UNCHANGED gap
                 \/ decided /\ gap' = [gap EXCEPT ![o] = @ + 1]
           \/ decided /\ UNCHANGED <<accepted, gap>>
    BY <1>0, <1>8, WorksCases
  <2>2. ~InDoubt(k, w) /\ ~MayAsk(k, w)'
    BY <1>8, <1>n, <2>1 DEF InDoubt, MayAsk
  <2>3. Written(k, o)' = Written(k, o)
    BY <2>1 DEF Written
  <2>4. CASE k = "send"
    <3>1. MayAsk(k, w)
      BY <1>8, <2>4 DEF MayAsk
    <3>2. \/ accepted'[o] = accepted[o] + 1 /\ gap'[o] = gap[o] /\ InDoubt(k, w)'
          \/ accepted'[o] = accepted[o] + 1 /\ gap'[o] = gap[o] + 1
          \/ accepted'[o] = accepted[o] /\ gap'[o] = gap[o]
      BY <1>0, <2>1, <2>4 DEF InDoubt
    <3> QED
      BY <2>2, <2>3, <2>4, <3>1, <3>2 DEF Made
  <2>5. CASE k = "upload"
    <3>1. Made(k, o)' = Made(k, o) /\ (gap'[o] = gap[o] \/ gap'[o] = gap[o] + 1)
      BY <1>0, <2>1, <2>5 DEF Made
    <3> QED
      BY <2>2, <2>3, <3>1
  <2> QED
    BY <2>4, <2>5 DEF Asked
<1>9. CASE pc[w] = "act" /\ ~lost
  <2>1. decided /\ quiet /\ ~InDoubt(k, w)
    BY <1>0, <1>9, <1>n, WorksCases DEF InDoubt
  <2> QED
    BY <1>d, <1>q, <2>1
<1>10. CASE pc[w] = "journal" /\ ~lost
  <2>1. /\ next \in {"count", "commit"} /\ Holds(w) /\ UNCHANGED <<accepted, uploads, gap>>
        /\ journal' = [journal EXCEPT ![o] = ctx[w].wamid]
        /\ media' = [media EXCEPT ![o] = ctx[w].media]
    BY <1>0, <1>10, WorksCases
  <2>2. Written(k, o)'
    BY <1>0, <1>10, <2>1 DEF Written, PayloadHolds, Rows, Asked
  <2>3. Made(k, o)' = Made(k, o) /\ gap'[o] = gap[o] /\ ~MayAsk(k, w)'
    BY <2>1 DEF Made, MayAsk
  <2> QED
    BY <2>1, <2>2, <2>3
<1>11. CASE pc[w] = "count" /\ ~lost
  <2>1. next = "commit" /\ Remembers(w) /\ quiet
    BY <1>0, <1>11, WorksCases
  <2>2. ~MayAsk(k, w)' /\ (InDoubt(k, w) => InDoubt(k, w)')
    BY <1>11, <2>1 DEF MayAsk, InDoubt, Remembers
  <2> QED
    BY <1>q, <2>1, <2>2
<1>12. lost \/ pc[w] \in {"start", "load", "recipient", "schedule", "upload", "storeUpload",
                          "window", "send", "act", "journal", "count"}
  BY WorksCases
<1> QED
  BY <1>1, <1>2, <1>3, <1>4, <1>5, <1>6, <1>7, <1>8, <1>9, <1>10, <1>11, <1>12

LEMMA WorksSpends ==
    ASSUME TypeInv, WamidInv, LeaseInv, PayloadInv, NEW w \in Workers, Works(w),
           NEW k \in Asked, NEW o \in Rows(k)
    PROVE  Still(k, o) \/ Excused(k, o) \/ Owed(k, o) \/ CalledLate(k, o) \/ Paid(k, o)
<1>0. /\ o \in Outboxes /\ leases[o] \in Nat /\ gap[o] \in Nat
      /\ UNCHANGED <<status, lockedBy, leases, lapsed, row, lease>>
      /\ \A v \in Workers \ {w} : pc'[v] = pc[v] /\ ctx'[v] = ctx[v]
      /\ row[w] \in Outboxes /\ lease[w] # 0
  BY WorksFrame, RowFacts DEF LeaseInv
<1>1. \A v \in Workers : Holds(v)' <=> Holds(v)
  BY <1>0 DEF Holds
<1>2. \A v \in Workers \ {w} :
         (MayAsk(k, v)' <=> MayAsk(k, v)) /\ (InDoubt(k, v)' <=> InDoubt(k, v))
  BY <1>0 DEF MayAsk, InDoubt
<1>3. CASE row[w] # o
  <2>1. Made(k, o)' = Made(k, o) /\ Written(k, o)' = Written(k, o) /\ gap'[o] = gap[o]
    <3>1. accepted' = accepted \/ accepted' = [accepted EXCEPT ![row[w]] = @ + 1]
      BY WorksCases
    <3>2. uploads' = uploads \/ uploads' = [uploads EXCEPT ![row[w]] = @ + 1]
      BY WorksCases
    <3>3. journal' = journal \/ \E x : journal' = [journal EXCEPT ![row[w]] = x]
      BY WorksCases
    <3>4. media' = media \/ \E x : media' = [media EXCEPT ![row[w]] = x]
      BY WorksCases
    <3>5. gap' = gap \/ LoseAnswer(w) \/ gap' = [gap EXCEPT ![row[w]] = @ + 1]
      BY WorksCases
    <3>6. /\ accepted'[o] = accepted[o] /\ uploads'[o] = uploads[o] /\ gap'[o] = gap[o]
          /\ journal'[o] = journal[o] /\ media'[o] = media[o]
      BY <1>0, <1>3, <3>1, <3>2, <3>3, <3>4, <3>5
         DEF TypeInv, RowsTyped, OutsideTyped, LoseAnswer
    <3> QED
      BY <3>6 DEF Made, Written
  <2> QED
    BY <1>0, <1>3, <2>1, Undisturbed
<1>4. CASE row[w] = o
  <2> DEFINE Answers == /\ Made(k, o)' = Made(k, o) /\ gap'[o] = gap[o]
                        /\ MayAsk(k, w)' => MayAsk(k, w)
                        /\ Written(k, o) => Written(k, o)' \/ MayAsk(k, w)
                        /\ InDoubt(k, w) => InDoubt(k, w)' \/ Written(k, o)'
                        /\ Holds(w) \/ Written(k, o)' = Written(k, o)
             Forgets == /\ Made(k, o)' = Made(k, o) /\ gap'[o] = gap[o] + 1
                        /\ MayAsk(k, w)' => MayAsk(k, w)
             Asks == /\ Made(k, o)' = Made(k, o) + 1 /\ gap'[o] = gap[o]
                     /\ Written(k, o)' = Written(k, o)
                     /\ MayAsk(k, w) /\ ~MayAsk(k, w)' /\ InDoubt(k, w)'
             Pays == /\ Made(k, o)' = Made(k, o) + 1 /\ gap'[o] = gap[o] + 1
                     /\ Written(k, o)' = Written(k, o)
                     /\ MayAsk(k, w) /\ ~MayAsk(k, w)' /\ ~InDoubt(k, w)
  <2>1. Answers \/ Forgets \/ Asks \/ Pays
    BY <1>4, WorksAsks
  <2>2. (MayAsk(k, w)' => MayAsk(k, w)) => Late(k, o)' \subseteq Late(k, o)
    BY <1>0, <1>1, <1>2 DEF Late
  <2>3. Holds(w) => /\ status[o] = "PROCESSING"
                    /\ \A v \in Workers : Holder(o, v) => v = w
    BY <1>0, <1>4 DEF Holds, Holder, LeaseInv
  <2>4. CASE Answers
    <3>1. Live(k, o)' => Live(k, o)
      <4>1. CASE Holds(w)
        BY <1>0, <1>1, <1>2, <1>4, <2>3, <2>4, <4>1 DEF Live, Holder
      <4>2. CASE ~Holds(w)
        BY <1>0, <1>1, <1>2, <1>4, <2>4, <4>2 DEF Live, Holder
      <4> QED
        BY <4>1, <4>2
    <3> QED
      BY <1>0, <2>2, <2>4, <3>1 DEF Still
  <2>5. CASE Forgets
    BY <2>2, <2>5 DEF Excused
  <2>6. CASE Asks
    <3>1. Late(k, o)' \subseteq Late(k, o)
      BY <2>2, <2>6
    <3>2. CASE Holds(w)
      <4>1. Live(k, o)
        BY <1>4, <2>3, <2>6, <3>2 DEF Live, Holder
      <4>2. ~Live(k, o)'
        BY <1>0, <1>1, <1>4, <2>3, <2>6, <3>2 DEF Live, Holder
      <4> QED
        BY <1>0, <2>6, <3>1, <4>1, <4>2 DEF Owed
    <3>3. CASE ~Holds(w)
      <4>1. lease[w] \in Late(k, o)
        BY <1>0, <1>4, <2>6, <3>3 DEF Late, LeaseInv, TypeInv, HandlersInv, HandlersTyped
      <4>2. \A v \in Workers : row[v] = o /\ lease[v] = lease[w] => v = w
        BY <1>0, <1>4 DEF LeaseInv
      <4>3. lease[w] \notin Late(k, o)'
        BY <1>0, <1>1, <1>4, <2>6, <3>3, <4>2 DEF Late
      <4>4. Live(k, o)' => Live(k, o)
        BY <1>0, <1>1, <1>2, <1>4, <2>6, <3>3 DEF Live, Holder
      <4>5. Late(k, o)' \subseteq Late(k, o) \ {lease[w]}
        BY <3>1, <4>3
      <4> QED
        BY <1>0, <2>6, <4>1, <4>4, <4>5 DEF CalledLate
    <3> QED
      BY <3>2, <3>3
  <2>7. CASE Pays
    <3>1. Late(k, o)' \subseteq Late(k, o)
      BY <2>2, <2>7
    <3>2. Live(k, o)' => Live(k, o)
      <4>1. CASE Holds(w)
        BY <1>4, <2>3, <2>7, <4>1 DEF Live, Holder
      <4>2. CASE ~Holds(w)
        BY <1>0, <1>1, <1>2, <1>4, <2>7, <4>2 DEF Live, Holder
      <4> QED
        BY <4>1, <4>2
    <3> QED
      BY <2>7, <3>1, <3>2 DEF Paid
  <2> QED
    BY <2>1, <2>4, <2>5, <2>6, <2>7
<1> QED
  BY <1>3, <1>4

(* A handler that leaves without writing to its row: what it had in doubt is a gap. *)
LEMMA DepartsSpends ==
    ASSUME TypeInv, LeaseInv, NEW w \in Workers, Departs(w), NEW k \in Asked, NEW o \in Rows(k)
    PROVE  Still(k, o) \/ Excused(k, o) \/ Dropped(k, o)
<1>0. /\ o \in Outboxes /\ leases[o] \in Nat /\ gap[o] \in Nat
      /\ UNCHANGED <<status, lockedBy, leases, lapsed, journal, media, accepted, uploads>>
      /\ row[w] \in Outboxes /\ Leave(w) /\ pc[w] # "idle"
      /\ row'[w] = NoRow /\ lease'[w] = 0 /\ NoRow \notin Outboxes
      /\ \A v \in Workers \ {w} : /\ pc'[v] = pc[v] /\ ctx'[v] = ctx[v]
                                  /\ row'[v] = row[v] /\ lease'[v] = lease[v]
      /\ gap \in [Outboxes -> Nat]
      /\ lease[w] \in Nat
  BY DepartsFrame, RowFacts, LeaveFields, WhatsAppAssumption
     DEF Leave, TypeInv, HandlersInv, HandlersTyped, OutsideTyped
<1>1. Made(k, o)' = Made(k, o) /\ Written(k, o)' = Written(k, o)
  BY <1>0 DEF Made, Written
<1>2. \A v \in Workers \ {w} :
         /\ (MayAsk(k, v)' <=> MayAsk(k, v)) /\ (InDoubt(k, v)' <=> InDoubt(k, v))
         /\ Holds(v)' <=> Holds(v)
  BY <1>0 DEF MayAsk, InDoubt, Holds
<1>3. gap'[o] >= gap[o] /\ (gap'[o] = gap[o] \/ gap'[o] = gap[o] + 1)
  BY <1>0, DepartsFrame DEF LoseAnswer
<1>4. CASE row[w] # o
  BY <1>0, <1>1, <1>3, <1>4, Undisturbed
<1>5. CASE row[w] = o
  <2>1. Late(k, o)' \subseteq Late(k, o)
    BY <1>0, <1>2 DEF Late
  <2>2. CASE gap'[o] = gap[o] + 1
    BY <1>1, <2>1, <2>2 DEF Excused
  <2>3. CASE gap'[o] = gap[o]
    <3>1. CASE Holds(w)
      <4>1. /\ status[o] = "PROCESSING" /\ lease[w] # 0 /\ lease[w] \in 1..leases[o]
            /\ \A v \in Workers : row[v] = o /\ lease[v] = lease[w] => v = w
        BY <1>0, <1>5, <3>1 DEF Holds, LeaseInv
      <4>2. ~InDoubt(k, w)
        <5>1. pc[w] # "claim"
          BY <4>1 DEF TypeInv, HandlersInv, HandlerInv
        <5> QED
          BY <1>0, <1>5, <2>3, <3>1, <5>1, DepartsFrame DEF LoseAnswer, Unwritten, InDoubt
      <4>3. CASE lapsed[o]
        <5>1. lease[w] \in Late(k, o)
          BY <1>5, <3>1, <4>1, <4>3 DEF Late
        <5>2. lease[w] \notin Late(k, o)'
          BY <1>0, <4>1 DEF Late
        <5> QED
          BY <1>1, <1>3, <2>1, <5>1, <5>2 DEF Dropped
      <4>4. CASE ~lapsed[o]
        <5>1. Live(k, o)' => Live(k, o)
          BY <1>0, <1>1, <1>2, <1>5, <3>1, <4>1, <4>2 DEF Live, Holder, Holds
        <5> QED
          BY <1>1, <1>3, <2>1, <5>1 DEF Still
      <4> QED
        BY <4>3, <4>4
    <3>2. CASE ~Holds(w)
      <4>1. Live(k, o)' => Live(k, o)
        BY <1>0, <1>1, <1>2, <1>5, <3>2 DEF Live, Holder
      <4> QED
        BY <1>1, <1>3, <2>1, <4>1 DEF Still
    <3> QED
      BY <3>1, <3>2
  <2> QED
    BY <1>3, <2>2, <2>3
<1> QED
  BY <1>4, <1>5

(* An outcome is written: the row is settled, or free for the next handler. *)
LEMMA SettlesSpends ==
    ASSUME TypeInv, LeaseInv, NEW w \in Workers, Settles(w), NEW k \in Asked, NEW o \in Rows(k)
    PROVE  Still(k, o) \/ Dropped(k, o)
<1>0. /\ o \in Outboxes /\ leases[o] \in Nat /\ gap[o] \in Nat
      /\ UNCHANGED <<leases, journal, media, accepted, uploads, gap>>
      /\ row[w] \in Outboxes /\ Leave(w) /\ pc[w] = "commit" /\ Holds(w)
      /\ row'[w] = NoRow /\ lease'[w] = 0 /\ NoRow \notin Outboxes
      /\ \A v \in Workers \ {w} : /\ pc'[v] = pc[v] /\ ctx'[v] = ctx[v]
                                  /\ row'[v] = row[v] /\ lease'[v] = lease[v]
      /\ lease[w] \in Nat
      /\ status \in [Outboxes -> {"NONE", "PENDING", "RETRY", "PROCESSING"} \cup Terminal]
      /\ lockedBy \in [Outboxes -> Nat] /\ lapsed \in [Outboxes -> BOOLEAN]
  BY SettlesFrame, RowFacts, LeaveFields, WhatsAppAssumption
     DEF Leave, TypeInv, HandlersInv, HandlersTyped, RowsTyped
<1>1. PICK s \in Terminal \cup {"RETRY"} :
         /\ status' = [status EXCEPT ![row[w]] = s]
         /\ lockedBy' = [lockedBy EXCEPT ![row[w]] = 0]
         /\ lapsed' = [lapsed EXCEPT ![row[w]] = FALSE]
         /\ s \in {"RETRY", "FAILED"} => ctx[w].outcome # "UNKNOWN"
  BY SettlesFrame
<1>2. Made(k, o)' = Made(k, o) /\ Written(k, o)' = Written(k, o)
  BY <1>0 DEF Made, Written
<1>3. CASE row[w] # o
  <2>1. status'[o] = status[o] /\ lockedBy'[o] = lockedBy[o] /\ lapsed'[o] = lapsed[o]
    BY <1>0, <1>1, <1>3
  <2> QED
    BY <1>0, <1>2, <1>3, <2>1, Undisturbed
<1>4. CASE row[w] = o
  <2>1. /\ status[o] = "PROCESSING" /\ lease[w] # 0 /\ lease[w] \in 1..leases[o]
        /\ \A v \in Workers : row[v] = o /\ lease[v] = lease[w] => v = w
        /\ \A v \in Workers : row[v] = o /\ Holds(v) => v = w
    BY <1>0, <1>4 DEF Holds, LeaseInv
  <2>2. status'[o] = s /\ s # "PROCESSING"
    BY <1>0, <1>1, <1>4 DEF Terminal
  <2>3. \A v \in Workers : row'[v] = o => ~Holds(v)' /\ v # w
    BY <1>0, <2>2 DEF Holds
  <2>4. \A v \in Workers \ {w} : MayAsk(k, v)' <=> MayAsk(k, v)
    BY <1>0 DEF MayAsk
  <2>5. Late(k, o)' \subseteq Late(k, o)
    BY <1>0, <2>1, <2>3, <2>4 DEF Late
  <2>6. CASE lapsed[o]
    <3>1. lease[w] \in Late(k, o)
      BY <1>0, <1>4, <2>1, <2>6 DEF Late
    <3>2. lease[w] \notin Late(k, o)'
      BY <1>0, <2>1 DEF Late
    <3> QED
      BY <1>0, <1>2, <2>5, <3>1, <3>2 DEF Dropped
  <2>7. CASE ~lapsed[o]
    <3>1. Live(k, o)' => s \in {"RETRY", "FAILED"} /\ ~Written(k, o)
      BY <1>2, <2>2, <2>3 DEF Live, Holder, Terminal
    <3>2. s \in {"RETRY", "FAILED"} => ~InDoubt(k, w)
      BY <1>0, <1>1 DEF InDoubt
    <3>3. Live(k, o)' => Live(k, o)
      BY <2>1, <3>1, <3>2 DEF Live, Holder
    <3> QED
      BY <1>0, <1>2, <2>5, <3>3 DEF Still
  <2> QED
    BY <2>6, <2>7
<1> QED
  BY <1>3, <1>4

(* The lease of a row passes on: what was a lapsed lease is now a late one. *)
LEMMA PassesOn ==
    ASSUME TypeInv, LeaseInv, NEW k \in Asked, NEW o \in Rows(k), NEW u,
           status[o] \notin Terminal, status[o] = "PROCESSING" => lapsed[o],
           \A v \in Workers : v # u =>
                 row'[v] = row[v] /\ lease'[v] = lease[v] /\ pc'[v] = pc[v] /\ ctx'[v] = ctx[v],
           \A v \in Workers : row'[v] = o /\ v # u => ~Holds(v)',
           u \in Workers => /\ row[u] = o => lease[u] = 0
                            /\ row'[u] = o => lease'[u] \notin 1..leases[o]
                            /\ row'[u] = o => ~(Holds(u)' /\ lapsed'[o]) /\ Holds(u)',
           leases'[o] \in Nat,
           gap'[o] = gap[o] + 1 \/ (gap'[o] = gap[o] /\ (Live(k, o)' => ~Written(k, o))),
           Made(k, o)' = Made(k, o)
    PROVE  Still(k, o) \/ Excused(k, o) \/ Dropped(k, o)
<1>0. o \in Outboxes /\ leases[o] \in Nat /\ gap[o] \in Nat
  BY RowFacts
<1>1. \A v \in Workers : v # u => (MayAsk(k, v)' <=> MayAsk(k, v))
  BY DEF MayAsk
<1>2. \A v \in Workers : Holds(v) /\ row[v] = o =>
         /\ status[o] = "PROCESSING" /\ lease[v] \in 1..leases[o] /\ v # u
         /\ \A x \in Workers : row[x] = o /\ lease[x] = lease[v] => x = v
  BY <1>0 DEF Holds, LeaseInv, TypeInv, HandlersInv, HandlersTyped
<1>3. \A v \in Workers : row[v] = o => lease[v] \in 0..leases[o]
  BY <1>0 DEF LeaseInv, TypeInv, HandlersInv, HandlersTyped
<1>4. Late(k, o)' \subseteq Late(k, o)
  BY <1>0, <1>1, <1>2, <1>3 DEF Late
<1>5. CASE gap'[o] = gap[o] + 1
  BY <1>4, <1>5 DEF Excused
<1>6. CASE gap'[o] = gap[o] /\ (Live(k, o)' => ~Written(k, o))
  <2>1. CASE \E v \in Workers : Holder(o, v) /\ ~MayAsk(k, v)
    <3>1. PICK v \in Workers : Holder(o, v) /\ ~MayAsk(k, v)
      BY <2>1
    <3>2. lease[v] \in Late(k, o)
      BY <1>2, <3>1 DEF Late, Holder
    <3>3. lease[v] \notin Late(k, o)'
      BY <1>0, <1>1, <1>2, <1>3, <3>1 DEF Late, Holder
    <3> QED
      BY <1>0, <1>4, <1>6, <3>2, <3>3 DEF Dropped
  <2>2. CASE ~\E v \in Workers : Holder(o, v) /\ ~MayAsk(k, v)
    <3>1. Live(k, o)' => Live(k, o)
      BY <1>6, <2>2 DEF Live, Terminal
    <3> QED
      BY <1>0, <1>4, <1>6, <3>1 DEF Still
  <2> QED
    BY <2>1, <2>2
<1> QED
  BY <1>5, <1>6

LEMMA ClaimsSpends ==
    ASSUME TypeInv, LeaseInv, NEW w \in Workers, Claims(w), NEW k \in Asked, NEW o \in Rows(k)
    PROVE  Still(k, o) \/ Excused(k, o) \/ Dropped(k, o)
<1>0. /\ o \in Outboxes /\ row[w] \in Outboxes /\ lease[w] = 0 /\ UNCHANGED <<row, ctx>>
      /\ leases[o] \in Nat /\ gap[o] \in Nat
      /\ UNCHANGED <<journal, media, accepted, uploads>>
      /\ status' = [status EXCEPT ![row[w]] = "PROCESSING"]
      /\ leases' = [leases EXCEPT ![row[w]] = @ + 1]
      /\ lockedBy' = [lockedBy EXCEPT ![row[w]] = leases[row[w]] + 1]
      /\ lapsed' = [lapsed EXCEPT ![row[w]] = FALSE]
      /\ pc'[w] = "start" /\ lease'[w] = leases[row[w]] + 1
      /\ gap' = [gap EXCEPT ![row[w]] =
                   IF ctx[w].journal # journal[row[w]] \/ ctx[w].media # media[row[w]]
                   THEN @ + 1 ELSE @]
      /\ \A v \in Workers \ {w} : lease'[v] = lease[v] /\ pc'[v] = pc[v]
      /\ status \in [Outboxes -> {"NONE", "PENDING", "RETRY", "PROCESSING"} \cup Terminal]
      /\ leases \in [Outboxes -> Nat] /\ lockedBy \in [Outboxes -> Nat]
      /\ lapsed \in [Outboxes -> BOOLEAN] /\ gap \in [Outboxes -> Nat]
  BY ClaimsFrame, RowFacts DEF TypeInv, RowsTyped, OutsideTyped, HandlersInv, HandlersTyped
<1>1. Made(k, o)' = Made(k, o) /\ Written(k, o)' = Written(k, o)
  BY <1>0 DEF Made, Written
<1>2. CASE row[w] # o
  <2>1. /\ status'[o] = status[o] /\ leases'[o] = leases[o] /\ lockedBy'[o] = lockedBy[o]
        /\ lapsed'[o] = lapsed[o] /\ gap'[o] = gap[o]
    BY <1>0, <1>2
  <2> QED
    <3>1. gap'[o] >= gap[o]
      BY <1>0, <2>1
    <3>2. \A v \in Workers : \/ /\ row'[v] = row[v] /\ lease'[v] = lease[v]
                                /\ pc'[v] = pc[v] /\ ctx'[v] = ctx[v]
                             \/ row[v] # o /\ row'[v] # o
      BY <1>0, <1>2
    <3> QED
      BY <1>0, <1>1, <2>1, <3>1, <3>2, Undisturbed
<1>3. CASE row[w] = o
  <2>1. status[o] \notin Terminal /\ (status[o] = "PROCESSING" => lapsed[o])
    BY <1>3, ClaimsFrame DEF Terminal
  <2>2. /\ status'[o] = "PROCESSING" /\ lockedBy'[o] = leases[o] + 1 /\ ~lapsed'[o]
        /\ leases'[o] = leases[o] + 1
    BY <1>0, <1>3
  <2>3. Holds(w)'
    BY <1>0, <1>3, <2>2 DEF Holds
  <2>4. \A v \in Workers : row'[v] = o /\ v # w => ~Holds(v)'
    BY <1>0, <2>2 DEF Holds, LeaseInv, TypeInv, HandlersInv, HandlersTyped
  <2>5. gap'[o] = gap[o] + 1 \/ (gap'[o] = gap[o] /\ (Live(k, o)' => ~Written(k, o)))
    <3>1. CASE ctx[w].journal # journal[o] \/ ctx[w].media # media[o]
      BY <1>0, <1>3, <3>1
    <3>2. CASE ctx[w].journal = journal[o] /\ ctx[w].media = media[o]
      <4>1. gap'[o] = gap[o]
        BY <1>0, <1>3, <3>2
      <4>2. MayAsk(k, w)' => ~Written(k, o)
        BY <1>0, <1>3, <3>2 DEF MayAsk, Written
      <4>3. Live(k, o)' => ~Written(k, o)
        BY <1>0, <1>1, <2>4, <4>2 DEF Live, Holder
      <4> QED
        BY <4>1, <4>3
    <3> QED
      BY <3>1, <3>2
  <2>6. lease'[w] \notin 1..leases[o] /\ leases'[o] \in Nat
    BY <1>0, <1>3
  <2> QED
    BY <1>0, <1>1, <1>3, <2>1, <2>2, <2>3, <2>4, <2>5, <2>6, PassesOn
<1> QED
  BY <1>2, <1>3

LEMMA RecoverSpends ==
    ASSUME TypeInv, LeaseInv, NEW p \in Outboxes, Recover(p), NEW k \in Asked, NEW o \in Rows(k)
    PROVE  Still(k, o) \/ Excused(k, o) \/ Dropped(k, o)
<1>0. /\ o \in Outboxes /\ gap[o] \in Nat /\ leases[o] \in Nat
      /\ UNCHANGED <<leases, journal, media, accepted, uploads, gap, pc, row, lease, ctx>>
      /\ status[p] = "PROCESSING" /\ lapsed[p]
      /\ status' = [status EXCEPT ![p] = "RETRY"]
      /\ lockedBy' = [lockedBy EXCEPT ![p] = 0]
      /\ lapsed' = [lapsed EXCEPT ![p] = FALSE]
      /\ status \in [Outboxes -> {"NONE", "PENDING", "RETRY", "PROCESSING"} \cup Terminal]
      /\ lockedBy \in [Outboxes -> Nat] /\ lapsed \in [Outboxes -> BOOLEAN]
  BY RowFacts DEF Recover, metaVars, handlerVars, TypeInv, RowsTyped
<1>1. Made(k, o)' = Made(k, o) /\ Written(k, o)' = Written(k, o)
  BY <1>0 DEF Made, Written
<1>2. CASE p # o
  <2>1. /\ status'[o] = status[o] /\ lockedBy'[o] = lockedBy[o] /\ lapsed'[o] = lapsed[o]
    BY <1>0, <1>2
  <2> QED
    <3>1. /\ leases'[o] = leases[o] /\ gap'[o] >= gap[o]
          /\ status'[o] = status[o]
      BY <1>0, <2>1
    <3>2. \A v \in Workers : /\ row'[v] = row[v] /\ lease'[v] = lease[v]
                             /\ pc'[v] = pc[v] /\ ctx'[v] = ctx[v]
      BY <1>0
    <3> QED
      BY <1>1, <2>1, <3>1, <3>2, Undisturbed
<1>3. CASE p = o
  <2>1. status'[o] = "RETRY" /\ status[o] \notin Terminal /\ lapsed[o]
    BY <1>0, <1>3 DEF Terminal
  <2>2. \A v \in Workers : row'[v] = o => ~Holds(v)'
    BY <1>0, <2>1 DEF Holds
  <2>3. Live(k, o)' => ~Written(k, o)
    BY <1>1, <2>2 DEF Live, Holder
  <2>4. PICK u : u \notin Workers
    BY NoSetContainsEverything
  <2> QED
    BY <1>0, <1>1, <2>1, <2>2, <2>3, <2>4, PassesOn
<1> QED
  BY <1>2, <1>3

(* A lease that runs out under its handler is a gap; nobody else's matters. *)
LEMMA LapseSpends ==
    ASSUME TypeInv, LeaseInv, NEW p \in Outboxes, LeaseLapses(p), NEW k \in Asked, NEW o \in Rows(k)
    PROVE  Still(k, o) \/ Excused(k, o)
<1>0. /\ o \in Outboxes /\ gap[o] \in Nat /\ leases[o] \in Nat
      /\ UNCHANGED <<status, lockedBy, leases, journal, media, accepted, uploads,
                     pc, row, lease, ctx>>
      /\ status[p] = "PROCESSING" /\ ~lapsed[p]
      /\ lapsed' = [lapsed EXCEPT ![p] = TRUE]
      /\ \/ Attended(p) /\ gap' = [gap EXCEPT ![p] = @ + 1]
         \/ ~Attended(p) /\ UNCHANGED gap
      /\ lapsed \in [Outboxes -> BOOLEAN] /\ gap \in [Outboxes -> Nat]
  BY RowFacts DEF LeaseLapses, metaVars, handlerVars, TypeInv, RowsTyped, OutsideTyped
<1>1. Made(k, o)' = Made(k, o) /\ Written(k, o)' = Written(k, o)
  BY <1>0 DEF Made, Written
<1>2. CASE p # o
  <2>1. lapsed'[o] = lapsed[o] /\ gap'[o] = gap[o]
    BY <1>0, <1>2
  <2> QED
    <3>1. /\ leases'[o] = leases[o] /\ lockedBy'[o] = lockedBy[o] /\ status'[o] = status[o]
          /\ gap'[o] >= gap[o]
      BY <1>0, <2>1
    <3>2. \A v \in Workers : /\ row'[v] = row[v] /\ lease'[v] = lease[v]
                             /\ pc'[v] = pc[v] /\ ctx'[v] = ctx[v]
      BY <1>0
    <3> QED
      BY <1>1, <2>1, <3>1, <3>2, Undisturbed
<1>3. CASE p = o
  <2>1. \A v \in Workers : /\ Holds(v)' <=> Holds(v)
                           /\ MayAsk(k, v)' <=> MayAsk(k, v)
                           /\ InDoubt(k, v)' <=> InDoubt(k, v)
    BY <1>0 DEF Holds, MayAsk, InDoubt
  <2>2. Live(k, o)' => Live(k, o)
    BY <1>0, <1>1, <2>1 DEF Live, Holder
  <2>3. \A v \in Workers : row[v] = o /\ Holds(v) => lease[v] = lockedBy[o] /\ Attended(o)
    BY <1>0 DEF Holds, Attended
  <2>4. CASE Attended(o)
    <3>1. Late(k, o)' \subseteq Late(k, o) \cup {lockedBy[o]}
      BY <1>0, <2>1, <2>3 DEF Late
    <3>2. gap'[o] = gap[o] + 1
      BY <1>0, <1>3, <2>4
    <3> QED
      BY <1>1, <2>2, <3>1, <3>2 DEF Excused
  <2>5. CASE ~Attended(o)
    <3>1. Late(k, o)' \subseteq Late(k, o)
      BY <1>0, <2>1, <2>3, <2>5 DEF Late
    <3>2. gap'[o] = gap[o]
      BY <1>0, <1>3, <2>5
    <3> QED
      BY <1>0, <1>1, <2>2, <3>1, <3>2 DEF Still
  <2> QED
    BY <2>4, <2>5
<1> QED
  BY <1>2, <1>3

LEMMA EntersSpends ==
    ASSUME TypeInv, LeaseInv, NEW w \in Workers, NEW p \in Outboxes, Deliver(w, p),
           NEW k \in Asked, NEW o \in Rows(k)
    PROVE  Still(k, o)
<1>0. /\ o \in Outboxes /\ gap[o] \in Nat
      /\ UNCHANGED <<status, lockedBy, leases, lapsed, journal, media, accepted, uploads,
                     gap, lease>>
      /\ lease[w] = 0
  BY RowFacts, EntersFrame DEF rowVars
<1>1. Made(k, o)' = Made(k, o) /\ Written(k, o)' = Written(k, o)
  BY <1>0 DEF Made, Written
<1>2. \A v \in Workers : v # w => row'[v] = row[v] /\ pc'[v] = pc[v] /\ ctx'[v] = ctx[v]
  <2>1. CASE UNCHANGED handlerVars
    BY <2>1 DEF handlerVars
  <2>2. CASE ~UNCHANGED handlerVars
    <3>1. pc' = [pc EXCEPT ![w] = "claim"] /\ row' = [row EXCEPT ![w] = p]
      BY <2>2, EntersFrame
    <3>2. \E new : ctx' = [ctx EXCEPT ![w] = new]
      BY <2>2, EntersFrame
    <3> QED
      BY <3>1, <3>2 DEF TypeInv, HandlersInv, HandlersTyped
  <2> QED
    BY <2>1, <2>2
<1> QED
  BY <1>0, <1>1, <1>2, Undisturbed

LEMMA BesideSpends ==
    ASSUME TypeInv, LeaseInv, Beside, NEW k \in Asked, NEW o \in Rows(k)
    PROVE  Still(k, o)
<1>0. /\ o \in Outboxes /\ gap[o] \in Nat
      /\ UNCHANGED <<lockedBy, leases, lapsed, journal, media, accepted, uploads, gap,
                     pc, row, lease, ctx>>
      /\ status'[o] = status[o] \/ (status[o] \in Open /\ status'[o] \in Open)
  BY RowFacts, BesideFrame
<1>1. Made(k, o)' = Made(k, o) /\ Written(k, o)' = Written(k, o)
  BY <1>0 DEF Made, Written
<1> QED
  BY <1>0, <1>1, Undisturbed

LEMMA BudgetStep ==
    TypeInv /\ TypeInv' /\ WamidInv /\ LeaseInv /\ PayloadInv /\ BudgetInv /\ [Next]_vars
        => BudgetInv'
<1> SUFFICES ASSUME TypeInv, TypeInv', WamidInv, LeaseInv, PayloadInv, BudgetInv, [Next]_vars,
                    NEW k \in Asked, NEW o \in Rows(k)
             PROVE  Spent(k, o)' <= 1 + gap'[o]
  BY DEF BudgetInv
<1>1. \/ Still(k, o) \/ Excused(k, o) \/ Owed(k, o) \/ Dropped(k, o)
      \/ CalledLate(k, o) \/ Paid(k, o)
  BY StepSplits, WorksSpends, DepartsSpends, SettlesSpends, ClaimsSpends, RecoverSpends,
     LapseSpends, EntersSpends, BesideSpends
<1> QED
  BY <1>1, BudgetKept DEF BudgetInv

LEMMA BudgetInit == Init => LeaseInv /\ PayloadInv /\ BudgetInv
<1> SUFFICES ASSUME Init PROVE LeaseInv /\ PayloadInv /\ BudgetInv
  OBVIOUS
<1>1. LeaseInv /\ PayloadInv
  BY LeaseInit, WhatsAppAssumption DEF Init, PayloadInv, NoCtx
<1>2. ASSUME NEW k \in Asked, NEW o \in Rows(k) PROVE Spent(k, o) <= 1 + gap[o]
  <2>1. o \in Outboxes
    BY DEF Rows, Sends
  <2>2. Made(k, o) = 0 /\ gap[o] = 0 /\ leases[o] = 0
    BY <2>1 DEF Init, Made
  <2>3. Late(k, o) = {}
    BY <2>2 DEF Late
  <2>4. Cardinality(Late(k, o)) = 0
    BY <2>3, FS_EmptySet
  <2> QED
    BY <2>2, <2>4 DEF Spent
<1> QED
  BY <1>1, <1>2 DEF BudgetInv

(* DuplicatesAreExcused: a customer gets a message, and Meta its media, once and
   once more for every answer lost or hidden behind a 5xx, every lease outlived
   and every payload copied too early, however many handlers, leases, requests
   to retry and faults there are. *)
THEOREM DuplicatesExcused == Spec => []DuplicatesAreExcused
<1> DEFINE IInv == LeaseInv /\ PayloadInv /\ BudgetInv
<1>1. Init => IInv
  BY BudgetInit
<1>2. TypeInv /\ TypeInv' /\ WamidInv /\ IInv /\ [Next]_vars => IInv'
  BY LeaseStep, PayloadStep, BudgetStep
<1>3. TypeInv /\ IInv => DuplicatesAreExcused
  <2> SUFFICES ASSUME TypeInv, IInv, NEW o \in Sends
               PROVE  accepted[o] <= 1 + gap[o] /\ uploads[o] <= 1 + gap[o]
    BY DEF DuplicatesAreExcused
  <2>1. /\ o \in Outboxes /\ gap[o] \in Nat /\ accepted[o] \in Nat /\ uploads[o] \in Nat
    BY DEF Sends, TypeInv, OutsideTyped
  <2>2. ASSUME NEW k \in Asked, o \in Rows(k) PROVE Made(k, o) <= 1 + gap[o]
    BY <2>1, <2>2, RowFacts DEF BudgetInv, Spent
  <2>3. accepted[o] <= 1 + gap[o]
    BY <2>2 DEF Asked, Rows, Made
  <2>4. CASE o \in WithMedia
    BY <2>2, <2>3, <2>4 DEF Asked, Rows, Made
  <2>5. CASE o \notin WithMedia
    BY <2>1, <2>3, <2>5 DEF PayloadInv
  <2> QED
    BY <2>4, <2>5
<1> QED
  BY <1>1, <1>2, <1>3, AgreeInvariant, PTL DEF Spec
=============================================================================
