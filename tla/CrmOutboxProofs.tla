--------------------------- MODULE CrmOutboxProofs ---------------------------
(***************************************************************************)
(* Proofs about CrmOutbox: what becomes of messages, leads and contacts,   *)
(* for any number of contacts, requests, workers and faults.               *)
(*                                                                         *)
(* The safety properties rest on one invariant, in parts: the types; who   *)
(* is whose kin (KinInv); that a lead belongs to one kin unless the kin is *)
(* among the doubled (LeadInv); which row stands to replace a removed lead *)
(* (DeadInv); which row stands to queue a message (HistoryInv); and that a *)
(* contact merged away in peace is out of everybody's hands (LeftInv).     *)
(***************************************************************************)
EXTENDS CrmOutbox, TLAPS

Rows == LeadRows \cup MergeRows \cup HistoryRows
Present == {c \in Contacts : contact[c] # "NONE"}
PresentOrNobody == Present \cup {Nobody}
LeadOrNobody == Leads \cup {Nobody}

Statuses == {"PENDING", "RETRY", "PROCESSING", "UNKNOWN", "FAILED", "SUCCEEDED"}
OutboxRow == [status : Statuses, holder : Workers \cup {Nobody}, contact : Contacts]

Transaction == [contact : Contacts \cup {Nobody}, linked : BOOLEAN]
Request == [kind : {"none", "merge", "plan", "repair", "edit", "snapshot"},
            to : Contacts \cup {Nobody}, from : Contacts \cup {Nobody},
            toLead : LeadOrNobody, fromLead : LeadOrNobody]
Call == [step : {"idle", "loaded", "answered"}, row : Rows \cup {Nobody},
         contact : Contacts \cup {Nobody}, lead : LeadOrNobody, answer : LeadOrNobody]

(* The types: what a variable can hold. *)
TypeOK ==
    /\ contact \in [Contacts -> {"NONE", "ACTIVE", "MERGED"}]
    /\ into \in [Contacts -> Contacts \cup {Nobody}]
    /\ lead \in [Contacts -> LeadOrNobody]
    /\ owner \in [Known -> Contacts]
    /\ stored \in [Messages -> Contacts \cup {Nobody}]
    /\ outbox \in [DOMAIN outbox -> OutboxRow] /\ DOMAIN outbox \subseteq Rows
    /\ reading \in [Messages -> Transaction]
    /\ req \in [Requests -> Request]
    /\ call \in [Workers -> Call]
    /\ link \in [Contacts -> LeadOrNobody]
    /\ gone \subseteq Leads
    /\ done \in [DOMAIN done -> LeadOrNobody] /\ DOMAIN done \subseteq DOMAIN outbox
    /\ kin \in [Contacts -> Contacts]
    /\ overlapped \subseteq Messages
    /\ uneven \subseteq Contacts /\ outdated \subseteq Contacts
    /\ doubled \subseteq Contacts /\ disturbed \subseteq Contacts
    /\ requests \in Nat /\ faults \in Nat

(* Only contacts that are there are read, written, merged, named by a row. *)
PresentInv ==
    /\ \A c \in Contacts : into[c] \in PresentOrNobody
    /\ \A c \in Contacts : contact[c] = "MERGED" => into[c] # Nobody
    /\ \A c \in Contacts : contact[c] = "NONE" => into[c] = Nobody /\ lead[c] = Nobody
    /\ \A i \in Known : owner[i] \in Present
    /\ \A m \in Messages : stored[m] \in PresentOrNobody
    /\ \A m \in Messages : reading[m] = NoTx \/ reading[m].contact \in Present
    /\ \A r \in DOMAIN outbox : outbox[r].contact \in Present

(* Requests and calls in progress. *)
Open(q) ==
    /\ req[q].kind # "none"
    /\ req[q].to \in Present
    /\ req[q].kind \in {"merge", "plan", "repair"} =>
          req[q].from \in Present /\ req[q].from # req[q].to

Busy(w) ==
    /\ call[w].step # "idle"
    /\ call[w].row \in DOMAIN outbox
    /\ call[w].contact \in Present
    /\ call[w].step = "answered" =>
          call[w].row \in DOMAIN done /\ call[w].answer = done[call[w].row]

DoneInv ==
    /\ \A r \in DOMAIN done : r \in LeadRows => done[r] # Nobody
    /\ \A r \in DOMAIN outbox : outbox[r].status = "SUCCEEDED" => r \in DOMAIN done

ProgressInv ==
    /\ \A q \in Requests : req[q] = NoReq \/ Open(q)
    /\ \A w \in Workers : call[w] = NoCall \/ Busy(w)
    /\ DoneInv

BaseInv == TypeOK /\ PresentInv /\ ProgressInv

(* Merges join kin; a kin that is not doubled has one contact that is not merged
   away; rows, calls and repairs stay within the kin that they began with. *)
Roots == {c \in Present : into[c] = Nobody}

KinTree ==
    /\ \A c \in Contacts : into[c] # Nobody => kin[into[c]] = kin[c]
    /\ \A c, d \in Contacts : contact[c] = "NONE" /\ kin[d] = kin[c] => d = c
    /\ \A c, d \in Contacts : c \in doubled /\ kin[d] = kin[c] => d \in doubled
    /\ \A c, d \in Roots : kin[c] = kin[d] => c = d \/ c \in doubled

KinRows ==
    /\ \A r \in DOMAIN outbox \ HistoryRows : kin[outbox[r].contact] = kin[r[2]]
    /\ \A r \in DOMAIN outbox \cap MergeRows : kin[r[3]] = kin[r[2]]

KinCalls ==
    /\ \A w \in Workers : call[w] # NoCall /\ call[w].row \notin HistoryRows =>
          kin[call[w].contact] = kin[call[w].row[2]]
    /\ \A q \in Requests : req[q].kind \in {"plan", "repair"} => kin[req[q].to] = kin[req[q].from]

KinLinks == \A c \in Contacts : contact[c] = "NONE" => link[c] = Nobody

KinInv == KinTree /\ KinRows /\ KinCalls /\ KinLinks

(* Who knows a lead: who has it here or at Cyber Pulse, whose row was answered
   with it, whose merge read it. *)
AnsweredWith(c, l) == \E r \in DOMAIN done \ HistoryRows : done[r] = l /\ r[2] = c
MergesWith(c, l) == \E q \in Requests : \/ req[q].to = c /\ req[q].toLead = l
                                        \/ req[q].from = c /\ req[q].fromLead = l
Knows(c, l) == link[c] = l \/ lead[c] = l \/ AnsweredWith(c, l) \/ MergesWith(c, l)

LeadInv ==
    /\ \A l \in Leads : \A c, d \in Contacts :
          Knows(c, l) /\ Knows(d, l) => kin[c] = kin[d] \/ {c, d} \subseteq doubled
    /\ \A l \in Leads : \A c \in Contacts : Knows(c, l) => l \in gone \/ Holders(l) # {}
    /\ \A c \in Contacts : link[c] \notin gone

(* The row that removed a lead stands to replace it. *)
Mends(r, c) ==
    /\ r \in DOMAIN outbox \cap MergeRows
    /\ outbox[r].status # "SUCCEEDED" /\ outbox[r].contact = c
    /\ r \in DOMAIN done /\ done[r] # Nobody

DeadInv ==
    /\ \A r \in DOMAIN outbox \cap MergeRows :
          into[outbox[r].contact] = Nobody \/ outbox[r].contact \in doubled
    /\ \A c \in Roots : lead[c] \in gone =>
          c \in outdated \cup doubled \/ \E r \in Rows : Mends(r, c)

(* A lead row that stands for an unlinked contact. *)
Stands(r, c) ==
    /\ r \in DOMAIN outbox \cap LeadRows
    /\ outbox[r].status # "SUCCEEDED" /\ outbox[r].contact = c

MessagesQueued ==
    \A m \in Messages : stored[m] # Nobody =>
        \/ History(m) \in DOMAIN outbox
        \/ lead[stored[m]] = Nobody /\ \E r \in Rows : Stands(r, stored[m])
        \/ m \in overlapped \/ stored[m] \in uneven

BootstrapsStand ==
    \A c \in Contacts : Exists(Bootstrap(c)) /\ into[c] = Nobody /\ lead[c] = Nobody =>
        Stands(Bootstrap(c), c) \/ c \in uneven

(* The call of a lead row that saw a lead goes to a linked contact; the call that
   holds its row has the contact that the row has. *)
CallsLink ==
    \A w \in Workers : call[w] # NoCall /\ call[w].row \in LeadRows =>
        /\ call[w].lead # Nobody => lead[call[w].contact] # Nobody \/ call[w].contact \in uneven
        /\ Holds(w, call[w].row) => \/ outbox[call[w].row].contact = call[w].contact
                                    \/ outbox[call[w].row].contact \in uneven

HistoryInv == MessagesQueued /\ BootstrapsStand /\ CallsLink

(* A contact merged away while nobody was using it is out of everybody's hands;
   contacts that only lead to each other include a disturbed one. *)
Untouched(c) ==
    /\ HasNothing(c)
    /\ \A m \in Messages : reading[m].contact # c
    /\ \A q \in Requests : req[q].kind # "plan" =>
          req[q].to # c /\ (req[q].from = c => req[q].kind = "repair")

LeftInv ==
    /\ \A c \in Contacts : contact[c] = "MERGED" /\ c \notin disturbed => Untouched(c)
    /\ \A cs \in SUBSET Contacts :
          cs # {} /\ (\A c \in cs : into[c] \in cs) => cs \cap disturbed # {}
-----------------------------------------------------------------------------
(* The rows are what their names say, and no two names are alike. *)
LEMMA RowNames ==
    /\ \A c \in Contacts : Bootstrap(c) \in LeadRows /\ Bootstrap(c)[2] = c
    /\ \A c \in Contacts : Sync(c) \in LeadRows /\ Sync(c)[2] = c
    /\ \A c, d \in Contacts : Sync(c) # Bootstrap(d) /\ (Bootstrap(c) = Bootstrap(d) => c = d)
    /\ \A m \in Messages : History(m) \in HistoryRows
    /\ \A m, n \in Messages : History(m) = History(n) => m = n
    /\ \A p, s \in Contacts : p # s =>
          /\ MergeOf(p, s) \in MergeRows /\ MergeOf(p, s)[2] = p /\ MergeOf(p, s)[3] = s
          /\ RepairOf(p, s) \in MergeRows /\ RepairOf(p, s)[2] = p /\ RepairOf(p, s)[3] = s
  <1>1. \A c \in Contacts : Bootstrap(c) \in LeadRows /\ Bootstrap(c)[2] = c
    BY DEF LeadRows, Bootstrap
  <1>2. \A c \in Contacts : Sync(c) \in LeadRows /\ Sync(c)[2] = c
    BY DEF LeadRows, Sync
  <1>3. \A c, d \in Contacts : Sync(c) # Bootstrap(d) /\ (Bootstrap(c) = Bootstrap(d) => c = d)
    BY DEF Sync, Bootstrap
  <1>4. \A m \in Messages : History(m) \in HistoryRows
    BY DEF HistoryRows, History
  <1>5. \A m, n \in Messages : History(m) = History(n) => m = n
    BY DEF History
  <1>6. ASSUME NEW p \in Contacts, NEW s \in Contacts, p # s
        PROVE  /\ MergeOf(p, s) \in MergeRows /\ MergeOf(p, s)[2] = p /\ MergeOf(p, s)[3] = s
               /\ RepairOf(p, s) \in MergeRows /\ RepairOf(p, s)[2] = p /\ RepairOf(p, s)[3] = s
    <2>1. <<p, s>> \in Pairs
      BY <1>6 DEF Pairs
    <2>2. MergeOf(p, s) = MergeOf(<<p, s>>[1], <<p, s>>[2])
          /\ RepairOf(p, s) = RepairOf(<<p, s>>[1], <<p, s>>[2])
      OBVIOUS
    <2>3. MergeOf(p, s) \in MergeRows /\ RepairOf(p, s) \in MergeRows
      BY <2>1, <2>2 DEF MergeRows
    <2> QED
      BY <2>3 DEF MergeOf, RepairOf
  <1> QED
    BY <1>1, <1>2, <1>3, <1>4, <1>5, <1>6

LEMMA RowKinds ==
    /\ \A r \in LeadRows : r \notin MergeRows /\ r \notin HistoryRows /\ r[2] \in Contacts
    /\ \A r \in MergeRows : /\ r \notin LeadRows /\ r \notin HistoryRows
                            /\ r[2] \in Contacts /\ r[3] \in Contacts /\ r[2] # r[3]
    /\ \A r \in HistoryRows : \E m \in Messages : r = History(m)
  <1>1. \A r \in LeadRows : r[1] \in {"bootstrap", "sync"} /\ r[2] \in Contacts
    BY DEF LeadRows, Bootstrap, Sync
  <1>2. \A r \in MergeRows : /\ r[1] \in {"merge", "repair"}
                             /\ r[2] \in Contacts /\ r[3] \in Contacts /\ r[2] # r[3]
    BY DEF MergeRows, MergeOf, RepairOf, Pairs
  <1>3. \A r \in HistoryRows : r[1] = "history" /\ \E m \in Messages : r = History(m)
    BY DEF HistoryRows, History
  <1> QED
    BY <1>1, <1>2, <1>3
-----------------------------------------------------------------------------
(* What the actions do to the rows: some are added, as new ones of a contact; some
   change status; those of a contact merged away move. *)
Adds(rows, c) ==
    /\ outbox' \in [DOMAIN outbox \cup rows -> OutboxRow]
    /\ \A r \in DOMAIN outbox : outbox'[r] = outbox[r]
    /\ \A r \in rows \ DOMAIN outbox : outbox'[r] = NewRow(c)

Turns ==
    /\ outbox' \in [DOMAIN outbox -> OutboxRow]
    /\ \A r \in DOMAIN outbox :
          /\ outbox'[r].contact = outbox[r].contact
          /\ outbox'[r].status = "SUCCEEDED" => outbox[r].status = "SUCCEEDED"

(* What is settled or queued again is held by nobody new. *)
Frees == \A r \in DOMAIN outbox, w \in Workers : Holds(w, r)' => Holds(w, r)

Moves(p, s, row) ==
    /\ outbox' \in [DOMAIN outbox \cup {row} -> OutboxRow]
    /\ \A r \in DOMAIN outbox :
          /\ outbox'[r].contact = IF outbox[r].contact = s THEN p ELSE outbox[r].contact
          /\ r # row => /\ outbox'[r].status = outbox[r].status
                        /\ outbox'[r].holder = outbox[r].holder
          /\ outbox'[r].status = "SUCCEEDED" <=> outbox[r].status = "SUCCEEDED"
    /\ row \notin DOMAIN outbox => outbox'[row].contact = p /\ outbox'[row].status = "PENDING"

LEMMA NewRowTyped ==
  ASSUME NEW c \in Contacts
  PROVE  /\ NewRow(c) \in OutboxRow
         /\ NewRow(c).contact = c /\ NewRow(c).status = "PENDING" /\ NewRow(c).holder = Nobody
  BY DEF NewRow, OutboxRow, Statuses

LEMMA WithNewAdds ==
  ASSUME TypeOK, NEW c \in Contacts, NEW rows \in SUBSET Rows, outbox' = WithNew(rows, c)
  PROVE  Adds(rows, c) /\ DOMAIN outbox' = DOMAIN outbox \cup rows
  <1>1. outbox \in [DOMAIN outbox -> OutboxRow]
    BY DEF TypeOK
  <1>2. NewRow(c) \in OutboxRow
    BY NewRowTyped
  <1> QED
    BY <1>1, <1>2 DEF WithNew, Adds, Exists

(* One row changes its status and its holder. *)
LEMMA RowTurns ==
  ASSUME TypeOK, NEW r \in DOMAIN outbox, NEW status \in Statuses, NEW holder \in Workers \cup {Nobody},
         outbox' = [outbox EXCEPT ![r].status = status, ![r].holder = holder],
         status # "SUCCEEDED"
  PROVE  /\ Turns
         /\ status # "PROCESSING" => Frees
         /\ \A x \in DOMAIN outbox : x # r => outbox'[x] = outbox[x]
         /\ outbox'[r].status = status /\ outbox'[r].holder = holder
  <1> DEFINE row == [outbox[r] EXCEPT !.status = status, !.holder = holder]
  <1>1. outbox \in [DOMAIN outbox -> OutboxRow]
    BY DEF TypeOK
  <1>2. outbox[r] \in OutboxRow
    BY <1>1
  <1>3. /\ row \in OutboxRow /\ row.contact = outbox[r].contact
        /\ row.status = status /\ row.holder = holder
    BY <1>2 DEF OutboxRow
  <1>4. outbox' = [outbox EXCEPT ![r] = row]
    BY <1>1, <1>2 DEF OutboxRow
  <1> HIDE DEF row
  <1>5. outbox' \in [DOMAIN outbox -> OutboxRow]
    BY <1>1, <1>3, <1>4
  <1>6. outbox'[r] = row /\ \A x \in DOMAIN outbox : x # r => outbox'[x] = outbox[x]
    BY <1>1, <1>4
  <1>7. Turns
    BY <1>3, <1>5, <1>6 DEF Turns
  <1>8. status # "PROCESSING" => Frees
    BY <1>3, <1>6 DEF Frees, Holds, Status
  <1> QED
    BY <1>3, <1>6, <1>7, <1>8

LEMMA SettleTurns ==
  ASSUME BaseInv, NEW w \in Workers, call[w] # NoCall,
         NEW status \in {"RETRY", "UNKNOWN", "FAILED"}, Settle(w, status)
  PROVE  Turns /\ Frees
  <1>1. call[w].row \in DOMAIN outbox
    BY DEF BaseInv, ProgressInv, Busy
  <1>2. TypeOK /\ status \in Statuses
    BY DEF BaseInv, Statuses
  <1>3. CASE outbox' = outbox
    BY <1>2, <1>3 DEF Turns, Frees, Holds, Status, TypeOK
  <1>4. CASE outbox' = [outbox EXCEPT ![call[w].row].status = status, ![call[w].row].holder = Nobody]
    BY <1>1, <1>2, <1>4, RowTurns
  <1> QED
    BY <1>3, <1>4 DEF Settle

LEMMA OperatorRetryTurns ==
  ASSUME TypeOK, NEW r \in DOMAIN outbox, OperatorRetry(r)
  PROVE  Turns /\ Frees
  <1>1. outbox[r] \in OutboxRow
    BY DEF TypeOK
  <1>2. outbox' = [outbox EXCEPT ![r].status = "PENDING", ![r].holder = outbox[r].holder]
    BY <1>1 DEF OperatorRetry, OutboxRow, TypeOK
  <1>3. "PENDING" \in Statuses /\ outbox[r].holder \in Workers \cup {Nobody}
    BY <1>1 DEF OutboxRow, Statuses
  <1> QED
    BY <1>2, <1>3, RowTurns

LEMMA ClaimTurns ==
  ASSUME TypeOK, NEW w \in Workers, NEW r \in DOMAIN outbox, Claim(w, r)
  PROVE  /\ Turns
         /\ \A x \in DOMAIN outbox : x # r => outbox'[x] = outbox[x]
         /\ outbox'[r].holder = w \/ outbox'[r].status = "FAILED"
  <1> DEFINE bare == r \in HistoryRows /\ \A i \in Known : owner[i] # outbox[r].contact
  <1>1. CASE bare
    <2>1. outbox' = [outbox EXCEPT ![r].status = "FAILED", ![r].holder = Nobody]
      BY <1>1 DEF Claim
    <2>2. "FAILED" \in Statuses /\ Nobody \in Workers \cup {Nobody}
      BY DEF Statuses
    <2> QED
      BY <2>1, <2>2, RowTurns
  <1>2. CASE ~bare
    <2>1. outbox' = [outbox EXCEPT ![r].status = "PROCESSING", ![r].holder = w]
      BY <1>2 DEF Claim
    <2>2. "PROCESSING" \in Statuses /\ w \in Workers \cup {Nobody}
      BY DEF Statuses
    <2> QED
      BY <2>1, <2>2, RowTurns
  <1> QED
    BY <1>1, <1>2
-----------------------------------------------------------------------------
(* What a merge or a repair does to the rows. *)
LEMMA JoinMoves ==
  ASSUME TypeOK, NEW q \in Requests, NEW row \in Rows, NEW status \in Statuses,
         req[q].to \in Contacts,
         Join(q, row, status),
         row \in DOMAIN outbox => (status = "SUCCEEDED" <=> outbox[row].status = "SUCCEEDED"),
         row \notin DOMAIN outbox => status = "PENDING"
  PROVE  Moves(req[q].to, req[q].from, row)
  <1> DEFINE p == req[q].to
             s == req[q].from
             Moved(r) == IF r \in DOMAIN outbox
                         THEN [outbox[r] EXCEPT !.contact = IF @ = s THEN p ELSE @]
                         ELSE NewRow(p)
  <1>1. outbox \in [DOMAIN outbox -> OutboxRow]
    BY DEF TypeOK
  <1>2. ASSUME NEW r \in DOMAIN outbox
        PROVE  /\ MovedRows(p, s)[r] = Moved(r)
               /\ Moved(r) \in OutboxRow
               /\ Moved(r).contact = IF outbox[r].contact = s THEN p ELSE outbox[r].contact
               /\ Moved(r).status = outbox[r].status /\ Moved(r).holder = outbox[r].holder
    <2>1. outbox[r] \in OutboxRow
      BY <1>1
    <2> QED
      BY <2>1 DEF MovedRows, OutboxRow
  <1>3. ASSUME NEW r, r \notin DOMAIN outbox
        PROVE  /\ Moved(r) \in OutboxRow /\ Moved(r).contact = p
               /\ Moved(r).status = "PENDING" /\ Moved(r) = NewRow(p)
    BY <1>3, NewRowTyped
  <1>4. outbox' = [r \in DOMAIN outbox \cup {row} |->
                      IF r = row THEN [Moved(r) EXCEPT !.status = status] ELSE Moved(r)]
    BY <1>2, <1>3 DEF Join, Exists
  <1>5. \A r : /\ [Moved(r) EXCEPT !.status = status].contact = Moved(r).contact
               /\ Moved(r) \in OutboxRow => /\ [Moved(r) EXCEPT !.status = status] \in OutboxRow
                                            /\ [Moved(r) EXCEPT !.status = status].status = status
    BY DEF OutboxRow
  <1> HIDE DEF Moved
  <1>6. outbox' \in [DOMAIN outbox \cup {row} -> OutboxRow]
    BY <1>2, <1>3, <1>4, <1>5
  <1>7. ASSUME NEW r \in DOMAIN outbox
        PROVE  /\ outbox'[r].contact = IF outbox[r].contact = s THEN p ELSE outbox[r].contact
               /\ r # row => /\ outbox'[r].status = outbox[r].status
                             /\ outbox'[r].holder = outbox[r].holder
               /\ outbox'[r].status = "SUCCEEDED" <=> outbox[r].status = "SUCCEEDED"
    <2>1. CASE r = row
      BY <1>2, <1>4, <1>5, <2>1
    <2>2. CASE r # row
      BY <1>2, <1>4, <2>2
    <2> QED
      BY <2>1, <2>2
  <1>8. row \notin DOMAIN outbox => outbox'[row].contact = p /\ outbox'[row].status = "PENDING"
    BY <1>3, <1>4, <1>5
  <1> QED
    BY <1>6, <1>7, <1>8 DEF Moves

(* What finishSuccess() does to them: history is queued, its own row settled. *)
Finishes(w) ==
    /\ outbox' \in [DOMAIN outbox \cup (IF Linking(w) THEN Backfill(w) ELSE {}) -> OutboxRow]
    /\ \A r \in DOMAIN outbox :
          /\ outbox'[r].contact = outbox[r].contact
          /\ outbox'[r] = outbox[r] \/ (r = call[w].row /\ Holds(w, r) /\ outbox'[r].holder = Nobody)
    /\ \A r \in Backfill(w) \ DOMAIN outbox : Linking(w) => outbox'[r] = NewRow(call[w].contact)

LEMMA FinishRows ==
  ASSUME BaseInv, NEW w \in Workers, FinishSuccess(w)
  PROVE  /\ Finishes(w) /\ call[w] # NoCall /\ Busy(w)
         /\ Holds(w, call[w].row) => outbox'[call[w].row].status = "SUCCEEDED"
  <1> DEFINE r == call[w].row
             c == call[w].contact
             rows == IF Linking(w) THEN Backfill(w) ELSE {}
             all == [x \in DOMAIN outbox \cup rows |-> IF x \in DOMAIN outbox THEN outbox[x] ELSE NewRow(c)]
  <1>1. call[w].step = "answered" /\ call[w] # NoCall /\ Busy(w)
    BY DEF FinishSuccess, NoCall, BaseInv, ProgressInv
  <1>2. r \in DOMAIN outbox /\ c \in Contacts
    BY <1>1 DEF Busy, Present
  <1>3. outbox \in [DOMAIN outbox -> OutboxRow]
    BY DEF BaseInv, TypeOK
  <1>4. NewRow(c) \in OutboxRow
    BY <1>2, NewRowTyped
  <1>5. all = IF Linking(w) THEN WithNew(Backfill(w), c) ELSE outbox
    <2>1. CASE Linking(w)
      BY <2>1 DEF WithNew, Exists
    <2>2. CASE ~Linking(w)
      BY <1>3, <2>2
    <2> QED
      BY <2>1, <2>2
  <1> DEFINE settled == [all[r] EXCEPT !.status = "SUCCEEDED", !.holder = Nobody]
  <1>6. all \in [DOMAIN outbox \cup rows -> OutboxRow] /\ all[r] = outbox[r]
    BY <1>2, <1>3, <1>4
  <1>7. /\ settled \in OutboxRow /\ settled.contact = outbox[r].contact
        /\ settled.status = "SUCCEEDED" /\ settled.holder = Nobody
    <2>1. outbox[r] \in OutboxRow
      BY <1>2, <1>3
    <2> QED
      BY <1>6, <2>1 DEF OutboxRow, Statuses
  <1>8. outbox' = IF Holds(w, r) THEN [all EXCEPT ![r] = settled] ELSE all
    <2> DEFINE given == IF Linking(w) THEN WithNew(Backfill(w), c) ELSE outbox
    <2>4. outbox' = IF Holds(w, r)
                    THEN [given EXCEPT ![r].status = "SUCCEEDED", ![r].holder = Nobody] ELSE given
      BY DEF FinishSuccess
    <2>5. all = given
      BY <1>5
    <2> HIDE DEF all, given
    <2>1. outbox' = IF Holds(w, r)
                    THEN [all EXCEPT ![r].status = "SUCCEEDED", ![r].holder = Nobody] ELSE all
      BY <2>4, <2>5
    <2>2. all[r] \in OutboxRow
      BY <1>2, <1>3, <1>6
    <2>3. [all EXCEPT ![r].status = "SUCCEEDED", ![r].holder = Nobody] = [all EXCEPT ![r] = settled]
      BY <1>2, <1>6, <2>2 DEF OutboxRow
    <2> QED
      BY <2>1, <2>3
  <1>9. /\ \A x \in DOMAIN outbox : all[x] = outbox[x]
        /\ \A x \in rows \ DOMAIN outbox : all[x] = NewRow(c)
    OBVIOUS
  <1> HIDE DEF all, settled
  <1>10. outbox' \in [DOMAIN outbox \cup rows -> OutboxRow]
    BY <1>2, <1>6, <1>7, <1>8
  <1>11. /\ \A x \in DOMAIN outbox : x # r => outbox'[x] = outbox[x]
         /\ \A x \in rows \ DOMAIN outbox : outbox'[x] = NewRow(c)
         /\ outbox'[r] = IF Holds(w, r) THEN settled ELSE outbox[r]
    BY <1>2, <1>6, <1>8, <1>9
  <1> QED
    BY <1>1, <1>2, <1>7, <1>10, <1>11 DEF Finishes
-----------------------------------------------------------------------------
(* Types, presence and progress, kept by each action. *)
LEMMA OpenStays ==
  ASSUME NEW q \in Requests, req[q] = NoReq \/ Open(q), UNCHANGED <<req[q], contact>>
  PROVE  req'[q] = NoReq \/ Open(q)'
  BY DEF Open, Present

LEMMA BusyStays ==
  ASSUME NEW w \in Workers, call[w] = NoCall \/ Busy(w), call'[w] = call[w],
         DOMAIN outbox \subseteq DOMAIN outbox', Present \subseteq Present',
         UNCHANGED done
  PROVE  call'[w] = NoCall \/ Busy(w)'
  BY DEF Busy

LEMMA AddsKeep ==
  ASSUME TypeOK, PresentInv, DoneInv, NEW rows \in SUBSET Rows, NEW c \in Present, Adds(rows, c),
         Present \subseteq Present', UNCHANGED done
  PROVE  /\ outbox' \in [DOMAIN outbox' -> OutboxRow] /\ DOMAIN outbox' \subseteq Rows
         /\ DOMAIN outbox' = DOMAIN outbox \cup rows /\ DOMAIN done' \subseteq DOMAIN outbox'
         /\ \A r \in DOMAIN outbox' : outbox'[r].contact \in Present'
         /\ DoneInv'
  <1>1. c \in Contacts
    BY DEF Present
  <1>2. DOMAIN outbox' = DOMAIN outbox \cup rows
    BY DEF Adds
  <1>3. /\ outbox' \in [DOMAIN outbox' -> OutboxRow] /\ DOMAIN outbox' \subseteq Rows
        /\ DOMAIN done' \subseteq DOMAIN outbox'
    BY <1>2 DEF Adds, TypeOK
  <1>4. ASSUME NEW r \in DOMAIN outbox'
        PROVE  /\ outbox'[r].contact \in Present
               /\ outbox'[r].status = "SUCCEEDED" => r \in DOMAIN done
    <2>1. CASE r \in DOMAIN outbox
      BY <2>1 DEF Adds, PresentInv, DoneInv
    <2>2. CASE r \notin DOMAIN outbox
      BY <1>1, <1>2, <2>2, NewRowTyped DEF Adds
    <2> QED
      BY <2>1, <2>2
  <1> QED
    BY <1>2, <1>3, <1>4 DEF DoneInv

LEMMA TurnsKeep ==
  ASSUME TypeOK, PresentInv, DoneInv, Turns, Present \subseteq Present', UNCHANGED done
  PROVE  /\ outbox' \in [DOMAIN outbox' -> OutboxRow] /\ DOMAIN outbox' \subseteq Rows
         /\ DOMAIN outbox' = DOMAIN outbox /\ DOMAIN done' \subseteq DOMAIN outbox'
         /\ \A r \in DOMAIN outbox' : outbox'[r].contact \in Present'
         /\ DoneInv'
  <1>1. DOMAIN outbox' = DOMAIN outbox
    BY DEF Turns
  <1> QED
    BY <1>1 DEF Turns, TypeOK, PresentInv, DoneInv

LEMMA ReadSenderBase ==
  ASSUME BaseInv, CrmAssumption, NEW m \in Messages, ReadSender(m)
  PROVE  BaseInv'
  <1> USE DEF BaseInv, ReadSender, contactVars, crmVars, historyVars, countVars
  <1> DEFINE c == owner[Sender[m]]
  <1>1. c \in Present /\ c \in Contacts
    BY DEF PresentInv, Present, CrmAssumption
  <1>2. reading' = [reading EXCEPT ![m] = [contact |-> c, linked |-> lead[c] # Nobody]]
    OBVIOUS
  <1>3. TypeOK'
    BY <1>1, <1>2 DEF TypeOK, Transaction
  <1>4. PresentInv'
    <2>1. \A n \in Messages : reading'[n] = NoTx \/ reading'[n].contact \in Present'
      BY <1>1, <1>2 DEF PresentInv, Present, TypeOK
    <2> QED
      BY <2>1 DEF PresentInv, Present, PresentOrNobody
  <1>5. ProgressInv'
    BY DEF ProgressInv, DoneInv, Open, Busy, Present
  <1> QED
    BY <1>3, <1>4, <1>5

LEMMA IntentRow ==
  ASSUME TypeOK, PresentInv, NEW m \in Messages, reading[m] # NoTx
  PROVE  /\ Intent(m) \in Rows \ MergeRows
         /\ reading[m].contact \in Present /\ reading[m].contact \in Contacts
         /\ Intent(m) = IF reading[m].linked THEN History(m) ELSE Bootstrap(reading[m].contact)
  <1>1. reading[m].contact \in Present /\ reading[m].contact \in Contacts
    BY DEF PresentInv, Present
  <1> QED
    BY <1>1, RowNames, RowKinds DEF Intent, Rows

LEMMA StoreMessageBase ==
  ASSUME BaseInv, CrmAssumption, NEW m \in Messages, StoreMessage(m)
  PROVE  BaseInv' /\ Adds({Intent(m)}, reading[m].contact)
  <1> USE DEF BaseInv, StoreMessage, contactVars, crmVars, historyVars, countVars
  <1> DEFINE c == reading[m].contact
  <1>1. c \in Present /\ c \in Contacts /\ Intent(m) \in Rows
    BY IntentRow DEF NoTx
  <1>2. Adds({Intent(m)}, c)
    BY <1>1, WithNewAdds
  <1>3. /\ outbox' \in [DOMAIN outbox' -> OutboxRow] /\ DOMAIN outbox' \subseteq Rows
        /\ DOMAIN outbox' = DOMAIN outbox \cup {Intent(m)} /\ DOMAIN done' \subseteq DOMAIN outbox'
        /\ \A r \in DOMAIN outbox' : outbox'[r].contact \in Present'
        /\ DoneInv'
    BY <1>1, <1>2, AddsKeep DEF ProgressInv, Present
  <1>4. TypeOK'
    <2>2. reading' \in [Messages -> Transaction]
      BY DEF TypeOK, NoTx, Transaction
    <2>3. stored' \in [Messages -> Contacts \cup {Nobody}] /\ overlapped' \subseteq Messages
      BY <1>1 DEF TypeOK
    <2> QED
      BY <1>3, <2>2, <2>3 DEF TypeOK
  <1>5. PresentInv'
    <2>1. \A n \in Messages : reading'[n] = NoTx \/ reading'[n].contact \in Present'
      BY DEF PresentInv, Present, TypeOK
    <2>2. \A n \in Messages : stored'[n] \in PresentOrNobody'
      BY <1>1 DEF PresentInv, Present, PresentOrNobody, TypeOK
    <2> QED
      BY <1>3, <2>1, <2>2 DEF PresentInv, Present, PresentOrNobody
  <1>6. ProgressInv'
    <2>1. \A w \in Workers : call'[w] = NoCall \/ Busy(w)'
      BY <1>3, BusyStays DEF ProgressInv, Present
    <2>2. \A q \in Requests : req'[q] = NoReq \/ Open(q)'
      BY OpenStays DEF ProgressInv
    <2> QED
      BY <1>3, <2>1, <2>2 DEF ProgressInv
  <1> QED
    BY <1>2, <1>4, <1>5, <1>6
-----------------------------------------------------------------------------
(* A request that is read, or read again: it names contacts that are there. *)
Takes(q, r) ==
    /\ req' = [req EXCEPT ![q] = r] /\ requests' \in {requests, requests + 1}
    /\ UNCHANGED <<contactVars, stored, outbox, reading, call, crmVars, historyVars, faults>>

LEMMA AskTakes ==
  ASSUME NEW q \in Requests, NEW r, Ask(q, r)
  PROVE  Takes(q, r)
  BY DEF Ask, Takes, historyVars

LEMMA TakesBase ==
  ASSUME BaseInv, NEW q \in Requests, NEW r \in Request, Takes(q, r),
         r.kind # "none", r.to \in Present,
         r.kind \in {"merge", "plan", "repair"} => r.from \in Present /\ r.from # r.to
  PROVE  BaseInv'
  <1> USE DEF BaseInv, Takes, contactVars, crmVars, historyVars, countVars
  <1>1. req'[q] = r /\ \A o \in Requests : o # q => req'[o] = req[o]
    BY DEF TypeOK
  <1>2. TypeOK'
    BY DEF TypeOK
  <1>3. PresentInv'
    BY DEF PresentInv, Present, PresentOrNobody
  <1>4. ProgressInv'
    <2>1. ASSUME NEW o \in Requests PROVE req'[o] = NoReq \/ Open(o)'
      <3>1. CASE o = q
        BY <1>1, <3>1 DEF Open, Present
      <3>2. CASE o # q
        BY <1>1, <3>2, OpenStays DEF ProgressInv
      <3> QED
        BY <3>1, <3>2
    <2>2. \A w \in Workers : call'[w] = NoCall \/ Busy(w)'
      BY BusyStays DEF ProgressInv, Present
    <2>3. DoneInv'
      BY DEF ProgressInv, DoneInv
    <2> QED
      BY <2>1, <2>2, <2>3 DEF ProgressInv
  <1> QED
    BY <1>2, <1>3, <1>4

(* A merge that was made before, or a pair that needs no repair any more, only ends
   the request. *)
Drops(q) ==
    /\ Answered(q)
    /\ UNCHANGED <<contactVars, stored, outbox, reading, call, crmVars, historyVars, countVars>>

(* The kin: resolvePrimary() stays within it. *)
LEMMA PrimaryKin ==
  ASSUME TypeOK, CrmAssumption, KinTree, NEW s \in Contacts, NEW p \in Contacts, Primary(s) = p
  PROVE  kin[p] = kin[s]
  <1>1. Closed(Kin(s)) /\ s \in Kin(s) /\ Kin(s) \in SUBSET Contacts
    BY DEF Closed, Kin, KinTree, TypeOK
  <1>2. Way(s) \subseteq Kin(s)
    BY <1>1 DEF Way
  <1>3. p \in Ends(s)
    BY DEF Primary, CrmAssumption
  <1> QED
    BY <1>2, <1>3 DEF Ends, Kin

(* What the requests take. *)
Takings ==
    {r \in Request : /\ r.kind # "none" /\ contact[r.to] # "NONE" /\ r.to \in Contacts
                     /\ r.kind \in {"merge", "plan", "repair"} =>
                           r.from \in Present /\ r.from # r.to
                     /\ r.kind \in {"plan", "repair"} => kin[r.to] = kin[r.from]
                     /\ r.toLead \in {lead[r.to], Nobody}
                     /\ r.fromLead # Nobody => r.fromLead = lead[r.from]
                     /\ r.kind # "plan" =>
                           /\ contact[r.to] # "MERGED"
                           /\ r.kind # "repair" /\ r.from \in Contacts =>
                                 contact[r.from] # "MERGED"}

Asks(q) == \E r \in Takings : Takes(q, r)

LEMMA AskMergeTakes ==
  ASSUME BaseInv, NEW q \in Requests, NEW p \in Contacts, NEW s \in Contacts, AskMerge(q, p, s)
  PROVE  Asks(q)
  <1> DEFINE r == [kind |-> "merge", to |-> p, from |-> s, toLead |-> lead[p], fromLead |-> lead[s]]
  <1>1. r \in Takings
    BY DEF AskMerge, BaseInv, TypeOK, Request, Present, Takings
  <1>2. Ask(q, r)
    BY DEF AskMerge
  <1> HIDE DEF r
  <1> QED
    BY <1>1, <1>2, AskTakes DEF Asks

LEMMA PlanRepairTakes ==
  ASSUME BaseInv, KinTree, CrmAssumption, NEW q \in Requests, NEW p \in Contacts, NEW s \in Contacts,
         PlanRepair(q, p, s)
  PROVE  Asks(q)
  <1> DEFINE r == [NoReq EXCEPT !.kind = "plan", !.to = p, !.from = s]
  <1>1. /\ r \in Request
        /\ r.kind = "plan" /\ r.to = p /\ r.from = s /\ r.toLead = Nobody /\ r.fromLead = Nobody
    BY DEF NoReq, Request, LeadOrNobody
  <1>2. kin[p] = kin[s]
    BY PrimaryKin DEF PlanRepair, BaseInv
  <1>3. contact[s] = "MERGED" /\ contact[p] = "ACTIVE" /\ p # s
    BY DEF PlanRepair
  <1>4. Ask(q, r)
    BY DEF PlanRepair
  <1> HIDE DEF r
  <1>5. r \in Takings
    BY <1>1, <1>2, <1>3 DEF Takings, Present
  <1> QED
    BY <1>4, <1>5, AskTakes DEF Asks

LEMMA ReadPairTakes ==
  ASSUME BaseInv, KinCalls, NEW q \in Requests, ReadPair(q)
  PROVE  Asks(q) \/ Drops(q)
  <1> DEFINE p == req[q].to
             s == req[q].from
             r == [kind |-> "repair", to |-> p, from |-> s, toLead |-> lead[p], fromLead |-> lead[s]]
  <1>1. req[q].kind = "plan"
    BY DEF ReadPair
  <1>2. p \in Present /\ s \in Present /\ p # s /\ kin[p] = kin[s]
    BY <1>1 DEF BaseInv, ProgressInv, Open, NoReq, KinCalls
  <1>3. CASE contact[s] = "MERGED" /\ contact[p] = "ACTIVE"
    <2>1. r \in Takings
      BY <1>2, <1>3 DEF BaseInv, TypeOK, Request, Present, Takings
    <2>2. Takes(q, r)
      BY <1>3 DEF ReadPair, Takes, countVars
    <2> HIDE DEF r
    <2> QED
      BY <2>1, <2>2 DEF Asks
  <1>4. CASE ~(contact[s] = "MERGED" /\ contact[p] = "ACTIVE")
    BY <1>4 DEF ReadPair, Drops
  <1> QED
    BY <1>3, <1>4

LEMMA AskEditTakes ==
  ASSUME BaseInv, CrmAssumption, NEW q \in Requests, NEW c \in Contacts, AskEdit(q, c)
  PROVE  Asks(q)
  <1> DEFINE r == [NoReq EXCEPT !.kind = "edit", !.to = c]
  <1>1. /\ r.kind = "edit" /\ r.to = c /\ r.from = Nobody /\ r.toLead = Nobody /\ r.fromLead = Nobody
    BY DEF NoReq
  <1>2. r \in Request
    BY DEF NoReq, Request, LeadOrNobody
  <1>3. contact[c] = "ACTIVE" /\ Nobody \notin Contacts
    BY DEF AskEdit, CrmAssumption
  <1>4. Ask(q, r)
    BY DEF AskEdit
  <1> HIDE DEF r
  <1>5. r \in Takings
    BY <1>1, <1>2, <1>3 DEF Takings
  <1> QED
    BY <1>4, <1>5, AskTakes DEF Asks

LEMMA AskSnapshotTakes ==
  ASSUME BaseInv, CrmAssumption, NEW q \in Requests, NEW c \in Contacts, AskSnapshot(q, c)
  PROVE  Asks(q)
  <1> DEFINE r == [NoReq EXCEPT !.kind = "snapshot", !.to = c, !.toLead = lead[c]]
  <1>1. /\ r.kind = "snapshot" /\ r.to = c /\ r.from = Nobody
        /\ r.toLead = lead[c] /\ r.fromLead = Nobody
    BY DEF NoReq
  <1>2. r \in Request
    BY DEF BaseInv, TypeOK, NoReq, Request, LeadOrNobody
  <1>3. contact[c] = "ACTIVE" /\ Nobody \notin Contacts
    BY DEF AskSnapshot, CrmAssumption
  <1>4. Ask(q, r)
    BY DEF AskSnapshot
  <1> HIDE DEF r
  <1>5. r \in Takings
    BY <1>1, <1>2, <1>3 DEF Takings
  <1> QED
    BY <1>4, <1>5, AskTakes DEF Asks

LEMMA AsksBase ==
  ASSUME BaseInv, NEW q \in Requests, Asks(q)
  PROVE  BaseInv'
  <1>1. PICK r \in Takings : Takes(q, r)
    BY DEF Asks
  <1>2. /\ r \in Request /\ r.kind # "none" /\ r.to \in Present
        /\ r.kind \in {"merge", "plan", "repair"} => r.from \in Present /\ r.from # r.to
    BY <1>1 DEF Takings, Present
  <1> QED
    BY <1>1, <1>2, TakesBase

LEMMA AnsweredOpen ==
  ASSUME BaseInv, NEW q \in Requests, Answered(q), Present \subseteq Present'
  PROVE  /\ req' \in [Requests -> Request]
         /\ req'[q] = NoReq /\ \A o \in Requests : o # q => req'[o] = req[o]
         /\ \A o \in Requests : req'[o] = NoReq \/ Open(o)'
  <1>1. req \in [Requests -> Request] /\ NoReq \in Request
    BY DEF BaseInv, TypeOK, NoReq, Request, LeadOrNobody
  <1>2. /\ req' \in [Requests -> Request]
        /\ req'[q] = NoReq /\ \A o \in Requests : o # q => req'[o] = req[o]
    BY <1>1 DEF Answered
  <1> QED
    BY <1>2 DEF BaseInv, ProgressInv, Open

(* What merges and repairs have in common. *)
LEMMA Merging ==
  ASSUME BaseInv, NEW q \in Requests, req[q].kind \in {"merge", "repair"}
  PROVE  /\ req[q].to \in Present /\ req[q].from \in Present /\ req[q].to # req[q].from
         /\ req[q].to \in Contacts /\ req[q].from \in Contacts
         /\ req[q].toLead \in LeadOrNobody /\ req[q].fromLead \in LeadOrNobody
         /\ req[q] \in Request
  BY DEF BaseInv, ProgressInv, TypeOK, NoReq, Open, Present, Request

LEMMA JoinBase ==
  ASSUME BaseInv, CrmAssumption, NEW q \in Requests, req[q].kind \in {"merge", "repair"},
         NEW row \in Rows, NEW status \in Statuses, Join(q, row, status),
         row \in DOMAIN outbox => (status = "SUCCEEDED" <=> outbox[row].status = "SUCCEEDED"),
         row \notin DOMAIN outbox => status = "PENDING",
         contact' \in {contact, [contact EXCEPT ![req[q].from] = "MERGED"]},
         disturbed' \subseteq Contacts
  PROVE  /\ BaseInv' /\ Moves(req[q].to, req[q].from, row) /\ Present' = Present
         /\ req'[q] = NoReq /\ \A o \in Requests : o # q => req'[o] = req[o]
  <1> USE DEF BaseInv, contactVars, crmVars, historyVars, countVars
  <1> DEFINE p == req[q].to
             s == req[q].from
             joint == IF req[q].toLead # Nobody THEN req[q].toLead ELSE req[q].fromLead
  <1>1. /\ p \in Present /\ s \in Present /\ p # s /\ p \in Contacts /\ s \in Contacts
        /\ joint \in LeadOrNobody
    BY Merging
  <1>2. Present' = Present
    BY <1>1 DEF Present, TypeOK
  <1>3. Moves(p, s, row)
    BY <1>1, JoinMoves
  <1>4. /\ outbox' \in [DOMAIN outbox' -> OutboxRow] /\ DOMAIN outbox' = DOMAIN outbox \cup {row}
        /\ DOMAIN outbox' \subseteq Rows /\ DOMAIN done' \subseteq DOMAIN outbox'
    BY <1>3 DEF Moves, TypeOK, Join
  <1>5. /\ req' \in [Requests -> Request]
        /\ req'[q] = NoReq /\ \A o \in Requests : o # q => req'[o] = req[o]
        /\ \A o \in Requests : req'[o] = NoReq \/ Open(o)'
    BY <1>2, AnsweredOpen DEF Join
  <1>6. /\ into' = [into EXCEPT ![s] = p] /\ lead' = [lead EXCEPT ![p] = joint]
        /\ kin' = [c \in Contacts |-> IF kin[c] = kin[s] THEN kin[p] ELSE kin[c]]
        /\ UNCHANGED <<reading, call, link, gone, done, overlapped, requests, faults>>
    BY DEF Join
  <1>7. /\ owner' = [i \in Known |-> IF owner[i] = s THEN p ELSE owner[i]]
        /\ stored' = [m \in Messages |-> IF stored[m] = s THEN p ELSE stored[m]]
    BY DEF Join
  <1>8. uneven' \subseteq Contacts /\ outdated' \subseteq Contacts /\ doubled' \subseteq Contacts
    BY <1>1 DEF Join, TypeOK, Kin
  <1>9. TypeOK'
    <2>1. contact' \in [Contacts -> {"NONE", "ACTIVE", "MERGED"}]
      BY DEF TypeOK
    <2>2. /\ into' \in [Contacts -> Contacts \cup {Nobody}] /\ lead' \in [Contacts -> LeadOrNobody]
          /\ kin' \in [Contacts -> Contacts]
      BY <1>1, <1>6 DEF TypeOK
    <2>3. owner' \in [Known -> Contacts] /\ stored' \in [Messages -> Contacts \cup {Nobody}]
      BY <1>1, <1>7 DEF TypeOK
    <2>4. /\ reading' \in [Messages -> Transaction] /\ call' \in [Workers -> Call]
          /\ link' \in [Contacts -> LeadOrNobody] /\ gone' \subseteq Leads
          /\ done' \in [DOMAIN done' -> LeadOrNobody]
          /\ overlapped' \subseteq Messages /\ requests' \in Nat /\ faults' \in Nat
      BY <1>6 DEF TypeOK
    <2> QED
      BY <1>4, <1>5, <1>8, <2>1, <2>2, <2>3, <2>4 DEF TypeOK
  <1>10. PresentInv'
    <2>1. \A c \in Contacts : into'[c] \in PresentOrNobody'
      BY <1>1, <1>2, <1>6 DEF PresentInv, PresentOrNobody, TypeOK
    <2>2. \A c \in Contacts : contact'[c] = "MERGED" => into'[c] # Nobody
      BY <1>1, <1>6 DEF PresentInv, TypeOK, CrmAssumption
    <2>3. \A c \in Contacts : contact'[c] = "NONE" => into'[c] = Nobody /\ lead'[c] = Nobody
      <3> SUFFICES ASSUME NEW c \in Contacts, contact'[c] = "NONE"
                   PROVE  into'[c] = Nobody /\ lead'[c] = Nobody
        OBVIOUS
      <3>1. contact[c] = "NONE" /\ c # p /\ c # s
        BY <1>1, <1>2 DEF Present
      <3> QED
        BY <1>6, <3>1 DEF PresentInv, TypeOK
    <2>4. \A i \in Known : owner'[i] \in Present'
      BY <1>1, <1>2, <1>7 DEF PresentInv
    <2>5. \A m \in Messages : stored'[m] \in PresentOrNobody'
      BY <1>1, <1>2, <1>7 DEF PresentInv, PresentOrNobody
    <2>6. \A m \in Messages : reading'[m] = NoTx \/ reading'[m].contact \in Present'
      BY <1>2, <1>6 DEF PresentInv
    <2>7. \A r \in DOMAIN outbox' : outbox'[r].contact \in Present'
      BY <1>1, <1>2, <1>3, <1>4 DEF PresentInv, Moves
    <2> QED
      BY <2>1, <2>2, <2>3, <2>4, <2>5, <2>6, <2>7 DEF PresentInv
  <1>11. ProgressInv'
    <2>1. \A w \in Workers : call'[w] = NoCall \/ Busy(w)'
      BY <1>2, <1>4, <1>6, BusyStays DEF ProgressInv
    <2>2. DoneInv'
      BY <1>3, <1>4, <1>6 DEF ProgressInv, DoneInv, Moves
    <2> QED
      BY <1>5, <2>1, <2>2 DEF ProgressInv
  <1> QED
    BY <1>2, <1>3, <1>5, <1>9, <1>10, <1>11
-----------------------------------------------------------------------------
(* A merge that writes, a repair: what they share, with the row that is queued. *)
Joins(q, row) ==
    /\ req[q].kind \in {"merge", "repair"}
    /\ row \in {MergeOf(req[q].to, req[q].from), RepairOf(req[q].to, req[q].from)}
    /\ \E status \in Statuses :
          /\ Join(q, row, status)
          /\ row \in DOMAIN outbox => (status = "SUCCEEDED" <=> outbox[row].status = "SUCCEEDED")
          /\ row \notin DOMAIN outbox => status = "PENDING"
    /\ contact' \in {contact, [contact EXCEPT ![req[q].from] = "MERGED"]}

LEMMA MergeJoins ==
  ASSUME BaseInv, NEW q \in Requests, Merge(q), ~Exists(MergeOf(req[q].to, req[q].from))
  PROVE  Joins(q, MergeOf(req[q].to, req[q].from)) /\ disturbed' \subseteq Contacts
  <1> DEFINE row == MergeOf(req[q].to, req[q].from)
  <1>1. req[q].kind = "merge"
    BY DEF Merge
  <1>2. Join(q, row, "PENDING") /\ contact' = [contact EXCEPT ![req[q].from] = "MERGED"]
    BY DEF Merge
  <1>3. row \notin DOMAIN outbox
    BY DEF Exists
  <1>4. disturbed' \subseteq Contacts
    BY <1>1, Merging DEF Merge, BaseInv, TypeOK
  <1>5. "PENDING" \in Statuses
    BY DEF Statuses
  <1> HIDE DEF row
  <1> QED
    BY <1>1, <1>2, <1>3, <1>4, <1>5 DEF Joins, row

LEMMA RepairJoins ==
  ASSUME BaseInv, NEW q \in Requests, Repair(q)
  PROVE  Joins(q, RepairOf(req[q].to, req[q].from)) /\ disturbed' \subseteq Contacts
  <1> DEFINE row == RepairOf(req[q].to, req[q].from)
  <1>1. req[q].kind = "repair"
    BY DEF Repair
  <1>2. Join(q, row, RepairStatus(row)) /\ contact' = contact
    BY DEF Repair
  <1>3. row \notin DOMAIN outbox => RepairStatus(row) = "PENDING"
    BY DEF RepairStatus, Exists
  <1>4. row \in DOMAIN outbox =>
           /\ RepairStatus(row) \in Statuses
           /\ RepairStatus(row) = "SUCCEEDED" <=> outbox[row].status = "SUCCEEDED"
    <2> SUFFICES ASSUME row \in DOMAIN outbox
                 PROVE  /\ RepairStatus(row) \in Statuses
                        /\ RepairStatus(row) = "SUCCEEDED" <=> outbox[row].status = "SUCCEEDED"
      OBVIOUS
    <2>1. outbox[row] \in OutboxRow
      BY DEF BaseInv, TypeOK
    <2>2. outbox[row].status \in Statuses
      BY <2>1 DEF OutboxRow
    <2>3. CASE outbox[row].status \in {"FAILED", "UNKNOWN"}
      BY <2>3 DEF RepairStatus, Exists, Status, Statuses
    <2>4. CASE outbox[row].status \notin {"FAILED", "UNKNOWN"}
      BY <2>2, <2>4 DEF RepairStatus, Exists, Status
    <2> QED
      BY <2>3, <2>4
  <1>5. disturbed' \subseteq Contacts
    BY <1>1, Merging DEF Repair, BaseInv, TypeOK
  <1>6. RepairStatus(row) \in Statuses
    BY <1>3, <1>4 DEF Statuses
  <1> HIDE DEF row
  <1> QED
    BY <1>1, <1>2, <1>3, <1>4, <1>5, <1>6 DEF Joins, row

LEMMA JoinsBase ==
  ASSUME BaseInv, CrmAssumption, NEW q \in Requests, NEW row, Joins(q, row),
         disturbed' \subseteq Contacts
  PROVE  /\ BaseInv' /\ Moves(req[q].to, req[q].from, row) /\ Present' = Present
         /\ req'[q] = NoReq /\ \A o \in Requests : o # q => req'[o] = req[o]
         /\ row \in MergeRows /\ row[2] = req[q].to /\ row[3] = req[q].from
  <1>1. req[q].to \in Contacts /\ req[q].from \in Contacts /\ req[q].to # req[q].from
    BY Merging DEF Joins
  <1>2. row \in MergeRows /\ row[2] = req[q].to /\ row[3] = req[q].from /\ row \in Rows
    BY <1>1, RowNames DEF Joins, Rows
  <1>3. PICK status \in Statuses :
           /\ Join(q, row, status)
           /\ row \in DOMAIN outbox => (status = "SUCCEEDED" <=> outbox[row].status = "SUCCEEDED")
           /\ row \notin DOMAIN outbox => status = "PENDING"
    BY DEF Joins
  <1>4. req[q].kind \in {"merge", "repair"} /\ contact' \in {contact, [contact EXCEPT ![req[q].from] = "MERGED"]}
    BY DEF Joins
  <1> QED
    BY <1>2, <1>3, <1>4, JoinBase

LEMMA MergeSplits ==
  ASSUME NEW q \in Requests, Merge(q), Exists(MergeOf(req[q].to, req[q].from))
  PROVE  Drops(q)
  BY DEF Merge, Drops

LEMMA DropsBase ==
  ASSUME BaseInv, NEW q \in Requests, Drops(q)
  PROVE  BaseInv'
  <1> USE DEF BaseInv, Drops, contactVars, crmVars, historyVars, countVars
  <1>1. /\ req' \in [Requests -> Request]
        /\ \A o \in Requests : req'[o] = NoReq \/ Open(o)'
    BY AnsweredOpen DEF Present
  <1>2. TypeOK'
    BY <1>1 DEF TypeOK
  <1>3. PresentInv'
    BY DEF PresentInv, Present, PresentOrNobody
  <1>4. ProgressInv'
    BY <1>1 DEF ProgressInv, DoneInv, Busy, Present
  <1> QED
    BY <1>2, <1>3, <1>4

(* Edits and snapshots can bring a merged contact back. *)
Revives(q) ==
    /\ req[q] # NoReq /\ req[q].kind # "plan" /\ req[q].to \in Present
    /\ contact' \in {contact, [contact EXCEPT ![req[q].to] = "ACTIVE"]}
    /\ Answered(q)
    /\ UNCHANGED <<into, lead, owner, stored, reading, call, crmVars, historyVars, countVars>>

LEMMA EditRevives ==
  ASSUME BaseInv, NEW q \in Requests, Edit(q)
  PROVE  Revives(q) /\ outbox' = WithNew({Sync(req[q].to)}, req[q].to)
  <1>1. req[q] # NoReq
    BY DEF Edit, NoReq
  <1> QED
    BY <1>1 DEF Edit, Revives, BaseInv, ProgressInv, Open

LEMMA SnapshotRevives ==
  ASSUME BaseInv, NEW q \in Requests, Snapshot(q)
  PROVE  Revives(q) /\ outbox' = outbox
  <1>1. req[q] # NoReq
    BY DEF Snapshot, NoReq
  <1> QED
    BY <1>1 DEF Snapshot, Revives, BaseInv, ProgressInv, Open

LEMMA RevivesBase ==
  ASSUME BaseInv, NEW q \in Requests, Revives(q),
         outbox' = outbox \/ outbox' = WithNew({Sync(req[q].to)}, req[q].to)
  PROVE  /\ BaseInv' /\ Present' = Present
         /\ outbox' = outbox \/ Adds({Sync(req[q].to)}, req[q].to)
         /\ \A o \in Requests : req'[o] = NoReq \/ req'[o] = req[o]
  <1> USE DEF BaseInv, Revives, contactVars, crmVars, historyVars, countVars
  <1> DEFINE c == req[q].to
  <1>1. c \in Present /\ c \in Contacts /\ {Sync(c)} \in SUBSET Rows
    BY RowNames DEF Present, Rows
  <1>2. Present' = Present
    BY <1>1 DEF Present, TypeOK
  <1>3. outbox' = outbox \/ Adds({Sync(c)}, c)
    BY <1>1, WithNewAdds
  <1>4. /\ outbox' \in [DOMAIN outbox' -> OutboxRow] /\ DOMAIN outbox' \subseteq Rows
        /\ DOMAIN outbox \subseteq DOMAIN outbox' /\ DOMAIN done' \subseteq DOMAIN outbox'
        /\ \A r \in DOMAIN outbox' : outbox'[r].contact \in Present'
        /\ DoneInv'
    <2>1. CASE outbox' = outbox
      BY <1>2, <2>1 DEF TypeOK, PresentInv, ProgressInv, DoneInv
    <2>2. CASE Adds({Sync(c)}, c)
      BY <1>1, <1>2, <2>2, AddsKeep DEF ProgressInv
    <2> QED
      BY <1>3, <2>1, <2>2
  <1>5. /\ req' \in [Requests -> Request]
        /\ req'[q] = NoReq /\ \A o \in Requests : o # q => req'[o] = req[o]
        /\ \A o \in Requests : req'[o] = NoReq \/ Open(o)'
    BY <1>2, AnsweredOpen
  <1>6. TypeOK'
    <2>1. contact' \in [Contacts -> {"NONE", "ACTIVE", "MERGED"}]
      BY DEF TypeOK
    <2> QED
      BY <1>4, <1>5, <2>1 DEF TypeOK
  <1>7. PresentInv'
    <2>1. \A d \in Contacts : contact'[d] = "NONE" <=> contact[d] = "NONE"
      BY <1>2 DEF Present
    <2>2. \A d \in Contacts : contact'[d] = "MERGED" => contact[d] = "MERGED"
      BY <1>1 DEF TypeOK
    <2> QED
      BY <1>2, <1>4, <2>1, <2>2 DEF PresentInv, PresentOrNobody
  <1>8. ProgressInv'
    <2>1. \A w \in Workers : call'[w] = NoCall \/ Busy(w)'
      BY <1>2, <1>4, BusyStays DEF ProgressInv
    <2> QED
      BY <1>4, <1>5, <2>1 DEF ProgressInv
  <1> QED
    BY <1>2, <1>3, <1>5, <1>6, <1>7, <1>8
-----------------------------------------------------------------------------
LEMMA AnnounceBase ==
  ASSUME BaseInv, CrmAssumption, NEW c \in Contacts, NEW l \in Leads, Announce(c, l)
  PROVE  BaseInv' /\ Present' = Present \cup {c} /\ c \notin Present
  <1> USE DEF BaseInv, Announce, contactVars, crmVars, historyVars, countVars
  <1>1. Present' = Present \cup {c} /\ c \notin Present
    BY DEF Present, TypeOK
  <1>2. TypeOK'
    <2>1. contact' \in [Contacts -> {"NONE", "ACTIVE", "MERGED"}]
      BY DEF TypeOK
    <2>2. lead' \in [Contacts -> LeadOrNobody] /\ link' \in [Contacts -> LeadOrNobody]
      BY DEF TypeOK, LeadOrNobody
    <2>3. doubled' \subseteq Contacts
      BY DEF TypeOK, Kin
    <2>4. requests' \in Nat
      BY DEF TypeOK
    <2> QED
      BY <2>1, <2>2, <2>3, <2>4 DEF TypeOK
  <1>3. PresentInv'
    <2>1. \A d \in Contacts : contact'[d] = "NONE" => contact[d] = "NONE" /\ d # c
      BY DEF TypeOK
    <2>2. \A d \in Contacts : contact'[d] = "MERGED" => contact[d] = "MERGED"
      BY DEF TypeOK
    <2>3. \A d \in Contacts : d # c => lead'[d] = lead[d]
      BY DEF TypeOK
    <2> QED
      BY <1>1, <2>1, <2>2, <2>3 DEF PresentInv, PresentOrNobody
  <1>4. ProgressInv'
    BY <1>1 DEF ProgressInv, DoneInv, Open, Busy
  <1> QED
    BY <1>1, <1>2, <1>3, <1>4

(* A step of a worker that only turns rows. *)
Steps(w) ==
    /\ Turns /\ call' \in [Workers -> Call]
    /\ \A v \in Workers : v # w => call'[v] = call[v]
    /\ UNCHANGED <<contactVars, stored, reading, req, crmVars, historyVars>>
    /\ requests' \in Nat /\ faults' \in Nat

LEMMA StepsBase ==
  ASSUME BaseInv, NEW w \in Workers, Steps(w), call'[w] = NoCall \/ Busy(w)'
  PROVE  BaseInv' /\ Present' = Present
  <1> USE DEF BaseInv, Steps, contactVars, crmVars, historyVars
  <1>1. Present' = Present
    BY DEF Present
  <1>2. /\ outbox' \in [DOMAIN outbox' -> OutboxRow] /\ DOMAIN outbox' \subseteq Rows
        /\ DOMAIN outbox' = DOMAIN outbox /\ DOMAIN done' \subseteq DOMAIN outbox'
        /\ \A r \in DOMAIN outbox' : outbox'[r].contact \in Present'
        /\ DoneInv'
    BY <1>1, TurnsKeep DEF ProgressInv
  <1>3. TypeOK'
    BY <1>2 DEF TypeOK
  <1>4. PresentInv'
    BY <1>1, <1>2 DEF PresentInv, PresentOrNobody
  <1>5. ProgressInv'
    <2>1. ASSUME NEW v \in Workers PROVE call'[v] = NoCall \/ Busy(v)'
      <3>1. CASE v = w
        BY <3>1
      <3>2. CASE v # w
        BY <1>1, <1>2, <3>2, BusyStays DEF ProgressInv
      <3> QED
        BY <3>1, <3>2
    <2>2. \A q \in Requests : req'[q] = NoReq \/ Open(q)'
      BY OpenStays DEF ProgressInv
    <2> QED
      BY <1>2, <2>1, <2>2 DEF ProgressInv
  <1> QED
    BY <1>1, <1>3, <1>4, <1>5

LEMMA NoCallTyped == NoCall \in Call /\ NoCall.step = "idle"
  BY DEF NoCall, Call, LeadOrNobody

LEMMA Ended ==
  ASSUME TypeOK, NEW w \in Workers, call' = [call EXCEPT ![w] = NoCall]
  PROVE  /\ call' \in [Workers -> Call] /\ call'[w] = NoCall
         /\ \A v \in Workers : v # w => call'[v] = call[v]
  BY NoCallTyped DEF TypeOK

(* The steps that end a call, or do not concern one, and only turn rows. *)
LEMMA OperatorRetryBase ==
  ASSUME BaseInv, NEW r \in DOMAIN outbox, OperatorRetry(r)
  PROVE  BaseInv'
  <1> USE DEF BaseInv, OperatorRetry, contactVars, crmVars, historyVars
  <1>1. Turns
    BY OperatorRetryTurns
  <1>2. Present' = Present
    BY DEF Present
  <1>3. /\ outbox' \in [DOMAIN outbox' -> OutboxRow] /\ DOMAIN outbox' \subseteq Rows
        /\ DOMAIN outbox' = DOMAIN outbox /\ DOMAIN done' \subseteq DOMAIN outbox'
        /\ \A x \in DOMAIN outbox' : outbox'[x].contact \in Present'
        /\ DoneInv'
    BY <1>1, <1>2, TurnsKeep DEF ProgressInv
  <1>4. TypeOK'
    BY <1>3 DEF TypeOK
  <1>5. PresentInv'
    BY <1>2, <1>3 DEF PresentInv, PresentOrNobody
  <1>6. ProgressInv'
    BY <1>2, <1>3 DEF ProgressInv, Open, Busy
  <1> QED
    BY <1>4, <1>5, <1>6

LEMMA ClaimSteps ==
  ASSUME BaseInv, NEW w \in Workers, NEW r \in DOMAIN outbox, Claim(w, r)
  PROVE  /\ Steps(w) /\ (call'[w] = NoCall \/ Busy(w)')
         /\ \/ call'[w] = NoCall
            \/ /\ call'[w] # NoCall /\ call'[w].step = "loaded" /\ call'[w].row = r
               /\ call'[w].contact = outbox[r].contact
               /\ call'[w].lead = lead[outbox[r].contact]
  <1> USE DEF BaseInv, contactVars, crmVars, historyVars
  <1> DEFINE c == outbox[r].contact
             x == [step |-> "loaded", row |-> r, contact |-> c, lead |-> lead[c], answer |-> Nobody]
  <1>1. Turns
    BY ClaimTurns
  <1>2. c \in Present /\ c \in Contacts
    BY DEF PresentInv, Present
  <1>3. x \in Call /\ x # NoCall
    BY <1>2 DEF Call, NoCall, TypeOK, LeadOrNobody
  <1>4. call' = call \/ call' = [call EXCEPT ![w] = x]
    BY DEF Claim
  <1>5. /\ x.step = "loaded" /\ x.row = r /\ x.contact = c /\ x.lead = lead[c]
    OBVIOUS
  <1> HIDE DEF x
  <1>6. /\ call' \in [Workers -> Call] /\ \A v \in Workers : v # w => call'[v] = call[v]
        /\ call'[w] \in {call[w], x}
    BY <1>3, <1>4 DEF TypeOK
  <1>7. requests' \in Nat /\ faults' \in Nat
    <2>1. requests' = requests /\ faults' \in {faults, faults + 1}
      BY DEF Claim
    <2> QED
      BY <2>1 DEF TypeOK
  <1>8. UNCHANGED <<contactVars, stored, reading, req, crmVars, historyVars>>
    BY DEF Claim
  <1>9. Steps(w)
    BY <1>1, <1>6, <1>7, <1>8 DEF Steps
  <1>10. call[w] = NoCall
    BY DEF Claim
  <1>11. Present' = Present /\ DOMAIN outbox' = DOMAIN outbox
    BY <1>1, <1>8 DEF Present, Turns
  <1>12. call'[w] = x => Busy(w)'
    BY <1>2, <1>5, <1>11 DEF Busy
  <1> QED
    BY <1>3, <1>5, <1>6, <1>9, <1>10, <1>12

LEMMA RefusesSteps ==
  ASSUME BaseInv, NEW w \in Workers, Refuses(w) \/ FinishFails(w) \/ Crash(w)
  PROVE  Steps(w) /\ call'[w] = NoCall /\ Frees /\ UNCHANGED done
  <1> USE DEF BaseInv, contactVars, crmVars, historyVars, countVars
  <1>1. call[w] # NoCall
    BY DEF Refuses, FinishFails, Crash, NoCall
  <1>2. /\ call' = [call EXCEPT ![w] = NoCall] /\ requests' \in Nat /\ faults' \in Nat
        /\ UNCHANGED <<contactVars, stored, reading, req, crmVars, historyVars>>
    BY DEF Refuses, FinishFails, Crash, TypeOK
  <1>3. Turns /\ Frees
    <2>1. CASE Crash(w)
      BY <2>1 DEF Crash, Turns, Frees, Holds, Status, TypeOK
    <2>2. CASE Refuses(w) \/ FinishFails(w)
      <3>1. PICK status \in {"RETRY", "FAILED"} : Settle(w, status)
        BY <2>2 DEF Refuses, FinishFails
      <3> QED
        BY <1>1, <3>1, SettleTurns
    <2> QED
      BY <2>1, <2>2
  <1> QED
    BY <1>2, <1>3, Ended DEF Steps
-----------------------------------------------------------------------------
(* What Cyber Pulse does for a row, and what becomes of the call. *)
Answering(w, l) ==
    LET r == call[w].row IN
    /\ call[w].step = "loaded" /\ l \in LeadOrNobody
    /\ \/ r \in DOMAIN done /\ l = done[r] /\ UNCHANGED crmVars
       \/ /\ r \notin DOMAIN done /\ Applied(r, call[w].contact, call[w].lead, l)
          /\ done' = [x \in DOMAIN done \cup {r} |-> IF x = r THEN l ELSE done[x]]
    /\ \/ call' = [call EXCEPT ![w].step = "answered", ![w].answer = l]
       \/ call' = [call EXCEPT ![w] = NoCall]
    /\ Turns /\ Frees
    /\ UNCHANGED <<contactVars, stored, reading, req, historyVars, requests>> /\ faults' \in Nat

LEMMA AnswersAnswering ==
  ASSUME BaseInv, NEW w \in Workers, Answers(w)
  PROVE  \E l \in LeadOrNobody : Answering(w, l)
  <1> USE DEF BaseInv
  <1> DEFINE r == call[w].row
  <1>1. call[w].step = "loaded" /\ call[w] # NoCall
    BY DEF Answers, NoCall
  <1>2. PICK l \in LeadOrNobody :
          /\ IF r \in DOMAIN done
             THEN l = done[r] /\ UNCHANGED crmVars
             ELSE /\ Applied(r, call[w].contact, call[w].lead, l)
                  /\ done' = [x \in DOMAIN done \cup {r} |-> IF x = r THEN l ELSE done[x]]
          /\ \/ /\ call' = [call EXCEPT ![w].step = "answered", ![w].answer = l]
                /\ UNCHANGED <<outbox, faults>>
             \/ /\ Settle(w, "UNKNOWN")
                /\ call' = [call EXCEPT ![w] = NoCall]
                /\ UNCHANGED faults
             \/ /\ Settle(w, "RETRY") /\ faults < MaxFaults
                /\ call' = [call EXCEPT ![w] = NoCall]
                /\ faults' = faults + 1
    BY DEF Answers, LeadOrNobody
  <1>3. UNCHANGED <<contactVars, stored, reading, req, historyVars, requests>>
    BY DEF Answers
  <1>4. Turns /\ Frees
    <2>1. CASE outbox' = outbox
      BY <2>1 DEF Turns, Frees, Holds, Status, TypeOK
    <2>2. CASE Settle(w, "UNKNOWN")
      BY <1>1, <2>2, SettleTurns
    <2>3. CASE Settle(w, "RETRY")
      BY <1>1, <2>3, SettleTurns
    <2> QED
      BY <1>2, <2>1, <2>2, <2>3
  <1>5. faults' \in Nat
    BY <1>2 DEF TypeOK
  <1>6. \/ call' = [call EXCEPT ![w].step = "answered", ![w].answer = l]
        \/ call' = [call EXCEPT ![w] = NoCall]
    BY <1>2
  <1>7. \/ r \in DOMAIN done /\ l = done[r] /\ UNCHANGED crmVars
        \/ /\ r \notin DOMAIN done /\ Applied(r, call[w].contact, call[w].lead, l)
           /\ done' = [x \in DOMAIN done \cup {r} |-> IF x = r THEN l ELSE done[x]]
    BY <1>2
  <1> QED
    BY <1>1, <1>3, <1>4, <1>5, <1>6, <1>7 DEF Answering

(* The row is answered once, and Cyber Pulse has leads for contacts still. *)
LEMMA AnsweringDone ==
  ASSUME BaseInv, NEW w \in Workers, NEW l \in LeadOrNobody, Answering(w, l)
  PROVE  /\ call[w].row \in DOMAIN outbox /\ call[w].contact \in Contacts
         /\ done' \in [DOMAIN done' -> LeadOrNobody]
         /\ DOMAIN done' = DOMAIN done \cup {call[w].row} /\ done'[call[w].row] = l
         /\ \A r \in DOMAIN done : done'[r] = done[r]
         /\ call[w].row \in LeadRows => l # Nobody
         /\ link' \in [Contacts -> LeadOrNobody] /\ gone' \subseteq Leads
         /\ call[w].row \in HistoryRows /\ call[w].row \notin DOMAIN done => l = Nobody
  <1> USE DEF BaseInv
  <1> DEFINE r == call[w].row
             c == call[w].contact
  <1>1. Busy(w)
    BY DEF Answering, ProgressInv, NoCall
  <1>2. r \in DOMAIN outbox /\ c \in Contacts /\ r \in Rows
    BY <1>1 DEF Busy, Present, TypeOK
  <1>3. CASE r \in DOMAIN done /\ l = done[r] /\ UNCHANGED crmVars
    BY <1>2, <1>3 DEF crmVars, TypeOK, ProgressInv, DoneInv
  <1>4. CASE /\ r \notin DOMAIN done /\ Applied(r, c, call[w].lead, l)
             /\ done' = [x \in DOMAIN done \cup {r} |-> IF x = r THEN l ELSE done[x]]
    <2>1. /\ done' \in [DOMAIN done' -> LeadOrNobody]
          /\ DOMAIN done' = DOMAIN done \cup {r} /\ done'[r] = l
          /\ \A x \in DOMAIN done : done'[x] = done[x]
      BY <1>4 DEF TypeOK
    <2>2. CASE r \in LeadRows
      <3>1. FindsLead(c, call[w].lead, l)
        BY <1>4, <2>2, RowKinds DEF Applied
      <3>2. l \in Leads
        BY <1>2, <3>1 DEF FindsLead, Fresh, TypeOK, LeadOrNobody
      <3>3. link' = [link EXCEPT ![c] = l] /\ gone' = gone
        BY <3>1 DEF FindsLead
      <3> QED
        BY CrmAssumption, RowKinds, <1>2, <2>1, <2>2, <3>2, <3>3 DEF TypeOK, LeadOrNobody, CrmAssumption
    <2>3. CASE r \in MergeRows
      <3>1. MergesLeads(r[2], r[3], l)
        BY <1>4, <2>3, RowKinds DEF Applied
      <3>2. link' \in [Contacts -> LeadOrNobody] /\ gone' \subseteq Leads
        BY <2>3, <3>1, RowKinds DEF MergesLeads, TypeOK, LeadOrNobody
      <3> QED
        BY <1>2, <2>1, <2>3, <3>2, RowKinds
    <2>4. CASE r \in HistoryRows
      <3>1. l = Nobody /\ UNCHANGED <<link, gone>>
        BY <1>4, <2>4, RowKinds DEF Applied
      <3> QED
        BY <1>2, <2>1, <2>4, <3>1, RowKinds DEF TypeOK
    <2> QED
      BY <1>2, <2>2, <2>3, <2>4 DEF Rows
  <1> QED
    BY <1>3, <1>4 DEF Answering

LEMMA AnswersBase ==
  ASSUME BaseInv, NEW w \in Workers, NEW l \in LeadOrNobody, Answering(w, l)
  PROVE  /\ BaseInv' /\ Present' = Present
         /\ \A v \in Workers : v # w => call'[v] = call[v]
         /\ \/ call'[w] = NoCall
            \/ call'[w].row = call[w].row /\ call'[w].contact = call[w].contact
               /\ call'[w].lead = call[w].lead /\ call'[w].step = "answered"
  <1> USE DEF BaseInv, contactVars, historyVars
  <1> DEFINE x == [call[w] EXCEPT !.step = "answered", !.answer = l]
  <1>1. Busy(w) /\ call[w] \in Call
    BY DEF Answering, ProgressInv, NoCall, TypeOK
  <1>2. /\ x \in Call /\ x.row = call[w].row /\ x.contact = call[w].contact
        /\ x.lead = call[w].lead /\ x.step = "answered" /\ x.answer = l
    BY <1>1 DEF Call
  <1>3. call' \in {[call EXCEPT ![w] = x], [call EXCEPT ![w] = NoCall]}
    <2>1. [call EXCEPT ![w].step = "answered", ![w].answer = l] = [call EXCEPT ![w] = x]
      BY <1>1 DEF TypeOK, Call
    <2> QED
      BY <2>1 DEF Answering
  <1> HIDE DEF x
  <1>4. /\ call' \in [Workers -> Call] /\ \A v \in Workers : v # w => call'[v] = call[v]
        /\ call'[w] \in {x, NoCall}
    BY <1>2, <1>3, NoCallTyped DEF TypeOK
  <1>5. /\ done' \in [DOMAIN done' -> LeadOrNobody]
        /\ DOMAIN done' = DOMAIN done \cup {call[w].row} /\ done'[call[w].row] = l
        /\ \A r \in DOMAIN done : done'[r] = done[r]
        /\ call[w].row \in LeadRows => l # Nobody
        /\ link' \in [Contacts -> LeadOrNobody] /\ gone' \subseteq Leads
    BY AnsweringDone
  <1>6. /\ Turns /\ faults' \in Nat
        /\ UNCHANGED <<contactVars, stored, reading, req, historyVars, requests>>
    BY DEF Answering
  <1>7. Present' = Present /\ DOMAIN outbox' = DOMAIN outbox
    BY <1>6 DEF Present, Turns
  <1>8. TypeOK'
    BY <1>1, <1>4, <1>5, <1>6, <1>7 DEF TypeOK, Turns, Busy
  <1>9. PresentInv'
    BY <1>6, <1>7 DEF PresentInv, PresentOrNobody, Turns
  <1>10. ProgressInv'
    <2>1. ASSUME NEW v \in Workers PROVE call'[v] = NoCall \/ Busy(v)'
      <3>1. CASE v = w
        BY <1>1, <1>2, <1>4, <1>5, <1>7, <3>1 DEF Busy
      <3>2. CASE v # w
        BY <1>4, <1>5, <1>7, <3>2 DEF ProgressInv, Busy
      <3> QED
        BY <3>1, <3>2
    <2>2. \A q \in Requests : req'[q] = NoReq \/ Open(q)'
      BY <1>6, OpenStays DEF ProgressInv
    <2>3. DoneInv'
      BY <1>5, <1>6, <1>7 DEF ProgressInv, DoneInv, Turns
    <2> QED
      BY <2>1, <2>2, <2>3 DEF ProgressInv
  <1> QED
    BY <1>2, <1>4, <1>7, <1>8, <1>9, <1>10
-----------------------------------------------------------------------------
LEMMA BackfillRows ==
  ASSUME NEW w \in Workers
  PROVE  Backfill(w) \subseteq HistoryRows /\ Backfill(w) \subseteq Rows
  BY RowNames DEF Backfill, Rows

LEMMA FinishSuccessBase ==
  ASSUME BaseInv, NEW w \in Workers, FinishSuccess(w)
  PROVE  /\ BaseInv' /\ Present' = Present
         /\ call'[w] = NoCall /\ \A v \in Workers : v # w => call'[v] = call[v]
         /\ DOMAIN outbox' = DOMAIN outbox \cup (IF Linking(w) THEN Backfill(w) ELSE {})
         /\ \A r \in DOMAIN outbox' \ DOMAIN outbox :
               /\ r \in HistoryRows /\ r \in Backfill(w)
               /\ outbox'[r].contact = call[w].contact /\ outbox'[r].status = "PENDING"
  <1> USE DEF BaseInv, contactVars, crmVars, countVars
  <1> DEFINE c == call[w].contact
             rows == IF Linking(w) THEN Backfill(w) ELSE {}
  <1>1. /\ Finishes(w) /\ call[w] # NoCall /\ Busy(w)
        /\ Holds(w, call[w].row) => outbox'[call[w].row].status = "SUCCEEDED"
    BY FinishRows
  <1>2. /\ c \in Present /\ c \in Contacts /\ call[w].row \in DOMAIN done
        /\ call[w].answer \in LeadOrNobody
    BY <1>1 DEF Busy, Present, FinishSuccess, TypeOK, Call
  <1>3. Present' = Present
    BY DEF Present, FinishSuccess
  <1>4. /\ outbox' \in [DOMAIN outbox' -> OutboxRow] /\ DOMAIN outbox' \subseteq Rows
        /\ DOMAIN outbox' = DOMAIN outbox \cup rows /\ DOMAIN done' \subseteq DOMAIN outbox'
    BY <1>1, BackfillRows DEF Finishes, TypeOK, FinishSuccess
  <1>5. \A r \in DOMAIN outbox' \ DOMAIN outbox :
           /\ r \in HistoryRows /\ r \in Backfill(w)
           /\ outbox'[r].contact = c /\ outbox'[r].status = "PENDING"
    BY <1>1, <1>2, <1>4, BackfillRows, NewRowTyped DEF Finishes
  <1>6. /\ call' \in [Workers -> Call] /\ call'[w] = NoCall
        /\ \A v \in Workers : v # w => call'[v] = call[v]
    BY Ended DEF FinishSuccess
  <1>7. TypeOK'
    <2>1. lead' \in [Contacts -> LeadOrNobody]
      BY <1>2 DEF FinishSuccess, TypeOK
    <2>2. uneven' \subseteq Contacts /\ outdated' \subseteq Contacts
      BY <1>2 DEF FinishSuccess, TypeOK, Kin
    <2> QED
      BY <1>4, <1>6, <2>1, <2>2 DEF FinishSuccess, TypeOK
  <1>8. PresentInv'
    <2>1. \A d \in Contacts : contact'[d] = "NONE" => into'[d] = Nobody /\ lead'[d] = Nobody
      BY <1>2 DEF FinishSuccess, PresentInv, Present, TypeOK
    <2>2. ASSUME NEW r \in DOMAIN outbox' PROVE outbox'[r].contact \in Present'
      <3>1. CASE r \in DOMAIN outbox
        BY <1>1, <1>3, <3>1 DEF Finishes, PresentInv
      <3>2. CASE r \notin DOMAIN outbox
        BY <1>2, <1>3, <1>5, <3>2
      <3> QED
        BY <3>1, <3>2
    <2> QED
      BY <1>3, <2>1, <2>2 DEF FinishSuccess, PresentInv, PresentOrNobody
  <1>9. ProgressInv'
    <2>1. ASSUME NEW v \in Workers PROVE call'[v] = NoCall \/ Busy(v)'
      <3>1. CASE v = w
        BY <1>6, <3>1
      <3>2. CASE v # w
        BY <1>3, <1>4, <1>6, <3>2, BusyStays DEF ProgressInv, FinishSuccess
      <3> QED
        BY <3>1, <3>2
    <2>2. \A q \in Requests : req'[q] = NoReq \/ Open(q)'
      BY OpenStays DEF ProgressInv, FinishSuccess
    <2>3. DoneInv'
      <3>1. done' = done
        BY DEF FinishSuccess
      <3>2. ASSUME NEW r \in DOMAIN outbox', outbox'[r].status = "SUCCEEDED"
            PROVE  r \in DOMAIN done
        <4>1. CASE r \in DOMAIN outbox
          BY <1>1, <1>2, <3>2, <4>1 DEF Finishes, ProgressInv, DoneInv
        <4>2. CASE r \notin DOMAIN outbox
          BY <1>5, <3>2, <4>2
        <4> QED
          BY <4>1, <4>2
      <3> QED
        BY <3>1, <3>2 DEF ProgressInv, DoneInv
    <2> QED
      BY <2>1, <2>2, <2>3 DEF ProgressInv
  <1> QED
    BY <1>3, <1>4, <1>5, <1>6, <1>7, <1>8, <1>9
-----------------------------------------------------------------------------
(* All steps, as the proofs go through them. *)
Writes(q) ==
    \/ Drops(q)
    \/ Merge(q) /\ Joins(q, MergeOf(req[q].to, req[q].from)) /\ disturbed' \subseteq Contacts
    \/ Repair(q) /\ Joins(q, RepairOf(req[q].to, req[q].from)) /\ disturbed' \subseteq Contacts
    \/ Revives(q) /\ (outbox' = outbox \/ outbox' = WithNew({Sync(req[q].to)}, req[q].to))

Scans(w) ==
    \/ \E r \in DOMAIN outbox : Claim(w, r)
    \/ \E l \in LeadOrNobody : Answering(w, l)
    \/ Refuses(w) \/ FinishFails(w) \/ Crash(w)
    \/ FinishSuccess(w)

LEMMA NextCases ==
  ASSUME BaseInv, KinInv, CrmAssumption, Next
  PROVE  \/ \E m \in Messages : ReadSender(m)
         \/ \E m \in Messages : StoreMessage(m)
         \/ \E q \in Requests : Asks(q)
         \/ \E q \in Requests : Writes(q)
         \/ \E c \in Contacts, l \in Leads : Announce(c, l)
         \/ \E r \in DOMAIN outbox : OperatorRetry(r)
         \/ \E w \in Workers : Scans(w)
  <1>1. ASSUME NEW q \in Requests, Merge(q) \/ Repair(q) \/ Edit(q) \/ Snapshot(q)
        PROVE  Writes(q)
    <2>1. CASE Merge(q) /\ Exists(MergeOf(req[q].to, req[q].from))
      BY <2>1, MergeSplits DEF Writes
    <2>2. CASE Merge(q) /\ ~Exists(MergeOf(req[q].to, req[q].from))
      BY <2>2, MergeJoins DEF Writes
    <2>3. CASE Repair(q)
      BY <2>3, RepairJoins DEF Writes
    <2>4. CASE Edit(q)
      BY <2>4, EditRevives DEF Writes
    <2>5. CASE Snapshot(q)
      BY <2>5, SnapshotRevives DEF Writes
    <2> QED
      BY <1>1, <2>1, <2>2, <2>3, <2>4, <2>5
  <1>2. CASE \E m \in Messages : ReadSender(m) \/ StoreMessage(m)
    BY <1>2
  <1>3. ASSUME NEW q \in Requests,
               \/ \E p, s \in Contacts : AskMerge(q, p, s) \/ PlanRepair(q, p, s)
               \/ \E c \in Contacts : AskEdit(q, c) \/ AskSnapshot(q, c)
        PROVE  Asks(q)
    BY <1>3, AskMergeTakes, PlanRepairTakes, AskEditTakes, AskSnapshotTakes DEF KinInv
  <1>5. ASSUME NEW q \in Requests, ReadPair(q) PROVE Asks(q) \/ Writes(q)
    BY <1>5, ReadPairTakes DEF KinInv, Writes
  <1>6. CASE RequestStep
    BY <1>1, <1>3, <1>5, <1>6 DEF RequestStep
  <1>4. CASE ScanStep
    BY <1>4, AnswersAnswering DEF ScanStep, Scans
  <1> QED
    BY <1>2, <1>4, <1>6 DEF Next

LEMMA BaseStep ==
  ASSUME BaseInv, KinInv, CrmAssumption, [Next]_vars
  PROVE  BaseInv'
  <1>1. CASE UNCHANGED vars
    <2> USE <1>1 DEF vars, contactVars, crmVars, historyVars, countVars
    <2>1. TypeOK'
      BY DEF BaseInv, TypeOK
    <2>2. PresentInv'
      BY DEF BaseInv, PresentInv, Present, PresentOrNobody
    <2>3. ProgressInv'
      BY DEF BaseInv, ProgressInv, DoneInv, Open, Busy, Present
    <2> QED
      BY <2>1, <2>2, <2>3 DEF BaseInv
  <1>2. ASSUME NEW m \in Messages, ReadSender(m) \/ StoreMessage(m) PROVE BaseInv'
    BY <1>2, ReadSenderBase, StoreMessageBase
  <1>3. ASSUME NEW q \in Requests, Asks(q) PROVE BaseInv'
    BY <1>3, AsksBase
  <1>4. ASSUME NEW q \in Requests, Writes(q) PROVE BaseInv'
    BY <1>4, DropsBase, JoinsBase, RevivesBase DEF Writes
  <1>5. ASSUME NEW c \in Contacts, NEW l \in Leads, Announce(c, l) PROVE BaseInv'
    BY <1>5, AnnounceBase
  <1>6. ASSUME NEW r \in DOMAIN outbox, OperatorRetry(r) PROVE BaseInv'
    BY <1>6, OperatorRetryBase
  <1>7. ASSUME NEW w \in Workers, Scans(w) PROVE BaseInv'
    BY <1>7, ClaimSteps, RefusesSteps, StepsBase, AnswersBase, FinishSuccessBase DEF Scans
  <1> QED
    BY <1>1, <1>2, <1>3, <1>4, <1>5, <1>6, <1>7, NextCases

LEMMA BaseInit ==
  ASSUME Init, CrmAssumption
  PROVE  BaseInv
  <1> USE DEF Init, CrmAssumption
  <1>1. NoTx \in Transaction /\ NoReq \in Request /\ NoCall \in Call
    BY DEF NoTx, Transaction, NoReq, Request, NoCall, Call, LeadOrNobody
  <1>2. TypeOK
    <2>1. outbox \in [DOMAIN outbox -> OutboxRow] /\ DOMAIN outbox \subseteq Rows
      OBVIOUS
    <2>2. done \in [DOMAIN done -> LeadOrNobody] /\ DOMAIN done \subseteq DOMAIN outbox
      OBVIOUS
    <2> QED
      BY <1>1, <2>1, <2>2 DEF TypeOK, LeadOrNobody
  <1>3. PresentInv
    <2>1. \A c \in Contacts : contact[c] = "MERGED" => into[c] # Nobody
      OBVIOUS
    <2>2. \A c \in Contacts : contact[c] = "NONE" => into[c] = Nobody /\ lead[c] = Nobody
      OBVIOUS
    <2>3. \A i \in Known : owner[i] \in Present
      BY DEF Present
    <2>4. \A r \in DOMAIN outbox : outbox[r].contact \in Present
      OBVIOUS
    <2>5. /\ \A m \in Messages : stored[m] \in PresentOrNobody
          /\ \A m \in Messages : reading[m] = NoTx \/ reading[m].contact \in Present
          /\ \A c \in Contacts : into[c] \in PresentOrNobody
      BY DEF PresentOrNobody
    <2> QED
      BY <2>1, <2>2, <2>3, <2>4, <2>5 DEF PresentInv
  <1>4. ProgressInv
    BY DEF ProgressInv, DoneInv
  <1> QED
    BY <1>2, <1>3, <1>4 DEF BaseInv
-----------------------------------------------------------------------------
(* The kin. *)
LEMMA KinTreeStays ==
  ASSUME KinTree, UNCHANGED <<contact, into, kin, doubled>>
  PROVE  KinTree'
  BY DEF KinTree, Roots, Present

LEMMA KinRowsTurn ==
  ASSUME KinRows, Turns, kin' = kin
  PROVE  KinRows'
  BY DEF KinRows, Turns

LEMMA KinRowsAdd ==
  ASSUME KinRows, NEW rows \in SUBSET Rows, NEW c, Adds(rows, c), kin' = kin, NewRow(c).contact = c,
         \A r \in rows : r \notin MergeRows /\ (r \in HistoryRows \/ r[2] = c)
  PROVE  KinRows'
  <1>1. DOMAIN outbox' = DOMAIN outbox \cup rows
    BY DEF Adds
  <1>2. \A r \in DOMAIN outbox' : \/ r \in DOMAIN outbox /\ outbox'[r] = outbox[r]
                                  \/ r \in rows /\ outbox'[r].contact = c
    BY <1>1 DEF Adds
  <1> QED
    BY <1>1, <1>2 DEF KinRows

LEMMA KinCallsStay ==
  ASSUME KinCalls, kin' = kin,
         \A w \in Workers : \/ call'[w] = NoCall
                            \/ call[w] # NoCall /\ call'[w].row = call[w].row
                               /\ call'[w].contact = call[w].contact,
         \A q \in Requests : req'[q] = NoReq \/ req'[q] = req[q]
  PROVE  KinCalls'
  <1>1. NoReq.kind \notin {"plan", "repair"}
    BY DEF NoReq
  <1> QED
    BY <1>1 DEF KinCalls

LEMMA StoreMessageKin ==
  ASSUME BaseInv, KinInv, CrmAssumption, NEW m \in Messages, StoreMessage(m)
  PROVE  KinInv'
  <1> USE DEF BaseInv, KinInv
  <1> DEFINE c == reading[m].contact
  <1>1. Adds({Intent(m)}, c) /\ UNCHANGED <<contactVars, req, call, link, kin, doubled>>
    BY StoreMessageBase DEF StoreMessage, crmVars
  <1>2. /\ Intent(m) \in Rows \ MergeRows /\ c \in Contacts
        /\ Intent(m) = IF reading[m].linked THEN History(m) ELSE Bootstrap(c)
    BY IntentRow DEF StoreMessage
  <1>3. Intent(m) \in HistoryRows \/ Intent(m)[2] = c
    BY <1>2, RowNames
  <1>4. KinRows'
    BY <1>1, <1>2, <1>3, KinRowsAdd, NewRowTyped
  <1> QED
    BY <1>1, <1>4, KinTreeStays DEF contactVars, KinCalls, KinLinks

LEMMA AsksKin ==
  ASSUME BaseInv, KinInv, NEW q \in Requests, Asks(q)
  PROVE  KinInv'
  <1> USE DEF BaseInv, KinInv, Takes, contactVars, crmVars, historyVars
  <1>1. PICK r \in Takings : Takes(q, r)
    BY DEF Asks
  <1>2. r.kind \in {"plan", "repair"} => kin[r.to] = kin[r.from]
    BY <1>1 DEF Takings
  <1>3. req'[q] = r /\ \A o \in Requests : o # q => req'[o] = req[o]
    BY <1>1 DEF TypeOK
  <1>4. KinCalls'
    BY <1>1, <1>2, <1>3 DEF KinCalls
  <1>5. KinRows' /\ KinLinks'
    BY <1>1 DEF KinRows, KinLinks
  <1>6. KinTree'
    BY <1>1, KinTreeStays
  <1> QED
    BY <1>4, <1>5, <1>6

LEMMA DropsKin ==
  ASSUME BaseInv, KinInv, NEW q \in Requests, Drops(q)
  PROVE  KinInv'
  <1> USE DEF BaseInv, KinInv, Drops, contactVars, crmVars, historyVars
  <1>1. \A o \in Requests : req'[o] = NoReq \/ req'[o] = req[o]
    BY AnsweredOpen DEF Present
  <1>2. \A w \in Workers : \/ call'[w] = NoCall
                           \/ call[w] # NoCall /\ call'[w].row = call[w].row
                              /\ call'[w].contact = call[w].contact
    OBVIOUS
  <1>3. KinCalls'
    BY <1>1, <1>2, KinCallsStay
  <1> QED
    BY <1>3, KinTreeStays DEF KinRows, KinLinks
-----------------------------------------------------------------------------
(* A merge or a repair makes one kin of two. *)
JoinedKin(p, s) == kin' = [c \in Contacts |-> IF kin[c] = kin[s] THEN kin[p] ELSE kin[c]]

LEMMA JoinedKinFacts ==
  ASSUME NEW p \in Contacts, NEW s \in Contacts, JoinedKin(p, s)
  PROVE  /\ kin'[p] = kin'[s]
         /\ \A c, d \in Contacts : kin[c] = kin[d] => kin'[c] = kin'[d]
         /\ \A c, d \in Contacts : kin'[c] = kin'[d] =>
               kin[c] = kin[d] \/ {kin[c], kin[d]} \subseteq {kin[p], kin[s]}
  BY DEF JoinedKin

LEMMA JoinsTells ==
  ASSUME BaseInv, CrmAssumption, NEW q \in Requests, NEW row, Joins(q, row),
         disturbed' \subseteq Contacts
  PROVE  /\ req[q].to \in Contacts /\ req[q].from \in Contacts /\ req[q].to # req[q].from
         /\ JoinedKin(req[q].to, req[q].from)
         /\ into' = [into EXCEPT ![req[q].from] = req[q].to]
         /\ doubled' = IF Crossed(q) \/ {req[q].to, req[q].from} \cap doubled # {}
                       THEN doubled \cup Kin(req[q].to) \cup Kin(req[q].from) ELSE doubled
         /\ UNCHANGED <<reading, call, link, gone, done, overlapped, requests, faults>>
         /\ DOMAIN outbox' = DOMAIN outbox \cup {row}
         /\ \A c \in Contacts : contact'[c] = "NONE" <=> contact[c] = "NONE"
  <1>1. req[q].to \in Contacts /\ req[q].from \in Contacts /\ req[q].to # req[q].from
    BY Merging DEF Joins
  <1>2. Moves(req[q].to, req[q].from, row) /\ Present' = Present
    BY JoinsBase
  <1> QED
    BY <1>1, <1>2 DEF Joins, Join, JoinedKin, Moves, crmVars, countVars, Present

LEMMA JoinsKin ==
  ASSUME BaseInv, KinInv, CrmAssumption, NEW q \in Requests, NEW row, Joins(q, row),
         disturbed' \subseteq Contacts
  PROVE  KinInv'
  <1> DEFINE p == req[q].to
             s == req[q].from
             Marked == Crossed(q) \/ {p, s} \cap doubled # {}
  <1>1. /\ p \in Contacts /\ s \in Contacts /\ p # s
        /\ JoinedKin(p, s)
        /\ into' = [into EXCEPT ![s] = p]
        /\ doubled' = IF Marked THEN doubled \cup Kin(p) \cup Kin(s) ELSE doubled
        /\ UNCHANGED <<reading, call, link, gone, done, overlapped, requests, faults>>
        /\ DOMAIN outbox' = DOMAIN outbox \cup {row}
        /\ \A c \in Contacts : contact'[c] = "NONE" <=> contact[c] = "NONE"
    BY JoinsTells
  <1>2. /\ kin'[p] = kin'[s]
        /\ \A c, d \in Contacts : kin[c] = kin[d] => kin'[c] = kin'[d]
        /\ \A c, d \in Contacts : kin'[c] = kin'[d] =>
               kin[c] = kin[d] \/ {kin[c], kin[d]} \subseteq {kin[p], kin[s]}
    BY <1>1, JoinedKinFacts
  <1>3. /\ Moves(p, s, row) /\ Present' = Present
        /\ req'[q] = NoReq /\ \A o \in Requests : o # q => req'[o] = req[o]
        /\ row \in MergeRows /\ row[2] = p /\ row[3] = s
    BY JoinsBase
  <1>4. p \in Present /\ s \in Present /\ req[q].kind \in {"merge", "repair"}
    BY Merging DEF Joins
  <1>5. /\ \A c \in Contacts : into[c] \in Contacts \cup {Nobody}
        /\ \A r \in DOMAIN outbox : outbox[r].contact \in Contacts /\ r \in Rows
        /\ \A w \in Workers : call[w] # NoCall => call[w].contact \in Contacts /\ call[w].row \in Rows
        /\ \A o \in Requests : req[o].kind \in {"plan", "repair"} =>
              req[o].to \in Contacts /\ req[o].from \in Contacts
        /\ into \in [Contacts -> Contacts \cup {Nobody}]
    BY DEF BaseInv, TypeOK, PresentInv, ProgressInv, Busy, Open, Present, NoReq
  <1> HIDE DEF p, s, Marked
  <1>6. KinTree'
    <2>1. ASSUME NEW c \in Contacts, into'[c] # Nobody PROVE kin'[into'[c]] = kin'[c]
      <3>1. CASE c = s
        BY <1>1, <1>2, <1>5, <3>1
      <3>2. CASE c # s
        BY <1>1, <1>2, <1>5, <2>1, <3>2 DEF KinInv, KinTree
      <3> QED
        BY <3>1, <3>2
    <2>2. ASSUME NEW c \in Contacts, NEW d \in Contacts, contact'[c] = "NONE", kin'[d] = kin'[c]
          PROVE  d = c
      <3>1. contact[c] = "NONE" /\ c # p /\ c # s
        BY <1>1, <1>4, <2>2 DEF Present
      <3>2. kin[c] # kin[p] /\ kin[c] # kin[s]
        BY <1>1, <3>1 DEF KinInv, KinTree
      <3> QED
        BY <1>2, <2>2, <3>1, <3>2 DEF KinInv, KinTree
    <2>3. ASSUME NEW c \in Contacts, NEW d \in Contacts, c \in doubled', kin'[d] = kin'[c]
          PROVE  d \in doubled'
      <3>1. CASE Marked
        <4>1. c \in doubled \/ kin[c] \in {kin[p], kin[s]}
          BY <1>1, <2>3, <3>1 DEF Kin
        <4>2. CASE kin[d] \in {kin[p], kin[s]}
          BY <1>1, <3>1, <4>2 DEF Kin
        <4>3. CASE kin[d] \notin {kin[p], kin[s]}
          BY <1>1, <1>2, <2>3, <3>1, <4>1, <4>3 DEF KinInv, KinTree
        <4> QED
          BY <4>2, <4>3
      <3>2. CASE ~Marked
        <4>1. c \in doubled /\ p \notin doubled /\ s \notin doubled
          BY <1>1, <2>3, <3>2 DEF Marked
        <4>2. kin[c] # kin[p] /\ kin[c] # kin[s]
          BY <1>1, <4>1 DEF KinInv, KinTree
        <4> QED
          BY <1>1, <1>2, <2>3, <3>2, <4>1, <4>2 DEF KinInv, KinTree
      <3> QED
        BY <3>1, <3>2
    <2>4. ASSUME NEW c \in Roots', NEW d \in Roots', kin'[c] = kin'[d], c # d
          PROVE  c \in doubled'
      <3>1. c \in Roots /\ d \in Roots /\ c # s /\ d # s /\ c \in Contacts /\ d \in Contacts
        BY <1>1, <1>3, <1>5, CrmAssumption DEF Roots, Present, CrmAssumption
      <3>2. CASE kin[c] = kin[d]
        BY <1>1, <2>4, <3>1, <3>2 DEF KinInv, KinTree
      <3>3. CASE Marked /\ kin[c] \in {kin[p], kin[s]}
        BY <1>1, <3>1, <3>3 DEF Kin
      <3>4. CASE ~Marked /\ kin[c] \in {kin[p], kin[s]} /\ kin[d] \in {kin[p], kin[s]}
        <4>1. p \in Roots /\ p \notin doubled /\ s \notin doubled
          BY <1>4, <3>4 DEF Marked, Crossed, Roots, p, s
        <4>2. s \in Roots \/ kin[s] = kin[p]
          BY <1>4, <3>4 DEF Marked, Crossed, Roots, p, s, KinInv, KinCalls
        <4>3. ASSUME NEW x \in Roots, x # s, kin[x] \in {kin[p], kin[s]} PROVE x = p
          BY <1>1, <4>1, <4>2, <4>3 DEF KinInv, KinTree, Roots, Present
        <4> QED
          BY <2>4, <3>1, <3>4, <4>3
      <3> QED
        BY <1>2, <2>4, <3>1, <3>2, <3>3, <3>4
    <2> QED
      BY <2>1, <2>2, <2>3, <2>4 DEF KinTree
  <1>7. KinRows'
    <2>1. ASSUME NEW r \in DOMAIN outbox' \ HistoryRows PROVE kin'[outbox'[r].contact] = kin'[r[2]]
      <3>1. CASE r \in DOMAIN outbox
        <4>1. kin[outbox[r].contact] = kin[r[2]] /\ r[2] \in Contacts
          BY <1>5, <2>1, <3>1, RowKinds DEF KinInv, KinRows, Rows
        <4>2. kin'[outbox[r].contact] = kin'[r[2]]
          BY <1>2, <1>5, <3>1, <4>1
        <4> QED
          BY <1>2, <1>3, <3>1, <4>2 DEF Moves
      <3>2. CASE r \notin DOMAIN outbox
        <4>1. r = row /\ outbox'[r].contact = p
          BY <1>1, <1>3, <3>2 DEF Moves
        <4> QED
          BY <1>3, <4>1
      <3> QED
        BY <3>1, <3>2
    <2>2. ASSUME NEW r \in DOMAIN outbox' \cap MergeRows PROVE kin'[r[3]] = kin'[r[2]]
      <3>1. CASE r \in DOMAIN outbox
        BY <1>2, <2>2, <3>1, RowKinds DEF KinInv, KinRows
      <3>2. CASE r = row
        BY <1>2, <1>3, <3>2
      <3> QED
        BY <1>1, <3>1, <3>2
    <2> QED
      BY <2>1, <2>2 DEF KinRows
  <1>8. KinCalls'
    <2>1. ASSUME NEW w \in Workers, call'[w] # NoCall, call'[w].row \notin HistoryRows
          PROVE  kin'[call'[w].contact] = kin'[call'[w].row[2]]
      <3>1. call'[w] = call[w]
        BY <1>1
      <3>2. kin[call[w].contact] = kin[call[w].row[2]]
        BY <2>1, <3>1 DEF KinInv, KinCalls
      <3>3. call[w].contact \in Contacts /\ call[w].row[2] \in Contacts
        BY <1>5, <2>1, <3>1, RowKinds DEF Rows
      <3> QED
        BY <1>2, <3>1, <3>2, <3>3
    <2>2. ASSUME NEW o \in Requests, req'[o].kind \in {"plan", "repair"}
          PROVE  kin'[req'[o].to] = kin'[req'[o].from]
      <3>1. o # q /\ req'[o] = req[o]
        BY <1>3, <2>2 DEF NoReq
      <3> QED
        BY <1>2, <1>5, <2>2, <3>1 DEF KinInv, KinCalls
    <2> QED
      BY <2>1, <2>2 DEF KinCalls
  <1>9. KinLinks'
    BY <1>1 DEF KinInv, KinLinks
  <1> QED
    BY <1>6, <1>7, <1>8, <1>9 DEF KinInv
-----------------------------------------------------------------------------
LEMMA RevivesKin ==
  ASSUME BaseInv, KinInv, NEW q \in Requests, Revives(q),
         outbox' = outbox \/ outbox' = WithNew({Sync(req[q].to)}, req[q].to)
  PROVE  KinInv'
  <1> USE DEF KinInv
  <1> DEFINE c == req[q].to
  <1>1. /\ Present' = Present
        /\ outbox' = outbox \/ Adds({Sync(c)}, c)
        /\ \A o \in Requests : req'[o] = NoReq \/ req'[o] = req[o]
    BY RevivesBase
  <1>2. UNCHANGED <<into, call, link, kin, doubled>> /\ c \in Contacts
    BY DEF Revives, crmVars, historyVars, Present
  <1>3. \A d \in Contacts : contact'[d] = "NONE" <=> contact[d] = "NONE"
    BY <1>1 DEF Present
  <1>4. KinTree'
    BY <1>1, <1>2, <1>3 DEF KinTree, Roots
  <1>5. KinRows'
    <2>1. CASE outbox' = outbox
      BY <1>2, <2>1 DEF KinRows
    <2>2. CASE Adds({Sync(c)}, c)
      <3>1. /\ {Sync(c)} \in SUBSET Rows /\ NewRow(c).contact = c
            /\ \A r \in {Sync(c)} : r \notin MergeRows /\ (r \in HistoryRows \/ r[2] = c)
        BY <1>2, RowNames, RowKinds, NewRowTyped DEF Rows
      <3> QED
        BY <1>2, <2>2, <3>1, KinRowsAdd
    <2> QED
      BY <1>1, <2>1, <2>2
  <1>6. \A w \in Workers : \/ call'[w] = NoCall
                           \/ call[w] # NoCall /\ call'[w].row = call[w].row
                              /\ call'[w].contact = call[w].contact
    BY <1>2
  <1>7. KinCalls'
    BY <1>1, <1>2, <1>6, KinCallsStay
  <1> QED
    BY <1>2, <1>3, <1>4, <1>5, <1>7 DEF KinLinks

LEMMA AnnounceKin ==
  ASSUME BaseInv, KinInv, CrmAssumption, NEW c \in Contacts, NEW l \in Leads, Announce(c, l)
  PROVE  KinInv'
  <1> USE DEF KinInv
  <1>1. Present' = Present \cup {c} /\ c \notin Present /\ contact[c] = "NONE"
    BY AnnounceBase DEF Announce
  <1>2. /\ UNCHANGED <<into, outbox, req, call, kin>>
        /\ \/ doubled' = doubled
           \/ doubled' = doubled \cup {c} \cup UNION {Kin(d) : d \in Holders(l)}
        /\ link' = [link EXCEPT ![c] = l]
    BY DEF Announce
  <1>3. \A d \in Contacts : kin[d] = kin[c] => d = c
    BY <1>1 DEF KinTree
  <1>4. \A d \in Contacts : contact'[d] = "NONE" => contact[d] = "NONE" /\ d # c
    BY <1>1 DEF Present
  <1>5. KinTree'
    <2>1. \A d \in Contacts : into'[d] # Nobody => kin'[into'[d]] = kin'[d]
      BY <1>2 DEF KinTree
    <2>2. \A d, e \in Contacts : contact'[d] = "NONE" /\ kin'[e] = kin'[d] => e = d
      BY <1>2, <1>4 DEF KinTree
    <2>3. \A d, e \in Contacts : d \in doubled' /\ kin'[e] = kin'[d] => e \in doubled'
      <3>1. ASSUME NEW d \in Contacts, NEW e \in Contacts, d \in doubled', kin'[e] = kin'[d]
            PROVE  e \in doubled'
        <4>1. CASE d \in doubled
          BY <1>2, <3>1, <4>1 DEF KinTree
        <4>2. CASE d = c
          BY <1>2, <1>3, <3>1, <4>2
        <4>3. CASE doubled' = doubled \cup {c} \cup UNION {Kin(x) : x \in Holders(l)}
                   /\ d \in UNION {Kin(x) : x \in Holders(l)}
          <5>1. PICK x \in Holders(l) : d \in Kin(x)
            BY <4>3
          <5>2. e \in Kin(x)
            BY <1>2, <3>1, <5>1 DEF Kin
          <5> QED
            BY <4>3, <5>2
        <4> QED
          BY <1>2, <3>1, <4>1, <4>2, <4>3
      <3> QED
        BY <3>1
    <2>4. \A d, e \in Roots' : kin'[d] = kin'[e] => d = e \/ d \in doubled'
      <3>1. \A d \in Roots' : d = c \/ d \in Roots
        BY <1>1, <1>2 DEF Roots
      <3>2. \A d \in Roots : d # c /\ d \in Contacts
        BY <1>1 DEF Roots, Present
      <3> QED
        BY <1>2, <1>3, <3>1, <3>2 DEF KinTree
    <2> QED
      BY <2>1, <2>2, <2>3, <2>4 DEF KinTree
  <1>6. KinLinks'
    BY <1>2, <1>4 DEF KinLinks, BaseInv, TypeOK
  <1>7. KinRows' /\ KinCalls'
    BY <1>2 DEF KinRows, KinCalls
  <1> QED
    BY <1>5, <1>6, <1>7

LEMMA AnsweringKin ==
  ASSUME BaseInv, KinInv, CrmAssumption, NEW w \in Workers, NEW l \in LeadOrNobody, Answering(w, l)
  PROVE  KinInv'
  <1> USE DEF KinInv
  <1> DEFINE r == call[w].row
  <1>1. UNCHANGED <<contact, into, kin, doubled, req>> /\ Turns
    BY DEF Answering, contactVars, historyVars
  <1>2. \A v \in Workers : \/ call'[v] = NoCall
                           \/ call[v] # NoCall /\ call'[v].row = call[v].row
                              /\ call'[v].contact = call[v].contact
    BY AnswersBase DEF Answering, NoCall
  <1>3. KinTree' /\ KinRows' /\ KinCalls'
    BY <1>1, <1>2, KinTreeStays, KinRowsTurn, KinCallsStay
  <1>4. KinLinks'
    <2>1. Busy(w) /\ call[w] # NoCall
      BY DEF Answering, BaseInv, ProgressInv, NoCall
    <2>2. r \in DOMAIN outbox /\ call[w].contact \in Present /\ r \in Rows
      BY <2>1 DEF Busy, BaseInv, TypeOK
    <2>3. CASE r \in LeadRows /\ r \notin DOMAIN done
      <3>1. FindsLead(call[w].contact, call[w].lead, l)
        BY <2>3, RowKinds DEF Answering, Applied
      <3> QED
        BY <1>1, <2>2, <3>1 DEF FindsLead, KinLinks, Present, BaseInv, TypeOK
    <2>4. CASE r \in MergeRows /\ r \notin DOMAIN done
      <3>1. MergesLeads(r[2], r[3], l)
        BY <2>4, RowKinds DEF Answering, Applied
      <3>2. contact[r[2]] # "NONE" /\ contact[r[3]] # "NONE"
        BY <2>2, <2>4, RowKinds DEF KinTree, KinRows, BaseInv, PresentInv, Present
      <3>3. ASSUME NEW c \in Contacts, contact'[c] = "NONE" PROVE link'[c] = Nobody
        <4>1. c # r[2] /\ c # r[3] /\ link[c] = Nobody
          BY <1>1, <3>2, <3>3 DEF KinLinks
        <4> QED
          BY <3>1, <4>1 DEF MergesLeads
      <3> QED
        BY <3>3 DEF KinLinks
    <2>5. CASE link' = link
      BY <1>1, <2>5 DEF KinLinks
    <2>6. r \in DOMAIN done => link' = link
      BY DEF Answering, crmVars
    <2>7. r \in HistoryRows /\ r \notin DOMAIN done => link' = link
      BY RowKinds DEF Answering, Applied
    <2> QED
      BY <2>2, <2>3, <2>4, <2>5, <2>6, <2>7 DEF Rows
  <1> QED
    BY <1>3, <1>4

LEMMA ScansKin ==
  ASSUME BaseInv, KinInv, CrmAssumption, NEW w \in Workers, Scans(w)
  PROVE  KinInv'
  <1> USE DEF KinInv
  <1>1. ASSUME NEW r \in DOMAIN outbox, Claim(w, r) PROVE KinInv'
    <2>1. /\ Steps(w)
          /\ \/ call'[w] = NoCall
             \/ /\ call'[w] # NoCall /\ call'[w].row = r
                /\ call'[w].contact = outbox[r].contact
      BY <1>1, ClaimSteps
    <2>2. UNCHANGED <<contact, into, kin, doubled, req, link>> /\ Turns
      BY <2>1 DEF Steps, contactVars, crmVars, historyVars
    <2>3. KinCalls'
      BY <2>1, <2>2 DEF KinCalls, KinRows, Steps
    <2> QED
      BY <2>2, <2>3, KinTreeStays, KinRowsTurn DEF KinLinks
  <1>2. CASE Refuses(w) \/ FinishFails(w) \/ Crash(w)
    <2>1. Steps(w) /\ call'[w] = NoCall
      BY <1>2, RefusesSteps
    <2>2. UNCHANGED <<contact, into, kin, doubled, req, link>> /\ Turns
      BY <2>1 DEF Steps, contactVars, crmVars, historyVars
    <2>3. KinCalls'
      BY <2>1, <2>2 DEF KinCalls, Steps
    <2> QED
      BY <2>2, <2>3, KinTreeStays, KinRowsTurn DEF KinLinks
  <1>3. CASE FinishSuccess(w)
    <2>1. /\ call'[w] = NoCall /\ \A v \in Workers : v # w => call'[v] = call[v]
          /\ \A r \in DOMAIN outbox' \ DOMAIN outbox : r \in HistoryRows
      BY <1>3, FinishSuccessBase
    <2>2. UNCHANGED <<contact, into, kin, doubled, req, link>>
      BY <1>3 DEF FinishSuccess, crmVars
    <2>3. Finishes(w)
      BY <1>3, FinishRows
    <2>4. KinRows'
      BY <2>1, <2>2, <2>3, RowKinds DEF KinRows, Finishes
    <2>5. KinCalls'
      BY <2>1, <2>2 DEF KinCalls
    <2> QED
      BY <2>2, <2>4, <2>5, KinTreeStays DEF KinLinks
  <1> QED
    BY <1>1, <1>2, <1>3, AnsweringKin DEF Scans

LEMMA KinStep ==
  ASSUME BaseInv, KinInv, CrmAssumption, [Next]_vars
  PROVE  KinInv'
  <1>1. CASE UNCHANGED vars
    BY <1>1 DEF vars, contactVars, crmVars, historyVars, countVars, KinInv, KinTree, Roots, Present,
                KinRows, KinCalls, KinLinks
  <1>2. ASSUME NEW m \in Messages, ReadSender(m) PROVE KinInv'
    BY <1>2 DEF ReadSender, contactVars, crmVars, historyVars, KinInv, KinTree, Roots, Present,
                KinRows, KinCalls, KinLinks
  <1>3. ASSUME NEW m \in Messages, StoreMessage(m) PROVE KinInv'
    BY <1>3, StoreMessageKin
  <1>4. ASSUME NEW q \in Requests, Writes(q) PROVE KinInv'
    BY <1>4, DropsKin, JoinsKin, RevivesKin DEF Writes
  <1>5. ASSUME NEW r \in DOMAIN outbox, OperatorRetry(r) PROVE KinInv'
    <2>1. Turns /\ UNCHANGED <<contact, into, kin, doubled, req, link, call>>
      BY <1>5, OperatorRetryTurns DEF BaseInv, OperatorRetry, contactVars, crmVars, historyVars
    <2> QED
      BY <2>1, KinTreeStays, KinRowsTurn DEF KinInv, KinCalls, KinLinks
  <1> QED
    BY <1>1, <1>2, <1>3, <1>4, <1>5, NextCases, AsksKin, AnnounceKin, ScansKin

LEMMA KinInit ==
  ASSUME Init, CrmAssumption
  PROVE  KinInv
  <1> USE DEF Init, CrmAssumption, KinInv
  <1>1. KinTree
    BY DEF KinTree, Roots, Present
  <1>2. KinRows
    BY DEF KinRows
  <1>3. KinCalls
    BY DEF KinCalls, NoReq
  <1>4. KinLinks
    BY DEF KinLinks
  <1> QED
    BY <1>1, <1>2, <1>3, <1>4
-----------------------------------------------------------------------------
(* Leads stay within a kin: who comes to know a lead is kin of one who knew it. *)
LEMMA LeadWidens ==
  ASSUME TypeOK, LeadInv, KinTree', UNCHANGED <<link, gone>>, doubled \subseteq doubled',
         \A c, d \in Contacts : kin[c] = kin[d] => kin'[c] = kin'[d],
         \A l \in Leads : \A c \in Contacts : Knows(c, l)' =>
            \E d \in Contacts : Knows(d, l) /\ kin'[d] = kin'[c]
  PROVE  LeadInv'
  <1>1. ASSUME NEW l \in Leads, NEW c \in Contacts, NEW d \in Contacts, Knows(c, l)', Knows(d, l)'
        PROVE  kin'[c] = kin'[d] \/ {c, d} \subseteq doubled'
    <2>1. PICK x \in Contacts : Knows(x, l) /\ kin'[x] = kin'[c]
      BY <1>1
    <2>2. PICK y \in Contacts : Knows(y, l) /\ kin'[y] = kin'[d]
      BY <1>1
    <2>3. kin[x] = kin[y] \/ {x, y} \subseteq doubled
      BY <2>1, <2>2 DEF LeadInv
    <2> QED
      BY <2>1, <2>2, <2>3 DEF KinTree
  <1>2. ASSUME NEW l \in Leads, NEW c \in Contacts, Knows(c, l)'
        PROVE  l \in gone' \/ Holders(l)' # {}
    <2>1. PICK x \in Contacts : Knows(x, l)
      BY <1>2
    <2>2. Holders(l)' = Holders(l)
      BY DEF Holders
    <2> QED
      BY <2>1, <2>2 DEF LeadInv
  <1>3. \A c \in Contacts : link'[c] \notin gone'
    BY DEF LeadInv
  <1> QED
    BY <1>1, <1>2, <1>3 DEF LeadInv

LEMMA LeadStays ==
  ASSUME TypeOK, LeadInv, KinTree, UNCHANGED <<contact, into, kin, doubled, link, gone, lead, done>>,
         \A l \in Leads : \A c \in Contacts : MergesWith(c, l)' => Knows(c, l)
  PROVE  LeadInv'
  <1>1. KinTree'
    BY KinTreeStays
  <1>2. ASSUME NEW l \in Leads, NEW c \in Contacts, Knows(c, l)' PROVE Knows(c, l)
    <2>1. AnsweredWith(c, l)' = AnsweredWith(c, l)
      BY DEF AnsweredWith
    <2> QED
      BY <1>2, <2>1 DEF Knows
  <1> QED
    BY <1>1, <1>2, LeadWidens

LEMMA FewerMerges ==
  ASSUME CrmAssumption, \A q \in Requests : req'[q] = NoReq \/ req'[q] = req[q]
  PROVE  \A l \in Leads : \A c \in Contacts : MergesWith(c, l)' => MergesWith(c, l)
  BY DEF MergesWith, NoReq, CrmAssumption

LEMMA AsksLead ==
  ASSUME BaseInv, KinInv, LeadInv, CrmAssumption, NEW q \in Requests, Asks(q)
  PROVE  LeadInv'
  <1> USE DEF BaseInv, KinInv
  <1>1. PICK r \in Takings : Takes(q, r)
    BY DEF Asks
  <1>2. \A l \in Leads : \A c \in Contacts :
           (r.to = c /\ r.toLead = l) \/ (r.from = c /\ r.fromLead = l) => lead[c] = l
    BY <1>1, CrmAssumption DEF Takings, CrmAssumption
  <1>3. req'[q] = r /\ \A o \in Requests : o # q => req'[o] = req[o]
    BY <1>1 DEF Takes, TypeOK
  <1>4. UNCHANGED <<contact, into, kin, doubled, link, gone, lead, done>>
    BY <1>1 DEF Takes, contactVars, crmVars, historyVars
  <1>5. ASSUME NEW l \in Leads, NEW c \in Contacts, MergesWith(c, l)' PROVE Knows(c, l)
    <2>1. PICK o \in Requests : \/ req'[o].to = c /\ req'[o].toLead = l
                                \/ req'[o].from = c /\ req'[o].fromLead = l
      BY <1>5 DEF MergesWith
    <2>2. CASE o = q
      BY <1>2, <1>3, <2>1, <2>2 DEF Knows
    <2>3. CASE o # q
      BY <1>3, <2>1, <2>3 DEF Knows, MergesWith
    <2> QED
      BY <2>2, <2>3
  <1> QED
    BY <1>4, <1>5, LeadStays

LEMMA JoinsLead ==
  ASSUME BaseInv, KinInv, LeadInv, CrmAssumption, NEW q \in Requests, NEW row, Joins(q, row),
         disturbed' \subseteq Contacts
  PROVE  LeadInv'
  <1> DEFINE p == req[q].to
             s == req[q].from
             joint == IF req[q].toLead # Nobody THEN req[q].toLead ELSE req[q].fromLead
  <1>1. /\ p \in Contacts /\ s \in Contacts /\ p # s
        /\ JoinedKin(p, s)
        /\ doubled \subseteq doubled' /\ UNCHANGED <<link, gone, done>>
    BY JoinsTells
  <1>2. /\ kin'[p] = kin'[s]
        /\ \A c, d \in Contacts : kin[c] = kin[d] => kin'[c] = kin'[d]
    BY <1>1, JoinedKinFacts
  <1>3. KinTree'
    BY JoinsKin DEF KinInv
  <1>4. lead' = [lead EXCEPT ![p] = joint]
    BY DEF Joins, Join
  <1>5. \A o \in Requests : req'[o] = NoReq \/ req'[o] = req[o]
    BY JoinsBase
  <1>6. ASSUME NEW l \in Leads, NEW c \in Contacts, Knows(c, l)'
        PROVE  \E d \in Contacts : Knows(d, l) /\ kin'[d] = kin'[c]
    <2>1. CASE c = p /\ joint = l
      <3>1. Knows(p, l) \/ Knows(s, l)
        BY <2>1 DEF Knows, MergesWith
      <3> QED
        BY <1>1, <1>2, <2>1, <3>1
    <2>2. CASE ~(c = p /\ joint = l)
      <3>1. lead'[c] = l => lead[c] = l
        BY <1>1, <1>4, <2>2 DEF BaseInv, TypeOK
      <3>2. MergesWith(c, l)' => MergesWith(c, l)
        BY <1>5, FewerMerges
      <3>3. AnsweredWith(c, l)' => AnsweredWith(c, l)
        BY <1>1 DEF AnsweredWith
      <3> QED
        BY <1>1, <1>6, <3>1, <3>2, <3>3 DEF Knows
    <2> QED
      BY <2>1, <2>2
  <1> QED
    BY <1>1, <1>2, <1>3, <1>6, LeadWidens DEF BaseInv

LEMMA AnnounceLead ==
  ASSUME BaseInv, KinInv, LeadInv, CrmAssumption, NEW c \in Contacts, NEW l \in Leads, Announce(c, l)
  PROVE  LeadInv'
  <1> USE DEF BaseInv
  <1>1. /\ UNCHANGED <<kin, gone, done, req>> /\ doubled \subseteq doubled'
        /\ lead' = [lead EXCEPT ![c] = l] /\ link' = [link EXCEPT ![c] = l]
        /\ contact[c] = "NONE" /\ l \notin gone
    BY DEF Announce
  <1>2. ~\E d \in Contacts : InUse(d) /\ lead[d] = l
    BY DEF Announce, FoundBy, InUse
  <1>3. Holders(l) # {} => doubled' = doubled \cup {c} \cup UNION {Kin(d) : d \in Holders(l)}
    BY <1>2 DEF Announce
  <1>4. link[c] = Nobody
    BY <1>1 DEF KinInv, KinLinks
  <1>5. ASSUME NEW k \in Leads, NEW x \in Contacts, Knows(x, k)'
        PROVE  Knows(x, k) \/ (x = c /\ k = l)
    BY <1>1, <1>5 DEF Knows, AnsweredWith, MergesWith, TypeOK
  <1>6. ASSUME NEW x \in Contacts, Knows(x, l) PROVE {x, c} \subseteq doubled'
    <2>1. PICK d \in Holders(l) : TRUE
      BY <1>1, <1>6 DEF LeadInv
    <2>2. Knows(d, l) /\ d \in Contacts
      BY <2>1 DEF Holders, Knows
    <2>3. CASE kin[x] = kin[d]
      BY <1>3, <2>1, <2>3 DEF Kin
    <2>4. CASE x \in doubled
      BY <1>3, <2>1, <2>4
    <2> QED
      BY <1>6, <2>2, <2>3, <2>4 DEF LeadInv
  <1>7. ASSUME NEW k \in Leads, NEW x \in Contacts, NEW y \in Contacts, Knows(x, k)', Knows(y, k)'
        PROVE  kin'[x] = kin'[y] \/ {x, y} \subseteq doubled'
    <2>1. CASE Knows(x, k) /\ Knows(y, k)
      BY <1>1, <2>1 DEF LeadInv
    <2>2. CASE k = l /\ x = c /\ (y = c \/ Knows(y, l))
      BY <1>6, <2>2
    <2>3. CASE k = l /\ y = c /\ (x = c \/ Knows(x, l))
      BY <1>6, <2>3
    <2> QED
      BY <1>5, <1>7, <2>1, <2>2, <2>3
  <1>8. ASSUME NEW k \in Leads, NEW x \in Contacts, Knows(x, k)'
        PROVE  k \in gone' \/ Holders(k)' # {}
    <2>1. CASE k = l
      BY <1>1, <2>1 DEF Holders, TypeOK
    <2>2. CASE k # l
      <3>1. k \in gone \/ Holders(k) # {}
        BY <1>5, <1>8, <2>2 DEF LeadInv
      <3>2. \A d \in Holders(k) : d \in Holders(k)'
        BY <1>1, <1>4, CrmAssumption DEF Holders, TypeOK, CrmAssumption
      <3> QED
        BY <1>1, <3>1, <3>2
    <2> QED
      BY <2>1, <2>2
  <1>9. \A x \in Contacts : link'[x] \notin gone'
    BY <1>1 DEF LeadInv, TypeOK
  <1> QED
    BY <1>7, <1>8, <1>9 DEF LeadInv
-----------------------------------------------------------------------------
LEMMA AnsweringLead ==
  ASSUME BaseInv, KinInv, LeadInv, CrmAssumption, NEW w \in Workers, NEW l \in LeadOrNobody,
         Answering(w, l)
  PROVE  LeadInv'
  <1> USE DEF BaseInv
  <1> DEFINE r == call[w].row
             c == call[w].contact
  <1>1. /\ r \in DOMAIN outbox /\ c \in Contacts /\ r \in Rows
        /\ DOMAIN done' = DOMAIN done \cup {r} /\ done'[r] = l
        /\ \A x \in DOMAIN done : done'[x] = done[x]
        /\ r \in HistoryRows /\ r \notin DOMAIN done => l = Nobody
        /\ link' \in [Contacts -> LeadOrNobody]
    BY AnsweringDone DEF TypeOK
  <1>2. UNCHANGED <<contact, into, lead, kin, doubled, req>>
    BY DEF Answering, contactVars, historyVars
  <1>3. KinTree' /\ KinTree
    BY <1>2, KinTreeStays DEF KinInv
  <1>4. call[w] # NoCall
    BY DEF Answering, NoCall
  <1>5. r \notin HistoryRows => kin[c] = kin[r[2]] /\ r[2] \in Contacts
    BY <1>1, <1>4, RowKinds DEF KinInv, KinCalls, Rows
  <1>6. ASSUME NEW k \in Leads, NEW x \in Contacts, AnsweredWith(x, k)'
        PROVE  AnsweredWith(x, k) \/ (x = r[2] /\ k = l /\ r \notin DOMAIN done /\ r \notin HistoryRows)
    <2>1. PICK y \in DOMAIN done' \ HistoryRows : done'[y] = k /\ y[2] = x
      BY <1>6 DEF AnsweredWith
    <2>2. CASE y \in DOMAIN done
      BY <1>1, <2>1, <2>2 DEF AnsweredWith
    <2>3. CASE y \notin DOMAIN done
      BY <1>1, <2>1, <2>3
    <2> QED
      BY <2>2, <2>3
  <1>7. ASSUME NEW k \in Leads, NEW x \in Contacts, MergesWith(x, k)' PROVE MergesWith(x, k)
    BY <1>2, <1>7 DEF MergesWith
  <1>8. CASE UNCHANGED <<link, gone>> /\ (r \in DOMAIN done \/ l = Nobody)
    <2>1. ASSUME NEW k \in Leads, NEW x \in Contacts, Knows(x, k)' PROVE Knows(x, k)
      <3>1. AnsweredWith(x, k)' => AnsweredWith(x, k)
        BY <1>6, <1>8 DEF CrmAssumption
      <3> QED
        BY <1>2, <1>7, <1>8, <2>1, <3>1 DEF Knows
    <2>2. \A x, y \in Contacts : kin[x] = kin[y] => kin'[x] = kin'[y]
      BY <1>2
    <2> QED
      BY <1>2, <1>3, <1>8, <2>1, <2>2, LeadWidens
  <1>9. CASE r \in LeadRows /\ r \notin DOMAIN done
    <2>1. FindsLead(c, call[w].lead, l)
      BY <1>9, RowKinds DEF Answering, Applied
    <2>2. /\ link' = [link EXCEPT ![c] = l] /\ gone' = gone
          /\ \/ link[c] # Nobody /\ l = link[c]
             \/ link[c] = Nobody /\ l \in Fresh
      BY <2>1 DEF FindsLead
    <2>3. kin[c] = kin[r[2]] /\ r[2] \in Contacts
      BY <1>5, <1>9, RowKinds
    <2>4. CASE link[c] # Nobody /\ l = link[c]
      <3>1. link' = link
        BY <2>2, <2>4 DEF TypeOK
      <3>2. Knows(c, l)
        BY <2>4 DEF Knows
      <3>3. ASSUME NEW k \in Leads, NEW x \in Contacts, Knows(x, k)'
            PROVE  \E d \in Contacts : Knows(d, k) /\ kin'[d] = kin'[x]
        <4>1. Knows(x, k) \/ (x = r[2] /\ k = l)
          BY <1>2, <1>6, <1>7, <3>1, <3>3 DEF Knows
        <4> QED
          BY <1>1, <1>2, <2>3, <3>2, <4>1
      <3>4. \A x, y \in Contacts : kin[x] = kin[y] => kin'[x] = kin'[y]
        BY <1>2
      <3> QED
        BY <1>2, <1>3, <2>2, <3>1, <3>3, <3>4, LeadWidens
    <2>5. CASE link[c] = Nobody /\ l \in Fresh
      <3>1. l \in Leads /\ l \notin gone /\ Holders(l) = {}
        BY <2>5 DEF Fresh
      <3>2. \A x \in Contacts : ~Knows(x, l)
        BY <3>1 DEF LeadInv
      <3>3. \A x \in Contacts : link'[x] = IF x = c THEN l ELSE link[x]
        BY <1>1, <2>2 DEF TypeOK
      <3>4. ASSUME NEW k \in Leads, NEW x \in Contacts, Knows(x, k)'
            PROVE  (Knows(x, k) /\ k # l) \/ (k = l /\ x \in {c, r[2]})
        BY <1>2, <1>6, <1>7, <3>2, <3>3, <3>4 DEF Knows
      <3>5. ASSUME NEW k \in Leads, NEW x \in Contacts, NEW y \in Contacts, Knows(x, k)', Knows(y, k)'
            PROVE  kin'[x] = kin'[y] \/ {x, y} \subseteq doubled'
        <4>1. CASE k = l
          BY <1>2, <2>3, <3>4, <3>5, <4>1
        <4>2. CASE k # l
          <5>1. Knows(x, k) /\ Knows(y, k)
            BY <3>4, <3>5, <4>2
          <5> QED
            BY <1>2, <5>1 DEF LeadInv
        <4> QED
          BY <4>1, <4>2
      <3>6. ASSUME NEW k \in Leads, NEW x \in Contacts, Knows(x, k)'
            PROVE  k \in gone' \/ Holders(k)' # {}
        <4>1. CASE k = l
          BY <1>1, <3>3, <4>1 DEF Holders
        <4>2. CASE k # l
          <5>1. k \in gone \/ Holders(k) # {}
            BY <3>4, <3>6, <4>2 DEF LeadInv
          <5>2. \A d \in Holders(k) : d \in Holders(k)'
            BY <2>5, <3>3 DEF Holders, CrmAssumption
          <5> QED
            BY <2>2, <5>1, <5>2
        <4> QED
          BY <4>1, <4>2
      <3>7. \A x \in Contacts : link'[x] \notin gone'
        BY <2>2, <3>1, <3>3 DEF LeadInv
      <3> QED
        BY <3>5, <3>6, <3>7 DEF LeadInv
    <2> QED
      BY <2>2, <2>4, <2>5
  <1>10. CASE r \in MergeRows /\ r \notin DOMAIN done
    <2> DEFINE p == r[2]
               s == r[3]
               both == {link[p], link[s]} \ {Nobody}
    <2>1. MergesLeads(p, s, l)
      BY <1>10, RowKinds DEF Answering, Applied
    <2>2. /\ l \in (IF both = {} THEN {Nobody} ELSE both)
          /\ \A x \in Contacts :
                link'[x] = IF x \in {p, s} \/ link[x] \in both THEN l ELSE link[x]
          /\ gone' = gone \cup (both \ {l})
      BY <2>1 DEF MergesLeads
    <2>3. p \in Contacts /\ s \in Contacts /\ kin[s] = kin[p]
      BY <1>1, <1>10, RowKinds DEF KinInv, KinRows
    <2>4. CASE both = {}
      <3>1. l = Nobody /\ gone' = gone /\ \A x \in Contacts : link'[x] = link[x]
        BY <2>2, <2>4
      <3>2. link' = link
        BY <1>1, <3>1 DEF TypeOK
      <3> QED
        BY <1>8, <3>1, <3>2
    <2>5. CASE both # {}
      <3> HIDE DEF both
      <3>1. l \in both
        BY <2>2, <2>5
      <3>2. \A k \in both : k \in Leads /\ (Knows(p, k) \/ Knows(s, k))
        BY <2>3 DEF both, Knows, TypeOK, LeadOrNobody
      <3>3. ASSUME NEW k \in both, NEW x \in Contacts, Knows(x, k)
            PROVE  kin[x] = kin[p] \/ {x, p} \subseteq doubled
        <4>1. CASE Knows(p, k)
          BY <2>3, <3>2, <3>3, <4>1 DEF LeadInv
        <4>2. CASE Knows(s, k)
          <5>1. kin[x] = kin[s] \/ {x, s} \subseteq doubled
            BY <2>3, <3>2, <3>3, <4>2 DEF LeadInv
          <5> QED
            BY <1>3, <2>3, <5>1 DEF KinTree
        <4> QED
          BY <3>2, <3>3, <4>1, <4>2
      <3>4. ASSUME NEW k \in Leads, NEW x \in Contacts, Knows(x, k)'
            PROVE  \/ Knows(x, k)
                   \/ k = l /\ (kin[x] = kin[p] \/ {x, p} \subseteq doubled)
        <4>1. CASE link'[x] = k
          <5>1. CASE x \in {p, s}
            BY <2>2, <2>3, <4>1, <5>1
          <5>2. CASE link[x] \in both
            BY <2>2, <3>3, <4>1, <5>2 DEF Knows
          <5>3. CASE x \notin {p, s} /\ link[x] \notin both
            BY <2>2, <4>1, <5>3 DEF Knows
          <5> QED
            BY <5>1, <5>2, <5>3
        <4>2. CASE lead'[x] = k
          BY <1>2, <4>2 DEF Knows
        <4>3. CASE AnsweredWith(x, k)'
          BY <1>6, <4>3 DEF Knows
        <4>4. CASE MergesWith(x, k)'
          BY <1>7, <4>4 DEF Knows
        <4> QED
          BY <3>4, <4>1, <4>2, <4>3, <4>4 DEF Knows
      <3>5. ASSUME NEW x \in Contacts, Knows(x, l)' PROVE kin[x] = kin[p] \/ {x, p} \subseteq doubled
        BY <3>1, <3>2, <3>3, <3>4, <3>5
      <3>6. ASSUME NEW k \in Leads, NEW x \in Contacts, NEW y \in Contacts, Knows(x, k)', Knows(y, k)'
            PROVE  kin'[x] = kin'[y] \/ {x, y} \subseteq doubled'
        <4>1. CASE k = l
          <5>1. /\ kin[x] = kin[p] \/ {x, p} \subseteq doubled
                /\ kin[y] = kin[p] \/ {y, p} \subseteq doubled
            BY <3>5, <3>6, <4>1
          <5>2. kin[x] = kin[y] \/ {x, y} \subseteq doubled
            BY <1>3, <2>3, <5>1 DEF KinTree
          <5> QED
            BY <1>2, <5>2
        <4>2. CASE k # l
          <5>1. Knows(x, k) /\ Knows(y, k)
            BY <3>4, <3>6, <4>2
          <5> QED
            BY <1>2, <5>1 DEF LeadInv
        <4> QED
          BY <4>1, <4>2
      <3>7. ASSUME NEW k \in Leads, NEW x \in Contacts, Knows(x, k)'
            PROVE  k \in gone' \/ Holders(k)' # {}
        <4>1. CASE k = l
          <5>1. p \in Holders(l)'
            BY <2>2, <2>3 DEF Holders
          <5> QED
            BY <4>1, <5>1
        <4>2. CASE k # l /\ k \in both
          BY <2>2, <4>2
        <4>3. CASE k # l /\ k \notin both
          <5>1. Knows(x, k)
            BY <3>4, <3>7, <4>3
          <5>2. k \in gone \/ Holders(k) # {}
            BY <5>1 DEF LeadInv
          <5>3. \A d \in Holders(k) : d \in Holders(k)'
            <6>1. ASSUME NEW d \in Contacts, link[d] = k PROVE link'[d] = k
              <7>1. link[p] # Nobody => link[p] \in both
                BY DEF both
              <7>2. link[s] # Nobody => link[s] \in both
                BY DEF both
              <7>3. d \notin {p, s}
                BY <4>3, <6>1, <7>1, <7>2 DEF CrmAssumption
              <7> QED
                BY <2>2, <4>3, <6>1, <7>3
            <6> QED
              BY <6>1 DEF Holders
          <5> QED
            BY <2>2, <5>2, <5>3
        <4> QED
          BY <4>1, <4>2, <4>3
      <3>8. \A x \in Contacts : link'[x] \notin gone'
        <4>1. \A x \in Contacts : link[x] \notin gone
          BY DEF LeadInv
        <4>2. l \notin gone
          BY <2>3, <3>1, <4>1 DEF both
        <4> QED
          BY <2>2, <4>1, <4>2
      <3> QED
        BY <3>6, <3>7, <3>8 DEF LeadInv
    <2> QED
      BY <2>4, <2>5
  <1>11. CASE r \in HistoryRows /\ r \notin DOMAIN done
    BY <1>1, <1>8, <1>11, RowKinds DEF Answering, Applied
  <1>12. CASE r \in DOMAIN done
    BY <1>8, <1>12 DEF Answering, crmVars
  <1> QED
    BY <1>1, <1>9, <1>10, <1>11, <1>12 DEF Rows

LEMMA FinishSuccessLead ==
  ASSUME BaseInv, KinInv, LeadInv, CrmAssumption, NEW w \in Workers, FinishSuccess(w)
  PROVE  LeadInv'
  <1> USE DEF BaseInv
  <1> DEFINE r == call[w].row
             c == call[w].contact
             l == call[w].answer
  <1>1. call[w] # NoCall /\ Busy(w) /\ call[w].step = "answered"
    BY FinishRows DEF FinishSuccess
  <1>2. r \in DOMAIN done /\ l = done[r] /\ c \in Contacts
    BY <1>1 DEF Busy, Present
  <1>3. UNCHANGED <<contact, into, kin, doubled, link, gone, done, req>>
    BY DEF FinishSuccess, crmVars
  <1>4. KinTree'
    BY <1>3, KinTreeStays DEF KinInv
  <1>5. lead' = lead \/ (CarriesLead(r) /\ l # Nobody /\ lead' = [lead EXCEPT ![c] = l])
    BY DEF FinishSuccess
  <1>6. ASSUME CarriesLead(r), l # Nobody
        PROVE  /\ r[2] \in Contacts /\ kin[r[2]] = kin[c] /\ r \notin HistoryRows
               /\ AnsweredWith(r[2], l)
    BY <1>1, <1>2, <1>6, RowKinds DEF CarriesLead, KinInv, KinCalls, AnsweredWith
  <1>7. ASSUME NEW k \in Leads, NEW x \in Contacts, Knows(x, k)'
        PROVE  \E d \in Contacts : Knows(d, k) /\ kin'[d] = kin'[x]
    <2>1. CASE Knows(x, k)
      BY <2>1
    <2>2. CASE ~Knows(x, k)
      <3>1. AnsweredWith(x, k)' = AnsweredWith(x, k) /\ MergesWith(x, k)' = MergesWith(x, k)
        BY <1>3 DEF AnsweredWith, MergesWith
      <3>2. lead'[x] = k /\ lead[x] # k
        BY <1>3, <1>7, <2>2, <3>1 DEF Knows
      <3>3. CarriesLead(r) /\ l # Nobody /\ x = c /\ k = l
        BY <1>5, <3>2 DEF TypeOK
      <3> QED
        BY <1>3, <1>6, <3>3 DEF Knows
    <2> QED
      BY <2>1, <2>2
  <1>8. \A x, y \in Contacts : kin[x] = kin[y] => kin'[x] = kin'[y]
    BY <1>3
  <1> QED
    BY <1>3, <1>4, <1>7, <1>8, LeadWidens

LEMMA LeadStep ==
  ASSUME BaseInv, KinInv, LeadInv, CrmAssumption, [Next]_vars
  PROVE  LeadInv'
  <1>1. ASSUME UNCHANGED <<contact, into, kin, doubled, link, gone, lead, done>>,
               \A q \in Requests : req'[q] = NoReq \/ req'[q] = req[q]
        PROVE  LeadInv'
    BY <1>1, FewerMerges, LeadStays DEF BaseInv, KinInv, Knows
  <1>2. CASE UNCHANGED vars
    BY <1>1, <1>2 DEF vars, contactVars, crmVars, historyVars
  <1>3. ASSUME NEW m \in Messages, ReadSender(m) \/ StoreMessage(m) PROVE LeadInv'
    BY <1>1, <1>3 DEF ReadSender, StoreMessage, contactVars, crmVars, historyVars
  <1>4. ASSUME NEW q \in Requests, Writes(q) PROVE LeadInv'
    <2>1. CASE Drops(q)
      <3>1. \A o \in Requests : req'[o] = NoReq \/ req'[o] = req[o]
        BY <2>1 DEF Drops, Answered, BaseInv, TypeOK
      <3> QED
        BY <1>1, <2>1, <3>1 DEF Drops, contactVars, crmVars, historyVars
    <2>2. CASE Revives(q) /\ (outbox' = outbox \/ outbox' = WithNew({Sync(req[q].to)}, req[q].to))
      <3>1. \A o \in Requests : req'[o] = NoReq \/ req'[o] = req[o]
        BY <2>2, RevivesBase
      <3>2. UNCHANGED <<into, kin, doubled, link, gone, lead, done>>
        BY <2>2 DEF Revives, crmVars, historyVars
      <3>3. KinTree'
        BY <2>2, RevivesKin DEF KinInv
      <3>4. ASSUME NEW l \in Leads, NEW x \in Contacts, Knows(x, l)' PROVE Knows(x, l)
        BY <3>1, <3>2, <3>4, FewerMerges DEF Knows, AnsweredWith
      <3>5. \A x, y \in Contacts : kin[x] = kin[y] => kin'[x] = kin'[y]
        BY <3>2
      <3> QED
        BY <3>2, <3>3, <3>4, <3>5, LeadWidens DEF BaseInv
    <2> QED
      BY <1>4, <2>1, <2>2, JoinsLead DEF Writes
  <1>5. ASSUME NEW r \in DOMAIN outbox, OperatorRetry(r) PROVE LeadInv'
    BY <1>1, <1>5 DEF OperatorRetry, contactVars, crmVars, historyVars
  <1>6. ASSUME NEW w \in Workers, Scans(w) PROVE LeadInv'
    <2>1. CASE \E r \in DOMAIN outbox : Claim(w, r)
      BY <1>1, <2>1 DEF Claim, contactVars, crmVars, historyVars
    <2>2. CASE Refuses(w) \/ FinishFails(w) \/ Crash(w)
      BY <1>1, <2>2 DEF Refuses, FinishFails, Crash, contactVars, crmVars, historyVars
    <2> QED
      BY <1>6, <2>1, <2>2, AnsweringLead, FinishSuccessLead DEF Scans
  <1> QED
    BY <1>2, <1>3, <1>4, <1>5, <1>6, NextCases, AsksLead, AnnounceLead

LEMMA LeadInit ==
  ASSUME Init, CrmAssumption
  PROVE  LeadInv
  <1> USE DEF Init, CrmAssumption
  <1>1. ASSUME NEW l \in Leads, NEW c \in Contacts, Knows(c, l) PROVE link[c] = l /\ lead[c] = l
    BY <1>1 DEF Knows, AnsweredWith, MergesWith, NoReq
  <1>2. ASSUME NEW l \in Leads, NEW c \in Contacts, NEW d \in Contacts, Knows(c, l), Knows(d, l)
        PROVE  c = d
    <2>1. lead[c] = l /\ lead[d] = l /\ l # Nobody
      BY <1>1, <1>2
    <2> QED
      BY <2>1
  <1>3. ASSUME NEW l \in Leads, NEW c \in Contacts, Knows(c, l) PROVE Holders(l) # {}
    BY <1>1, <1>3 DEF Holders
  <1>4. \A c \in Contacts : link[c] \notin gone
    OBVIOUS
  <1> QED
    BY <1>2, <1>3, <1>4 DEF LeadInv

(* A kin that is not doubled has one contact in use, and shares its leads with no
   other. *)
LEMMA LeadInvSeparates ==
  ASSUME BaseInv, KinInv, LeadInv, CrmAssumption
  PROVE  OneContactPerLead
  <1> SUFFICES ASSUME NEW c \in Contacts, NEW d \in Contacts, c # d, InUse(c), InUse(d),
                      lead[c] # Nobody, lead[c] = lead[d]
               PROVE  {c, d} \cap doubled # {}
    BY DEF OneContactPerLead
  <1>1. lead[c] \in Leads /\ Knows(c, lead[c]) /\ Knows(d, lead[c])
    BY DEF BaseInv, TypeOK, LeadOrNobody, Knows
  <1>2. kin[c] = kin[d] \/ {c, d} \subseteq doubled
    BY <1>1 DEF LeadInv
  <1>3. c \in Roots /\ d \in Roots
    BY DEF InUse, Roots, Present
  <1> QED
    BY <1>2, <1>3 DEF KinInv, KinTree
-----------------------------------------------------------------------------
(* Rows that stand to replace removed leads stay while nothing but other rows comes. *)
LEMMA DeadStays ==
  ASSUME DeadInv, Present' = Present, UNCHANGED <<into, lead, gone, doubled, outdated>>,
         \A r \in DOMAIN outbox \cap MergeRows :
            /\ r \in DOMAIN outbox' /\ outbox'[r].contact = outbox[r].contact
            /\ outbox'[r].status = "SUCCEEDED" => outbox[r].status = "SUCCEEDED",
         DOMAIN outbox' \cap MergeRows \subseteq DOMAIN outbox,
         \A r \in DOMAIN done : r \in DOMAIN done' /\ done'[r] = done[r]
  PROVE  DeadInv'
  <1>1. Roots' = Roots
    BY DEF Roots
  <1>2. \A r \in Rows, c \in Roots : Mends(r, c) => Mends(r, c)'
    BY DEF Mends
  <1>3. \A r \in DOMAIN outbox' \cap MergeRows :
           into'[outbox'[r].contact] = Nobody \/ outbox'[r].contact \in doubled'
    BY DEF DeadInv
  <1>4. ASSUME NEW c \in Roots', lead'[c] \in gone'
        PROVE  c \in outdated' \cup doubled' \/ \E r \in Rows' : Mends(r, c)'
    BY <1>1, <1>2, <1>4 DEF DeadInv, Rows, LeadRows, MergeRows, HistoryRows, Pairs
  <1> QED
    BY <1>3, <1>4 DEF DeadInv

LEMMA JoinsDead ==
  ASSUME BaseInv, DeadInv, CrmAssumption, NEW q \in Requests, NEW row, Joins(q, row),
         disturbed' \subseteq Contacts
  PROVE  DeadInv'
  <1> DEFINE p == req[q].to
             s == req[q].from
             joint == IF req[q].toLead # Nobody THEN req[q].toLead ELSE req[q].fromLead
  <1>1. /\ p \in Contacts /\ s \in Contacts /\ p # s
        /\ into' = [into EXCEPT ![s] = p]
        /\ doubled \subseteq doubled' /\ (into[p] # Nobody => p \in doubled')
        /\ UNCHANGED <<gone, done>>
    BY JoinsTells DEF Crossed, Kin
  <1>2. Moves(p, s, row) /\ Present' = Present
    BY JoinsBase
  <1>3. lead' = [lead EXCEPT ![p] = joint] /\ outdated \subseteq outdated'
        /\ (joint \in gone => p \in outdated')
    BY DEF Joins, Join
  <1>4. \A c \in Contacts : into'[c] = IF c = s THEN p ELSE into[c]
    BY <1>1 DEF BaseInv, TypeOK
  <1>5. \A c \in Contacts : lead'[c] = IF c = p THEN joint ELSE lead[c]
    BY <1>1, <1>3 DEF BaseInv, TypeOK
  <1>6. ASSUME NEW r \in DOMAIN outbox' \cap MergeRows
        PROVE  into'[outbox'[r].contact] = Nobody \/ outbox'[r].contact \in doubled'
    <2>1. CASE r \in DOMAIN outbox
      <3>1. outbox[r].contact \in Contacts
        BY <2>1 DEF BaseInv, PresentInv, Present
      <3>2. into[outbox[r].contact] = Nobody \/ outbox[r].contact \in doubled
        BY <1>6, <2>1 DEF DeadInv
      <3> QED
        BY <1>1, <1>2, <1>4, <2>1, <3>1, <3>2 DEF Moves
    <2>2. CASE r \notin DOMAIN outbox
      BY <1>1, <1>2, <1>4, <1>6, <2>2 DEF Moves
    <2> QED
      BY <2>1, <2>2
  <1>7. ASSUME NEW c \in Roots', lead'[c] \in gone', c \notin outdated' \cup doubled'
        PROVE  \E r \in Rows : Mends(r, c)'
    <2>1. c \in Contacts /\ c # s /\ c \in Roots
      BY <1>1, <1>2, <1>4, CrmAssumption DEF Roots, Present, CrmAssumption
    <2>2. c # p /\ lead[c] \in gone /\ c \notin outdated \cup doubled
      BY <1>1, <1>3, <1>5, <1>7, <2>1
    <2>3. PICK r \in Rows : Mends(r, c)
      BY <2>1, <2>2 DEF DeadInv
    <2> QED
      BY <1>1, <1>2, <2>1, <2>3 DEF Mends, Moves
  <1> QED
    BY <1>6, <1>7 DEF DeadInv, Rows, LeadRows, MergeRows, HistoryRows, Pairs

LEMMA AnnounceDead ==
  ASSUME BaseInv, DeadInv, CrmAssumption, NEW c \in Contacts, NEW l \in Leads, Announce(c, l)
  PROVE  DeadInv'
  <1>1. /\ UNCHANGED <<into, outbox, gone, done, outdated>> /\ doubled \subseteq doubled'
        /\ lead' = [lead EXCEPT ![c] = l] /\ l \notin gone
    BY DEF Announce
  <1>2. Present' = Present \cup {c}
    BY AnnounceBase
  <1>3. \A d \in Roots' : d = c \/ d \in Roots
    BY <1>1, <1>2 DEF Roots
  <1>4. \A r \in DOMAIN outbox' \cap MergeRows :
           into'[outbox'[r].contact] = Nobody \/ outbox'[r].contact \in doubled'
    BY <1>1 DEF DeadInv
  <1>5. ASSUME NEW d \in Roots', lead'[d] \in gone', d \notin outdated' \cup doubled'
        PROVE  \E r \in Rows : Mends(r, d)'
    <2>1. d # c /\ d \in Roots /\ lead[d] \in gone
      BY <1>1, <1>3, <1>5 DEF BaseInv, TypeOK, Roots, Present
    <2>2. PICK r \in Rows : Mends(r, d)
      BY <1>1, <1>5, <2>1 DEF DeadInv
    <2> QED
      BY <1>1, <2>2 DEF Mends
  <1> QED
    BY <1>4, <1>5 DEF DeadInv, Rows, LeadRows, MergeRows, HistoryRows, Pairs

(* The lead that a merge removes is known to its contact alone, or to the doubled. *)
LEMMA AnsweringDead ==
  ASSUME BaseInv, KinInv, LeadInv, DeadInv, CrmAssumption, NEW w \in Workers, NEW l \in LeadOrNobody,
         Answering(w, l)
  PROVE  DeadInv'
  <1> USE DEF BaseInv
  <1> DEFINE r == call[w].row
  <1>1. /\ r \in DOMAIN outbox /\ r \in Rows
        /\ DOMAIN done' = DOMAIN done \cup {r} /\ done'[r] = l
        /\ \A x \in DOMAIN done : done'[x] = done[x]
    BY AnsweringDone DEF TypeOK
  <1>2. UNCHANGED <<contact, into, lead, kin, doubled, outdated>> /\ Turns /\ Present' = Present
    BY AnswersBase DEF Answering, contactVars, historyVars
  <1>3. DOMAIN outbox' = DOMAIN outbox
    BY <1>2 DEF Turns
  <1>4. CASE gone' = gone
    BY <1>1, <1>2, <1>3, <1>4, DeadStays DEF Turns
  <1>5. CASE r \in MergeRows /\ r \notin DOMAIN done
    <2> DEFINE p == r[2]
               s == r[3]
               both == {link[p], link[s]} \ {Nobody}
    <2>1. MergesLeads(p, s, l)
      BY <1>5, RowKinds DEF Answering, Applied
    <2>2. /\ l \in (IF both = {} THEN {Nobody} ELSE both)
          /\ gone' = gone \cup (both \ {l})
      BY <2>1 DEF MergesLeads
    <2>3. p \in Contacts /\ s \in Contacts /\ kin[s] = kin[p]
          /\ outbox[r].contact \in Present /\ kin[outbox[r].contact] = kin[p]
      BY <1>1, <1>5, RowKinds DEF KinInv, KinRows, PresentInv
    <2>4. \A x \in DOMAIN outbox' \cap MergeRows :
             into'[outbox'[x].contact] = Nobody \/ outbox'[x].contact \in doubled'
      BY <1>2, <1>3 DEF Turns, DeadInv
    <2>5. ASSUME NEW c \in Roots', lead'[c] \in gone', c \notin outdated' \cup doubled'
          PROVE  \E x \in Rows : Mends(x, c)'
      <3>1. c \in Roots /\ c \in Contacts /\ c \notin outdated \cup doubled
        BY <1>2, <2>5 DEF Roots, Present
      <3>2. CASE lead[c] \in gone
        <4>1. PICK x \in Rows : Mends(x, c)
          BY <3>1, <3>2 DEF DeadInv
        <4> QED
          BY <1>1, <1>2, <1>3, <4>1 DEF Mends, Turns
      <3>3. CASE lead[c] \in both
        <4>1. lead[c] \in Leads /\ Knows(c, lead[c]) /\ (Knows(p, lead[c]) \/ Knows(s, lead[c]))
          BY <2>3, <3>1, <3>3 DEF Knows, TypeOK, LeadOrNobody
        <4>2. kin[c] = kin[p]
          BY <2>3, <3>1, <4>1 DEF LeadInv
        <4>3. outbox[r].contact \in Roots
          BY <1>1, <1>5, <2>3, <3>1, <4>2 DEF DeadInv, Roots, Present, KinInv, KinTree
        <4>4. outbox[r].contact = c
          BY <2>3, <3>1, <4>2, <4>3 DEF KinInv, KinTree
        <4>5. outbox[r].status # "SUCCEEDED"
          BY <1>1, <1>5 DEF ProgressInv, DoneInv
        <4>6. l # Nobody
          BY <2>2, <3>3
        <4>7. \A x \in Rows : x = r => Mends(x, c)'
          BY <1>1, <1>2, <1>3, <1>5, <4>4, <4>5, <4>6 DEF Mends, Turns
        <4> QED
          BY <1>1, <4>7
      <3> QED
        BY <1>2, <2>2, <2>5, <3>2, <3>3
    <2> QED
      BY <2>4, <2>5 DEF DeadInv, Rows, LeadRows, MergeRows, HistoryRows, Pairs
  <1>6. r \in DOMAIN done => gone' = gone
    BY DEF Answering, crmVars
  <1>7. r \notin DOMAIN done /\ r \in LeadRows => gone' = gone
    BY RowKinds DEF Answering, Applied, FindsLead
  <1>8. r \notin DOMAIN done /\ r \in HistoryRows => gone' = gone
    BY RowKinds DEF Answering, Applied
  <1> QED
    BY <1>1, <1>4, <1>5, <1>6, <1>7, <1>8 DEF Rows

LEMMA FinishSuccessDead ==
  ASSUME BaseInv, KinInv, DeadInv, CrmAssumption, NEW w \in Workers, FinishSuccess(w)
  PROVE  DeadInv'
  <1> USE DEF BaseInv
  <1> DEFINE r0 == call[w].row
             c0 == call[w].contact
             l == call[w].answer
             links == CarriesLead(r0) /\ l # Nobody
  <1>1. Finishes(w) /\ call[w] # NoCall /\ Busy(w)
    BY FinishRows
  <1>2. /\ r0 \in DOMAIN done /\ r0 \in DOMAIN outbox /\ l = done[r0]
        /\ c0 \in Present /\ c0 \in Contacts
    BY <1>1 DEF Busy, Present, FinishSuccess
  <1>3. Present' = Present /\ \A r \in DOMAIN outbox' \ DOMAIN outbox : r \notin MergeRows
    BY FinishSuccessBase, RowKinds
  <1>4. UNCHANGED <<contact, into, kin, doubled, gone, done>>
    BY DEF FinishSuccess, crmVars
  <1>5. /\ lead' = IF links THEN [lead EXCEPT ![c0] = l] ELSE lead
        /\ outdated \subseteq outdated'
        /\ links /\ l \in gone => c0 \in outdated'
        /\ links /\ into[c0] # Nobody => Kin(c0) \subseteq outdated'
    BY DEF FinishSuccess
  <1>6. ASSUME NEW r \in DOMAIN outbox
        PROVE  /\ r \in DOMAIN outbox' /\ outbox'[r].contact = outbox[r].contact
               /\ r # r0 => outbox'[r] = outbox[r]
    BY <1>1 DEF Finishes
  <1>7. \A r \in DOMAIN outbox' \cap MergeRows :
           into'[outbox'[r].contact] = Nobody \/ outbox'[r].contact \in doubled'
    BY <1>3, <1>4, <1>6 DEF DeadInv
  <1>8. ASSUME NEW c \in Roots', lead'[c] \in gone', c \notin outdated' \cup doubled'
        PROVE  \E r \in Rows : Mends(r, c)'
    <2>1. c \in Roots /\ c \in Contacts /\ c \notin outdated \cup doubled
      BY <1>3, <1>4, <1>5, <1>8 DEF Roots, Present
    <2>2. ~(links /\ c = c0) /\ lead[c] \in gone
      BY <1>2, <1>4, <1>5, <1>8, <2>1 DEF TypeOK
    <2>3. PICK r \in Rows : Mends(r, c)
      BY <2>1, <2>2 DEF DeadInv
    <2>4. CASE r # r0
      BY <1>4, <1>6, <2>3, <2>4 DEF Mends
    <2>5. CASE r = r0
      <3>1. links /\ c # c0
        BY <1>2, <2>2, <2>3, <2>5 DEF CarriesLead, Mends
      <3>2. kin[c0] = kin[r0[2]] /\ kin[c] = kin[r0[2]]
        BY <1>1, <2>3, <2>5, RowKinds DEF KinInv, KinCalls, KinRows, Mends
      <3>3. into[c0] = Nobody
        BY <1>5, <1>8, <2>1, <3>1, <3>2 DEF Kin
      <3>4. c0 \in Roots
        BY <1>2, <3>3 DEF Roots
      <3> QED
        BY <2>1, <3>1, <3>2, <3>4 DEF KinInv, KinTree
    <2> QED
      BY <2>4, <2>5
  <1> QED
    BY <1>7, <1>8 DEF DeadInv, Rows, LeadRows, MergeRows, HistoryRows, Pairs

LEMMA DeadStep ==
  ASSUME BaseInv, KinInv, LeadInv, DeadInv, CrmAssumption, [Next]_vars
  PROVE  DeadInv'
  <1>1. ASSUME UNCHANGED <<contact, into, lead, gone, doubled, outdated, done>>, Turns \/ outbox' = outbox
        PROVE  DeadInv'
    <2>1. Present' = Present
      BY <1>1 DEF Present
    <2> QED
      BY <1>1, <2>1, DeadStays DEF Turns
  <1>2. CASE UNCHANGED vars
    BY <1>1, <1>2 DEF vars, contactVars, crmVars, historyVars
  <1>3. ASSUME NEW rows \in SUBSET Rows, NEW c \in Contacts, rows \cap MergeRows = {},
               outbox' = WithNew(rows, c) \/ outbox' = outbox,
               Present' = Present, UNCHANGED <<into, lead, gone, doubled, outdated, done>>
        PROVE  DeadInv'
    <2>1. CASE outbox' = outbox
      BY <1>3, <2>1, DeadStays
    <2>2. CASE outbox' = WithNew(rows, c)
      <3>1. Adds(rows, c) /\ DOMAIN outbox' = DOMAIN outbox \cup rows
        BY <2>2, WithNewAdds DEF BaseInv
      <3> QED
        BY <1>3, <3>1, DeadStays DEF Adds
    <2> QED
      BY <1>3, <2>1, <2>2
  <1>4. ASSUME NEW m \in Messages, StoreMessage(m) PROVE DeadInv'
    <2>1. /\ outbox' = WithNew({Intent(m)}, reading[m].contact)
          /\ UNCHANGED <<contact, into, lead, gone, doubled, outdated, done>>
      BY <1>4 DEF StoreMessage, contactVars, crmVars
    <2>2. {Intent(m)} \in SUBSET Rows /\ {Intent(m)} \cap MergeRows = {} /\ reading[m].contact \in Contacts
      BY <1>4, IntentRow, RowKinds DEF StoreMessage, BaseInv, PresentInv, Present
    <2>3. Present' = Present
      BY <2>1 DEF Present
    <2> QED
      BY <1>3, <2>1, <2>2, <2>3
  <1>5. ASSUME NEW q \in Requests, Writes(q) PROVE DeadInv'
    <2>1. CASE Drops(q)
      BY <1>1, <2>1 DEF Drops, contactVars, crmVars, historyVars
    <2>2. CASE Revives(q) /\ (outbox' = outbox \/ outbox' = WithNew({Sync(req[q].to)}, req[q].to))
      <3>1. req[q].to \in Contacts
        BY <2>2 DEF Revives, Present
      <3>2. {Sync(req[q].to)} \in SUBSET Rows /\ {Sync(req[q].to)} \cap MergeRows = {}
        BY <3>1, RowNames, RowKinds DEF Rows
      <3>3. Present' = Present /\ UNCHANGED <<into, lead, gone, doubled, outdated, done>>
        BY <2>2, RevivesBase DEF Revives, crmVars, historyVars
      <3> QED
        BY <1>3, <2>2, <3>1, <3>2, <3>3
    <2> QED
      BY <1>5, <2>1, <2>2, JoinsDead DEF Writes
  <1>6. ASSUME NEW r \in DOMAIN outbox, OperatorRetry(r) PROVE DeadInv'
    BY <1>1, <1>6, OperatorRetryTurns DEF BaseInv, OperatorRetry, contactVars, crmVars, historyVars
  <1>7. ASSUME NEW w \in Workers, Scans(w) PROVE DeadInv'
    <2>1. CASE Steps(w)
      BY <1>1, <2>1 DEF Steps, contactVars, crmVars, historyVars
    <2> QED
      BY <1>7, <2>1, ClaimSteps, RefusesSteps, AnsweringDead, FinishSuccessDead DEF Scans
  <1>8. ASSUME NEW m \in Messages, ReadSender(m) PROVE DeadInv'
    BY <1>1, <1>8 DEF ReadSender, contactVars, crmVars, historyVars
  <1>9. ASSUME NEW q \in Requests, Asks(q) PROVE DeadInv'
    <2>1. PICK r : Takes(q, r)
      BY <1>9 DEF Asks
    <2> QED
      BY <1>1, <2>1 DEF Takes, contactVars, crmVars, historyVars
  <1> QED
    BY <1>2, <1>4, <1>5, <1>6, <1>7, <1>8, <1>9, NextCases, AnnounceDead

LEMMA DeadInit ==
  ASSUME Init, CrmAssumption
  PROVE  DeadInv
  BY DEF Init, DeadInv

LEMMA DeadInvMends ==
  ASSUME DeadInv
  PROVE  DeadLeadIsMended
  BY DEF DeadInv, DeadLeadIsMended, InUse, Roots, Present, Mends, Unsettled, Exists, Status
-----------------------------------------------------------------------------
(* What queues a message stays while contacts, links and messages stay. *)
LEMMA HistoryStays ==
  ASSUME BaseInv, HistoryInv, UNCHANGED <<into, lead, stored, overlapped, uneven>>,
         \A r \in DOMAIN outbox :
            /\ r \in DOMAIN outbox' /\ outbox'[r].contact = outbox[r].contact
            /\ outbox'[r].status = "SUCCEEDED" => outbox[r].status = "SUCCEEDED",
         \A c \in Contacts : Bootstrap(c) \in DOMAIN outbox' => Bootstrap(c) \in DOMAIN outbox
  PROVE  /\ MessagesQueued' /\ BootstrapsStand'
         /\ (/\ \A w \in Workers : \/ call'[w] = NoCall
                                   \/ /\ call[w] # NoCall /\ call'[w].row = call[w].row
                                      /\ call'[w].contact = call[w].contact
                                      /\ call'[w].lead = call[w].lead
             /\ Frees) => HistoryInv'
  <1> USE DEF BaseInv, HistoryInv
  <1>1. \A r \in Rows, c \in Contacts : Stands(r, c) => Stands(r, c)'
    BY DEF Stands
  <1>2. ASSUME NEW m \in Messages, stored'[m] # Nobody
        PROVE  \/ History(m) \in DOMAIN outbox'
               \/ lead'[stored'[m]] = Nobody /\ \E r \in Rows : Stands(r, stored[m])'
               \/ m \in overlapped' \/ stored'[m] \in uneven'
    <2>1. stored[m] \in Contacts
      BY <1>2 DEF TypeOK
    <2> QED
      BY <1>1, <1>2, <2>1 DEF MessagesQueued
  <1>3. MessagesQueued'
    BY <1>2 DEF MessagesQueued, Rows, LeadRows, MergeRows, HistoryRows, Pairs
  <1>4. BootstrapsStand'
    <2>1. \A c \in Contacts : Bootstrap(c) \in Rows
      BY RowNames DEF Rows
    <2> QED
      BY <1>1, <2>1 DEF BootstrapsStand, Exists
  <1>5. ASSUME \A w \in Workers : \/ call'[w] = NoCall
                                  \/ /\ call[w] # NoCall /\ call'[w].row = call[w].row
                                     /\ call'[w].contact = call[w].contact
                                     /\ call'[w].lead = call[w].lead,
               Frees
        PROVE  CallsLink'
    <2>1. \A w \in Workers : call[w] # NoCall => call[w].row \in DOMAIN outbox
      BY DEF ProgressInv, Busy
    <2>2. ASSUME NEW w \in Workers, call'[w] # NoCall, call'[w].row \in LeadRows
          PROVE  /\ call'[w].lead # Nobody => lead'[call'[w].contact] # Nobody \/ call'[w].contact \in uneven'
                 /\ Holds(w, call[w].row)' => \/ outbox'[call'[w].row].contact = call'[w].contact
                                              \/ outbox'[call'[w].row].contact \in uneven'
      <3>1. /\ call[w] # NoCall /\ call'[w].row = call[w].row
            /\ call'[w].contact = call[w].contact /\ call'[w].lead = call[w].lead
        BY <1>5, <2>2
      <3>2. Holds(w, call[w].row)' => Holds(w, call[w].row)
        BY <1>5, <2>1, <3>1 DEF Frees, Holds, Status
      <3> QED
        BY <2>1, <2>2, <3>1, <3>2 DEF CallsLink
    <2> QED
      BY <2>2 DEF CallsLink, LeadRows
  <1> QED
    BY <1>3, <1>4, <1>5

LEMMA StoreMessageHistory ==
  ASSUME BaseInv, HistoryInv, CrmAssumption, NEW m \in Messages, StoreMessage(m)
  PROVE  HistoryInv'
  <1> USE DEF BaseInv, HistoryInv
  <1> DEFINE c == reading[m].contact
  <1>1. /\ stored' = [stored EXCEPT ![m] = c] /\ UNCHANGED <<into, lead, uneven, call>>
        /\ overlapped \subseteq overlapped' /\ reading[m] # NoTx
        /\ m \notin overlapped' => reading[m].linked = (lead[c] # Nobody) /\ into[c] = Nobody
    BY DEF StoreMessage, contactVars
  <1>2. /\ Intent(m) \in Rows \ MergeRows /\ c \in Present /\ c \in Contacts
        /\ Intent(m) = IF reading[m].linked THEN History(m) ELSE Bootstrap(c)
    BY <1>1, IntentRow
  <1>3. /\ Adds({Intent(m)}, c) /\ NewRow(c).contact = c /\ NewRow(c).status = "PENDING"
    BY <1>2, StoreMessageBase, NewRowTyped
  <1>4. DOMAIN outbox' = DOMAIN outbox \cup {Intent(m)}
    BY <1>3 DEF Adds
  <1>5. \A r \in DOMAIN outbox : outbox'[r] = outbox[r]
    BY <1>3 DEF Adds
  <1>6. Intent(m) \notin DOMAIN outbox => outbox'[Intent(m)] = NewRow(c)
    BY <1>3 DEF Adds
  <1>7. \A r \in Rows, d \in Contacts : Stands(r, d) => Stands(r, d)'
    BY <1>4, <1>5 DEF Stands
  <1>8. ASSUME NEW d \in Contacts, Bootstrap(d) \in DOMAIN outbox', Bootstrap(d) \notin DOMAIN outbox
        PROVE  d = c /\ Stands(Bootstrap(d), d)'
    <2>1. Bootstrap(d) = Intent(m)
      BY <1>4, <1>8
    <2>2. d = c
      BY <1>2, <2>1, RowNames, RowKinds
    <2>3. Bootstrap(d) \in LeadRows
      BY RowNames
    <2> QED
      BY <1>3, <1>4, <1>6, <1>8, <2>1, <2>2, <2>3 DEF Stands
  <1>9. BootstrapsStand'
    <2>1. \A d \in Contacts : Bootstrap(d) \in Rows
      BY RowNames DEF Rows
    <2> QED
      BY <1>1, <1>7, <1>8, <2>1 DEF BootstrapsStand, Exists
  <1>10. ASSUME NEW n \in Messages, stored'[n] # Nobody
         PROVE  \/ History(n) \in DOMAIN outbox'
                \/ lead'[stored'[n]] = Nobody /\ \E r \in Rows : Stands(r, stored[n])'
                \/ n \in overlapped' \/ stored'[n] \in uneven'
    <2>1. CASE n # m
      <3>1. stored'[n] = stored[n] /\ stored[n] \in Contacts
        BY <1>1, <1>10, <2>1 DEF TypeOK
      <3> QED
        BY <1>1, <1>4, <1>7, <1>10, <3>1 DEF MessagesQueued
    <2>2. CASE n = m /\ m \notin overlapped'
      <3>1. stored'[m] = c
        BY <1>1 DEF TypeOK
      <3>2. CASE reading[m].linked
        BY <1>2, <1>4, <2>2, <3>2
      <3>3. CASE ~reading[m].linked
        <4>1. lead[c] = Nobody /\ into[c] = Nobody /\ Bootstrap(c) \in DOMAIN outbox'
          BY <1>1, <1>2, <1>4, <2>2, <3>3
        <4>2. PICK d \in Contacts : d = c
          BY <1>2
        <4>3. Stands(Bootstrap(d), d)' \/ d \in uneven'
          BY <1>1, <1>9, <4>1, <4>2 DEF BootstrapsStand, Exists
        <4>4. Bootstrap(d) \in Rows
          BY RowNames DEF Rows
        <4> QED
          BY <1>1, <2>2, <3>1, <4>1, <4>2, <4>3, <4>4 DEF Stands
      <3> QED
        BY <3>2, <3>3
    <2> QED
      BY <2>1, <2>2
  <1>11. MessagesQueued'
    BY <1>10 DEF MessagesQueued, Rows, LeadRows, MergeRows, HistoryRows, Pairs
  <1>12. CallsLink'
    <2>1. \A w \in Workers : call[w] # NoCall => call[w].row \in DOMAIN outbox
      BY DEF ProgressInv, Busy
    <2> QED
      BY <1>1, <1>5, <2>1 DEF CallsLink, Holds, Status
  <1> QED
    BY <1>9, <1>11, <1>12

LEMMA JoinsHistory ==
  ASSUME BaseInv, HistoryInv, CrmAssumption, NEW q \in Requests, NEW row, Joins(q, row),
         disturbed' \subseteq Contacts
  PROVE  HistoryInv'
  <1> USE DEF BaseInv, HistoryInv
  <1> DEFINE p == req[q].to
             s == req[q].from
             joint == IF req[q].toLead # Nobody THEN req[q].toLead ELSE req[q].fromLead
  <1>1. /\ p \in Contacts /\ s \in Contacts /\ p # s
        /\ into' = [into EXCEPT ![s] = p] /\ UNCHANGED <<overlapped, call>>
    BY JoinsTells
  <1>2. Moves(p, s, row) /\ row \in MergeRows
    BY JoinsBase
  <1>3. /\ lead' = [lead EXCEPT ![p] = joint]
        /\ stored' = [m \in Messages |-> IF stored[m] = s THEN p ELSE stored[m]]
        /\ uneven' = IF Uneven(q) THEN uneven \cup {p} ELSE uneven
    BY DEF Joins, Join
  <1>4. \A c \in Contacts : /\ into'[c] = IF c = s THEN p ELSE into[c]
                            /\ lead'[c] = IF c = p THEN joint ELSE lead[c]
    BY <1>1, <1>3 DEF TypeOK
  <1>5. ASSUME NEW r \in DOMAIN outbox
        PROVE  /\ r \in DOMAIN outbox'
               /\ outbox'[r].contact = IF outbox[r].contact = s THEN p ELSE outbox[r].contact
               /\ outbox'[r].status = "SUCCEEDED" => outbox[r].status = "SUCCEEDED"
               /\ r \in LeadRows => outbox'[r].status = outbox[r].status /\ outbox'[r].holder = outbox[r].holder
    BY <1>2, RowKinds DEF Moves
  <1>6. DOMAIN outbox' = DOMAIN outbox \cup {row}
    BY <1>2 DEF Moves
  <1>7. ASSUME p \notin uneven'
        PROVE  /\ p \notin uneven /\ s \notin uneven
               /\ \A w \in Workers : ~(call[w].contact = s /\ call[w].row \notin HistoryRows)
               /\ lead[p] = Nobody <=> joint = Nobody
               /\ lead[s] = Nobody => joint = Nobody
    <2>1. ~Uneven(q) /\ p \notin uneven
      BY <1>3, <1>7
    <2>2. /\ s \notin uneven
          /\ \A w \in Workers : ~(call[w].contact = s /\ call[w].row \notin HistoryRows)
      BY <2>1 DEF Uneven
    <2>3. LET leads == {req[q].toLead, req[q].fromLead, lead[p], lead[s]}
          IN  Nobody \notin leads \/ leads = {Nobody}
      BY <2>1 DEF Uneven
    <2> QED
      BY <2>1, <2>2, <2>3
  <1>8. ASSUME NEW r \in Rows, NEW c \in Contacts, Stands(r, c)
        PROVE  /\ c # s => Stands(r, c)'
               /\ c = s => \A d \in Contacts : d = p => Stands(r, d)'
    BY <1>1, <1>5, <1>8 DEF Stands
  <1>9. ASSUME NEW m \in Messages, stored'[m] # Nobody
        PROVE  \/ History(m) \in DOMAIN outbox'
               \/ lead'[stored'[m]] = Nobody /\ \E r \in Rows : Stands(r, stored[m])'
               \/ m \in overlapped' \/ stored'[m] \in uneven'
    <2>1. /\ stored[m] # Nobody /\ stored[m] \in Contacts
          /\ stored'[m] = IF stored[m] = s THEN p ELSE stored[m]
      BY <1>1, <1>3, <1>9 DEF TypeOK
    <2>2. CASE History(m) \in DOMAIN outbox \/ m \in overlapped
      BY <1>1, <1>6, <2>2
    <2>3. CASE stored[m] \in uneven
      BY <1>3, <1>7, <2>1, <2>3
    <2>4. CASE lead[stored[m]] = Nobody /\ \E r \in Rows : Stands(r, stored[m])
      <3>1. PICK r \in Rows : Stands(r, stored[m])
        BY <2>4
      <3>2. Stands(r, stored[m])'
        <4>1. \A d \in Contacts : d = stored'[m] => Stands(r, d)'
          BY <1>8, <2>1, <3>1
        <4> QED
          BY <1>1, <2>1, <4>1 DEF Stands
      <3>3. lead'[stored'[m]] = Nobody \/ stored'[m] \in uneven'
        BY <1>1, <1>4, <1>7, <2>1, <2>4
      <3> QED
        BY <3>2, <3>3
    <2> QED
      BY <2>1, <2>2, <2>3, <2>4 DEF MessagesQueued
  <1>10. MessagesQueued'
    BY <1>9 DEF MessagesQueued, Rows, LeadRows, MergeRows, HistoryRows, Pairs
  <1>11. ASSUME NEW c \in Contacts, Bootstrap(c) \in DOMAIN outbox', into'[c] = Nobody, lead'[c] = Nobody,
                c \notin uneven'
         PROVE  Stands(Bootstrap(c), c)'
    <2>1. Bootstrap(c) \in LeadRows /\ Bootstrap(c) \in Rows
      BY RowNames DEF Rows
    <2>2. Bootstrap(c) \in DOMAIN outbox
      BY <1>2, <1>6, <1>11, <2>1, RowKinds
    <2>3. c # s /\ into[c] = Nobody
      BY <1>1, <1>4, <1>11, CrmAssumption DEF CrmAssumption
    <2>4. lead[c] = Nobody /\ c \notin uneven
      BY <1>3, <1>4, <1>7, <1>11
    <2>5. Stands(Bootstrap(c), c)
      BY <2>2, <2>3, <2>4 DEF BootstrapsStand, Exists
    <2> QED
      BY <1>8, <2>1, <2>3, <2>5
  <1>12. BootstrapsStand'
    BY <1>11 DEF BootstrapsStand, Exists
  <1>13. ASSUME NEW w \in Workers, call[w] # NoCall, call[w].row \in LeadRows
         PROVE  /\ call[w].lead # Nobody => lead'[call[w].contact] # Nobody \/ call[w].contact \in uneven'
                /\ Holds(w, call[w].row)' => \/ outbox'[call[w].row].contact = call[w].contact
                                             \/ outbox'[call[w].row].contact \in uneven'
    <2>1. call[w].row \in DOMAIN outbox /\ call[w].contact \in Contacts /\ call[w].row \notin HistoryRows
      BY <1>13, RowKinds DEF ProgressInv, Busy, Present
    <2>2. ASSUME call[w].lead # Nobody, call[w].contact \notin uneven'
          PROVE  lead'[call[w].contact] # Nobody
      <3>1. lead[call[w].contact] # Nobody
        BY <1>3, <1>13, <2>2 DEF CallsLink
      <3> QED
        BY <1>4, <1>7, <2>1, <2>2, <3>1
    <2>3. ASSUME Holds(w, call[w].row)', outbox'[call[w].row].contact \notin uneven'
          PROVE  outbox'[call[w].row].contact = call[w].contact
      <3>1. Holds(w, call[w].row)
        BY <1>1, <1>5, <1>13, <2>1, <2>3 DEF Holds, Status
      <3>2. outbox[call[w].row].contact = call[w].contact \/ outbox[call[w].row].contact \in uneven
        BY <1>13, <3>1 DEF CallsLink
      <3> QED
        BY <1>3, <1>5, <1>7, <2>1, <2>3, <3>2
    <2> QED
      BY <2>2, <2>3
  <1>14. CallsLink'
    BY <1>1, <1>13 DEF CallsLink, LeadRows
  <1> QED
    BY <1>10, <1>12, <1>14

LEMMA AnnounceHistory ==
  ASSUME BaseInv, HistoryInv, CrmAssumption, NEW c \in Contacts, NEW l \in Leads, Announce(c, l)
  PROVE  HistoryInv'
  <1> USE DEF BaseInv, HistoryInv
  <1>1. /\ UNCHANGED <<into, outbox, stored, call, overlapped, uneven>>
        /\ lead' = [lead EXCEPT ![c] = l] /\ c \notin Present
    BY DEF Announce, Present
  <1>2. \A d \in Contacts : lead'[d] = IF d = c THEN l ELSE lead[d]
    BY <1>1 DEF TypeOK
  <1>3. /\ \A m \in Messages : stored[m] # c
        /\ \A w \in Workers : call[w] # NoCall => call[w].contact # c /\ call[w].contact \in Contacts
        /\ l # Nobody
    BY <1>1, CrmAssumption DEF PresentInv, PresentOrNobody, ProgressInv, Busy, Present, CrmAssumption
  <1>4. MessagesQueued'
    <2>1. ASSUME NEW m \in Messages, stored[m] # Nobody
          PROVE  \/ History(m) \in DOMAIN outbox
                 \/ lead'[stored[m]] = Nobody /\ \E r \in Rows : Stands(r, stored[m])'
                 \/ m \in overlapped \/ stored[m] \in uneven
      <3>1. stored[m] \in Contacts
        BY <2>1 DEF TypeOK
      <3>2. lead'[stored[m]] = lead[stored[m]]
        BY <1>2, <1>3, <3>1
      <3>3. \A r : Stands(r, stored[m]) => Stands(r, stored[m])'
        BY <1>1 DEF Stands
      <3> QED
        BY <2>1, <3>2, <3>3 DEF MessagesQueued
    <2> QED
      BY <1>1, <2>1 DEF MessagesQueued, Rows, LeadRows, MergeRows, HistoryRows, Pairs
  <1>5. BootstrapsStand'
    BY <1>1, <1>2, <1>3 DEF BootstrapsStand, Stands, Exists
  <1>6. CallsLink'
    BY <1>1, <1>2, <1>3 DEF CallsLink, Holds, Status
  <1> QED
    BY <1>4, <1>5, <1>6

LEMMA ClaimHistory ==
  ASSUME BaseInv, HistoryInv, CrmAssumption, NEW w \in Workers, NEW r \in DOMAIN outbox, Claim(w, r)
  PROVE  HistoryInv'
  <1> USE DEF BaseInv, HistoryInv
  <1>1. /\ Steps(w)
        /\ \/ call'[w] = NoCall
           \/ /\ call'[w] # NoCall /\ call'[w].row = r
              /\ call'[w].contact = outbox[r].contact
              /\ call'[w].lead = lead[outbox[r].contact]
    BY ClaimSteps
  <1>2. /\ Turns
        /\ \A x \in DOMAIN outbox : x # r => outbox'[x] = outbox[x]
        /\ outbox'[r].holder = w \/ outbox'[r].status = "FAILED"
    BY ClaimTurns
  <1>3. /\ UNCHANGED <<into, lead, stored, overlapped, uneven>>
        /\ \A v \in Workers : v # w => call'[v] = call[v]
    BY <1>1 DEF Steps, contactVars, historyVars
  <1>4. MessagesQueued' /\ BootstrapsStand'
    BY <1>2, <1>3, HistoryStays DEF Turns
  <1>5. ASSUME NEW v \in Workers, call'[v] # NoCall, call'[v].row \in LeadRows
        PROVE  /\ call'[v].lead # Nobody => lead'[call'[v].contact] # Nobody \/ call'[v].contact \in uneven'
               /\ Holds(v, call[v].row)' => \/ outbox'[call'[v].row].contact = call'[v].contact
                                            \/ outbox'[call'[v].row].contact \in uneven'
    <2>1. CASE v = w
      BY <1>1, <1>2, <1>3, <1>5, <2>1 DEF Turns
    <2>2. CASE v # w
      <3>1. call'[v] = call[v] /\ call[v].row \in DOMAIN outbox
        BY <1>3, <1>5, <2>2 DEF ProgressInv, Busy
      <3>2. Holds(v, call[v].row)' => Holds(v, call[v].row)
        BY <1>2, <2>2, <3>1 DEF Holds, Status
      <3> QED
        BY <1>2, <1>3, <1>5, <3>1, <3>2 DEF CallsLink, Turns
    <2> QED
      BY <2>1, <2>2
  <1>6. CallsLink'
    BY <1>5 DEF CallsLink, LeadRows
  <1> QED
    BY <1>4, <1>6

LEMMA FinishSuccessHistory ==
  ASSUME BaseInv, HistoryInv, CrmAssumption, NEW w \in Workers, FinishSuccess(w)
  PROVE  HistoryInv'
  <1> USE DEF BaseInv, HistoryInv
  <1> DEFINE r0 == call[w].row
             c0 == call[w].contact
             l == call[w].answer
             links == CarriesLead(r0) /\ l # Nobody
  <1>1. Finishes(w) /\ call[w] # NoCall /\ Busy(w)
    BY FinishRows
  <1>2. /\ r0 \in DOMAIN done /\ r0 \in DOMAIN outbox /\ l = done[r0] /\ c0 \in Contacts
        /\ r0 \in LeadRows => links
    BY <1>1 DEF Busy, Present, FinishSuccess, ProgressInv, DoneInv, CarriesLead
  <1>3. /\ call'[w] = NoCall /\ \A v \in Workers : v # w => call'[v] = call[v]
        /\ DOMAIN outbox' = DOMAIN outbox \cup (IF Linking(w) THEN Backfill(w) ELSE {})
        /\ \A c \in Contacts : Bootstrap(c) \in DOMAIN outbox' => Bootstrap(c) \in DOMAIN outbox
    BY FinishSuccessBase, RowNames, RowKinds
  <1>4. /\ UNCHANGED <<into, stored, overlapped>>
        /\ lead' = IF links THEN [lead EXCEPT ![c0] = l] ELSE lead
        /\ uneven \subseteq uneven'
        /\ r0 \in MergeRows /\ links /\ lead[c0] = Nobody => c0 \in uneven'
    BY DEF FinishSuccess
  <1>5. \A c \in Contacts : lead'[c] = IF links /\ c = c0 THEN l ELSE lead[c]
    BY <1>2, <1>4 DEF TypeOK
  <1>6. ASSUME NEW r \in DOMAIN outbox
        PROVE  /\ r \in DOMAIN outbox' /\ outbox'[r].contact = outbox[r].contact
               /\ outbox'[r] = outbox[r] \/ (r = r0 /\ Holds(w, r0) /\ outbox'[r].holder = Nobody)
    BY <1>1 DEF Finishes
  <1>7. ASSUME NEW r \in Rows, NEW c \in Contacts, Stands(r, c), lead'[c] = Nobody, c \notin uneven
        PROVE  Stands(r, c)'
    <2>1. CASE outbox'[r] = outbox[r]
      BY <1>6, <1>7, <2>1 DEF Stands
    <2>2. CASE r = r0 /\ Holds(w, r0)
      <3>1. c = c0
        BY <1>1, <1>7, <2>2 DEF CallsLink, Stands
      <3> QED
        BY <1>2, <1>5, <1>7, <2>2, <3>1 DEF Stands
    <2> QED
      BY <1>6, <1>7, <2>1, <2>2 DEF Stands
  <1>8. ASSUME NEW m \in Messages, stored'[m] # Nobody
        PROVE  \/ History(m) \in DOMAIN outbox'
               \/ lead'[stored'[m]] = Nobody /\ \E r \in Rows : Stands(r, stored[m])'
               \/ m \in overlapped' \/ stored'[m] \in uneven'
    <2>1. stored'[m] = stored[m] /\ stored[m] # Nobody /\ stored[m] \in Contacts
      BY <1>4, <1>8 DEF TypeOK
    <2>2. CASE History(m) \in DOMAIN outbox \/ m \in overlapped \/ stored[m] \in uneven
      BY <1>3, <1>4, <2>1, <2>2
    <2>3. CASE lead[stored[m]] = Nobody /\ stored[m] \notin uneven /\ \E r \in Rows : Stands(r, stored[m])
      <3>1. PICK r \in Rows : Stands(r, stored[m])
        BY <2>3
      <3>2. CASE lead'[stored[m]] = Nobody
        <4>1. \A c \in Contacts : c = stored[m] => Stands(r, c)'
          BY <1>7, <2>3, <3>1, <3>2
        <4>2. Stands(r, stored[m])'
          BY <2>1, <4>1 DEF Stands
        <4> QED
          BY <2>1, <3>2, <4>2
      <3>3. CASE lead'[stored[m]] # Nobody
        <4>1. stored[m] = c0 /\ links
          BY <1>5, <2>1, <2>3, <3>3
        <4>2. CASE r0 \in MergeRows
          BY <1>4, <2>1, <2>3, <4>1, <4>2
        <4>3. CASE r0 \in LeadRows
          <5>1. call[w].lead = Nobody
            BY <1>1, <2>3, <4>1, <4>3 DEF CallsLink
          <5>2. History(m) \in Backfill(w)
            BY <4>1 DEF Backfill
          <5> QED
            BY <1>3, <4>3, <5>1, <5>2 DEF Linking
        <4> QED
          BY <4>1, <4>2, <4>3 DEF CarriesLead
      <3> QED
        BY <3>2, <3>3
    <2> QED
      BY <2>1, <2>2, <2>3 DEF MessagesQueued
  <1>9. MessagesQueued'
    BY <1>8 DEF MessagesQueued, Rows, LeadRows, MergeRows, HistoryRows, Pairs
  <1>10. BootstrapsStand'
    <2>1. ASSUME NEW c \in Contacts, Bootstrap(c) \in DOMAIN outbox', into'[c] = Nobody, lead'[c] = Nobody,
                 c \notin uneven'
          PROVE  Stands(Bootstrap(c), c)'
      <3>1. Bootstrap(c) \in Rows
        BY RowNames DEF Rows
      <3>2. Bootstrap(c) \in DOMAIN outbox /\ lead[c] = Nobody /\ c \notin uneven
        BY <1>3, <1>4, <1>5, <2>1
      <3>3. Stands(Bootstrap(c), c)
        BY <1>4, <2>1, <3>2 DEF BootstrapsStand, Exists
      <3> QED
        BY <1>7, <2>1, <3>1, <3>2, <3>3
    <2> QED
      BY <2>1 DEF BootstrapsStand, Exists
  <1>11. ASSUME NEW v \in Workers, call'[v] # NoCall, call'[v].row \in LeadRows
         PROVE  /\ call'[v].lead # Nobody => lead'[call'[v].contact] # Nobody \/ call'[v].contact \in uneven'
                /\ Holds(v, call[v].row)' => \/ outbox'[call'[v].row].contact = call'[v].contact
                                             \/ outbox'[call'[v].row].contact \in uneven'
    <2>1. v # w /\ call'[v] = call[v]
      BY <1>3, <1>11
    <2>2. call[v].row \in DOMAIN outbox /\ call[v].contact \in Contacts
      BY <1>11, <2>1 DEF ProgressInv, Busy, Present
    <2>3. Holds(v, call[v].row)' => Holds(v, call[v].row)
      BY <1>6, <2>1, <2>2, CrmAssumption DEF Holds, Status, CrmAssumption
    <2> QED
      BY <1>4, <1>5, <1>6, <1>11, <2>1, <2>2, <2>3 DEF CallsLink
  <1>12. CallsLink'
    BY <1>11 DEF CallsLink, LeadRows
  <1> QED
    BY <1>9, <1>10, <1>12

LEMMA HistoryStep ==
  ASSUME BaseInv, KinInv, HistoryInv, CrmAssumption, [Next]_vars
  PROVE  HistoryInv'
  <1> USE DEF BaseInv
  <1>1. ASSUME UNCHANGED <<into, lead, stored, overlapped, uneven, call>>,
               outbox' = outbox \/ (Turns /\ Frees)
        PROVE  HistoryInv'
    <2>1. CASE outbox' = outbox
      <3>1. Frees
        BY <2>1 DEF Frees, Holds, Status
      <3> QED
        BY <1>1, <2>1, <3>1, HistoryStays
    <2>2. CASE Turns /\ Frees
      BY <1>1, <2>2, HistoryStays DEF Turns
    <2> QED
      BY <1>1, <2>1, <2>2
  <1>2. CASE UNCHANGED vars
    BY <1>1, <1>2 DEF vars, contactVars, historyVars
  <1>3. ASSUME NEW m \in Messages, ReadSender(m) PROVE HistoryInv'
    BY <1>1, <1>3 DEF ReadSender, contactVars, historyVars
  <1>4. ASSUME NEW q \in Requests, Asks(q) PROVE HistoryInv'
    <2>1. PICK r : Takes(q, r)
      BY <1>4 DEF Asks
    <2> QED
      BY <1>1, <2>1 DEF Takes, contactVars, historyVars
  <1>5. ASSUME NEW q \in Requests, Writes(q) PROVE HistoryInv'
    <2>1. CASE Drops(q)
      BY <1>1, <2>1 DEF Drops, contactVars, historyVars
    <2>2. CASE Revives(q) /\ (outbox' = outbox \/ outbox' = WithNew({Sync(req[q].to)}, req[q].to))
      <3>1. UNCHANGED <<into, lead, stored, overlapped, uneven, call>> /\ req[q].to \in Contacts
        BY <2>2 DEF Revives, historyVars, Present
      <3>2. CASE outbox' = WithNew({Sync(req[q].to)}, req[q].to)
        <4>1. Sync(req[q].to) \in Rows
          BY <3>1, RowNames DEF Rows
        <4>2. /\ Adds({Sync(req[q].to)}, req[q].to)
              /\ DOMAIN outbox' = DOMAIN outbox \cup {Sync(req[q].to)}
          BY <3>1, <3>2, <4>1, WithNewAdds
        <4>3. Frees
          BY <4>2 DEF Frees, Adds, Holds, Status
        <4>4. \A c \in Contacts : Bootstrap(c) \in DOMAIN outbox' => Bootstrap(c) \in DOMAIN outbox
          BY <3>1, <4>2, RowNames
        <4> QED
          BY <3>1, <4>2, <4>3, <4>4, HistoryStays DEF Adds
      <3> QED
        BY <1>1, <2>2, <3>1, <3>2
    <2> QED
      BY <1>5, <2>1, <2>2, JoinsHistory DEF Writes
  <1>6. ASSUME NEW r \in DOMAIN outbox, OperatorRetry(r) PROVE HistoryInv'
    BY <1>1, <1>6, OperatorRetryTurns DEF OperatorRetry, contactVars, historyVars
  <1>7. ASSUME NEW w \in Workers, Scans(w) PROVE HistoryInv'
    <2>1. CASE Refuses(w) \/ FinishFails(w) \/ Crash(w)
      <3>1. Steps(w) /\ call'[w] = NoCall /\ Frees
        BY <2>1, RefusesSteps
      <3>2. UNCHANGED <<into, lead, stored, overlapped, uneven>> /\ Turns
            /\ \A v \in Workers : v # w => call'[v] = call[v]
        BY <3>1 DEF Steps, contactVars, historyVars
      <3> QED
        BY <3>1, <3>2, HistoryStays DEF Turns
    <2>2. ASSUME NEW l \in LeadOrNobody, Answering(w, l) PROVE HistoryInv'
      <3>1. UNCHANGED <<into, lead, stored, overlapped, uneven>> /\ Turns /\ Frees /\ call[w] # NoCall
        BY <2>2 DEF Answering, contactVars, historyVars, NoCall
      <3>2. /\ \A v \in Workers : v # w => call'[v] = call[v]
            /\ \/ call'[w] = NoCall
               \/ call'[w].row = call[w].row /\ call'[w].contact = call[w].contact
                  /\ call'[w].lead = call[w].lead
        BY <2>2, AnswersBase
      <3> QED
        BY <3>1, <3>2, HistoryStays DEF Turns
    <2> QED
      BY <1>7, <2>1, <2>2, ClaimHistory, FinishSuccessHistory DEF Scans
  <1> QED
    BY <1>2, <1>3, <1>4, <1>5, <1>6, <1>7, NextCases, StoreMessageHistory, AnnounceHistory

LEMMA HistoryInit ==
  ASSUME Init, CrmAssumption
  PROVE  HistoryInv
  BY DEF Init, HistoryInv, MessagesQueued, BootstrapsStand, CallsLink, Exists

LEMMA HistoryInvQueues ==
  ASSUME HistoryInv
  PROVE  HistoryIsQueued
  BY DEF HistoryInv, MessagesQueued, HistoryIsQueued, StillLinks, Stands, Unsettled, Exists, Status
-----------------------------------------------------------------------------
(* Contacts merged away in peace stay so while they gain nothing. *)
LEMMA LeftStays ==
  ASSUME LeftInv, UNCHANGED <<into, disturbed>>,
         \A c \in Contacts : contact'[c] = "MERGED" => contact[c] = "MERGED",
         \A c \in Contacts : contact[c] = "MERGED" /\ Untouched(c) => Untouched(c)'
  PROVE  LeftInv'
  BY DEF LeftInv

LEMMA StoreMessageLeft ==
  ASSUME BaseInv, LeftInv, CrmAssumption, NEW m \in Messages, StoreMessage(m)
  PROVE  LeftInv'
  <1> USE DEF BaseInv
  <1> DEFINE c == reading[m].contact
  <1>1. /\ stored' = [stored EXCEPT ![m] = c] /\ reading' = [reading EXCEPT ![m] = NoTx]
        /\ UNCHANGED <<contact, into, owner, req, disturbed>> /\ reading[m] # NoTx
    BY DEF StoreMessage, contactVars
  <1>2. Adds({Intent(m)}, c) /\ c \in Contacts /\ NewRow(c).contact = c
    BY <1>1, StoreMessageBase, IntentRow, NewRowTyped
  <1>3. ASSUME NEW d \in Contacts, Untouched(d) PROVE Untouched(d)'
    <2>1. d # c
      BY <1>3 DEF Untouched
    <2>2. \A n \in Messages : stored'[n] # d /\ reading'[n].contact # d
      BY <1>1, <1>3, <2>1, CrmAssumption DEF Untouched, HasNothing, NoTx, TypeOK, CrmAssumption
    <2>3. \A r \in DOMAIN outbox' : outbox'[r].contact # d
      BY <1>2, <1>3, <2>1 DEF Untouched, HasNothing, Adds
    <2>4. (\A i \in Known : owner'[i] # d)
          /\ \A q \in Requests : req'[q].kind # "plan" =>
                req'[q].to # d /\ (req'[q].from = d => req'[q].kind = "repair")
      BY <1>1, <1>3 DEF Untouched, HasNothing
    <2> QED
      BY <2>2, <2>3, <2>4 DEF Untouched, HasNothing
  <1> QED
    BY <1>1, <1>3, LeftStays

LEMMA AsksLeft ==
  ASSUME BaseInv, LeftInv, CrmAssumption, NEW q \in Requests, Asks(q)
  PROVE  LeftInv'
  <1> USE DEF BaseInv
  <1>1. PICK r \in Takings : Takes(q, r)
    BY DEF Asks
  <1>2. \A c \in Contacts : contact[c] = "MERGED" /\ r.kind # "plan" =>
           r.to # c /\ (r.from = c => r.kind = "repair")
    BY <1>1 DEF Takings
  <1>3. req'[q] = r /\ \A o \in Requests : o # q => req'[o] = req[o]
    BY <1>1 DEF Takes, TypeOK
  <1>4. UNCHANGED <<contact, into, owner, stored, outbox, reading, disturbed>>
    BY <1>1 DEF Takes, contactVars, historyVars
  <1>5. \A c \in Contacts : contact[c] = "MERGED" /\ Untouched(c) => Untouched(c)'
    BY <1>2, <1>3, <1>4 DEF Untouched, HasNothing
  <1> QED
    BY <1>4, <1>5, LeftStays

(* A merge or a repair takes all that the contact has; it is disturbed if somebody
   else has read it. *)
LEMMA JoinsLeft ==
  ASSUME BaseInv, LeftInv, CrmAssumption, NEW q \in Requests, NEW row, Joins(q, row),
         disturbed' \subseteq Contacts,
         disturbed \ {req[q].from} \subseteq disturbed',
         into[req[q].to] # Nobody => req[q].to \in disturbed',
         req[q].from \in disturbed' \/ ~Awaited(req[q].from, q)
            \/ (contact[req[q].from] = "MERGED" /\ req[q].from \notin disturbed)
            \/ contact'[req[q].from] # "MERGED"
  PROVE  LeftInv'
  <1> USE DEF BaseInv
  <1> DEFINE p == req[q].to
             s == req[q].from
  <1>1. /\ p \in Contacts /\ s \in Contacts /\ p # s
        /\ into' = [into EXCEPT ![s] = p] /\ UNCHANGED reading
    BY JoinsTells
  <1>2. /\ Moves(p, s, row) /\ req'[q] = NoReq /\ \A o \in Requests : o # q => req'[o] = req[o]
    BY JoinsBase
  <1>3. /\ owner' = [i \in Known |-> IF owner[i] = s THEN p ELSE owner[i]]
        /\ stored' = [m \in Messages |-> IF stored[m] = s THEN p ELSE stored[m]]
        /\ contact' \in {contact, [contact EXCEPT ![s] = "MERGED"]}
    BY DEF Joins, Join
  <1>4. \A r \in DOMAIN outbox' :
           outbox'[r].contact = p \/ (r \in DOMAIN outbox /\ outbox[r].contact # s
                                      /\ outbox'[r].contact = outbox[r].contact)
    BY <1>2 DEF Moves
  <1>5. \A o \in Requests : \A c \in Contacts :
           /\ req'[o].to = c => o # q /\ req[o].to = c /\ req'[o].kind = req[o].kind
           /\ req'[o].from = c => o # q /\ req[o].from = c /\ req'[o].kind = req[o].kind
    BY <1>2, CrmAssumption DEF NoReq, CrmAssumption
  <1>10. req[q].kind # "plan"
    BY DEF Joins
  <1>6. \A c \in Contacts : c = s => HasNothing(c)'
    BY <1>1, <1>3, <1>4 DEF HasNothing
  <1>7. ASSUME NEW c \in Contacts, contact'[c] = "MERGED", c \notin disturbed' PROVE Untouched(c)'
    <2>1. CASE c # s
      <3>1. contact[c] = "MERGED" /\ c \notin disturbed
        BY <1>3, <1>7, <2>1 DEF TypeOK
      <3>2. Untouched(c)
        BY <3>1 DEF LeftInv
      <3>3. c # p
        BY <3>2, <1>10 DEF Untouched
      <3>4. HasNothing(c)'
        BY <1>3, <1>4, <3>2, <3>3 DEF Untouched, HasNothing
      <3> QED
        BY <1>1, <1>5, <3>2, <3>4 DEF Untouched
    <2>2. CASE c = s /\ ~Awaited(s, q)
      <3>1. /\ \A m \in Messages : reading[m].contact # s
            /\ \A o \in Requests : o # q /\ req[o].kind # "plan" => req[o].to # s /\ req[o].from # s
        BY <2>2 DEF Awaited
      <3> QED
        BY <1>1, <1>5, <1>6, <2>2, <3>1 DEF Untouched
    <2>3. CASE c = s /\ contact[s] = "MERGED" /\ s \notin disturbed
      <3>1. Untouched(s)
        BY <1>1, <2>3 DEF LeftInv
      <3> QED
        BY <1>1, <1>5, <1>6, <2>3, <3>1 DEF Untouched
    <2> QED
      BY <1>7, <2>1, <2>2, <2>3
  <1>8. ASSUME NEW cs \in SUBSET Contacts, cs # {}, \A c \in cs : into'[c] \in cs
        PROVE  cs \cap disturbed' # {}
    <2>1. \A c \in Contacts : into'[c] = IF c = s THEN p ELSE into[c]
      BY <1>1 DEF TypeOK
    <2>2. CASE s \in cs
      <3>1. p \in cs /\ into[p] \in cs
        BY <1>1, <1>8, <2>1, <2>2
      <3>2. into[p] # Nobody
        BY <3>1, CrmAssumption DEF CrmAssumption
      <3> QED
        BY <3>1, <3>2
    <2>3. CASE s \notin cs
      <3>1. cs \cap disturbed # {}
        BY <1>8, <2>1, <2>3 DEF LeftInv
      <3> QED
        BY <2>3, <3>1
    <2> QED
      BY <2>2, <2>3
  <1> QED
    BY <1>7, <1>8 DEF LeftInv

LEMMA WritesLeft ==
  ASSUME BaseInv, LeftInv, CrmAssumption, NEW q \in Requests, Writes(q)
  PROVE  LeftInv'
  <1> USE DEF BaseInv
  <1>1. CASE Drops(q)
    <2>1. /\ UNCHANGED <<contact, into, owner, stored, outbox, reading, disturbed>>
          /\ \A o \in Requests : req'[o] = NoReq \/ req'[o] = req[o]
      BY <1>1 DEF Drops, Answered, contactVars, historyVars, TypeOK
    <2>2. Nobody \notin Contacts /\ NoReq.to = Nobody /\ NoReq.from = Nobody
      BY CrmAssumption DEF CrmAssumption, NoReq
    <2>3. ASSUME NEW c \in Contacts, Untouched(c) PROVE Untouched(c)'
      <3>1. HasNothing(c)'
        BY <2>1, <2>3 DEF Untouched, HasNothing
      <3>2. \A o \in Requests : req'[o].kind # "plan" =>
               req'[o].to # c /\ (req'[o].from = c => req'[o].kind = "repair")
        BY <2>1, <2>2, <2>3 DEF Untouched
      <3> QED
        BY <2>1, <2>3, <3>1, <3>2 DEF Untouched
    <2> QED
      BY <2>1, <2>3, LeftStays
  <1>2. CASE Merge(q) /\ Joins(q, MergeOf(req[q].to, req[q].from)) /\ disturbed' \subseteq Contacts
             /\ ~Exists(MergeOf(req[q].to, req[q].from))
    <2>1. disturbed' = disturbed \cup (IF Awaited(req[q].from, q) THEN {req[q].from} ELSE {})
                                 \cup (IF into[req[q].to] # Nobody THEN {req[q].to} ELSE {})
      BY <1>2 DEF Merge
    <2> QED
      BY <1>2, <2>1, JoinsLeft
  <1>3. CASE Repair(q) /\ Joins(q, RepairOf(req[q].to, req[q].from)) /\ disturbed' \subseteq Contacts
    <2>1. disturbed' = (IF Awaited(req[q].from, q) THEN disturbed ELSE disturbed \ {req[q].from})
                       \cup (IF into[req[q].to] # Nobody THEN {req[q].to} ELSE {})
      BY <1>3 DEF Repair
    <2>2. contact' = contact
      BY <1>3 DEF Repair
    <2>3. CASE contact[req[q].from] = "MERGED" \/ req[q].from \in disturbed \/ ~Awaited(req[q].from, q)
      BY <1>3, <2>1, <2>3, JoinsLeft
    <2>4. CASE contact[req[q].from] # "MERGED"
      BY <1>3, <2>1, <2>2, <2>4, JoinsLeft
    <2> QED
      BY <2>3, <2>4
  <1>4. CASE Revives(q) /\ (outbox' = outbox \/ outbox' = WithNew({Sync(req[q].to)}, req[q].to))
    <2> DEFINE d == req[q].to
    <2>1. /\ UNCHANGED <<into, owner, stored, reading, disturbed>> /\ d \in Contacts
          /\ \A c \in Contacts : contact'[c] = "MERGED" => contact[c] = "MERGED"
      BY <1>4 DEF Revives, historyVars, Present, TypeOK
    <2>2. \A o \in Requests : req'[o] = NoReq \/ req'[o] = req[o]
      BY <1>4, RevivesBase
    <2>3. \A r \in DOMAIN outbox' :
             outbox'[r].contact = d \/ (r \in DOMAIN outbox /\ outbox'[r].contact = outbox[r].contact)
      <3>1. CASE outbox' = outbox
        BY <3>1
      <3>2. CASE outbox' = WithNew({Sync(d)}, d)
        <4>1. Sync(d) \in Rows /\ NewRow(d).contact = d
          BY <2>1, RowNames, NewRowTyped DEF Rows
        <4>2. Adds({Sync(d)}, d) /\ DOMAIN outbox' = DOMAIN outbox \cup {Sync(d)}
          BY <2>1, <3>2, <4>1, WithNewAdds
        <4> QED
          BY <4>1, <4>2 DEF Adds
      <3> QED
        BY <1>4, <3>1, <3>2
    <2>4. /\ Nobody \notin Contacts /\ NoReq.to = Nobody /\ NoReq.from = Nobody
          /\ req[q].kind # "plan"
      BY <1>4, CrmAssumption DEF CrmAssumption, NoReq, Revives
    <2>5. ASSUME NEW c \in Contacts, Untouched(c) PROVE Untouched(c)'
      <3>1. c # d
        BY <2>4, <2>5 DEF Untouched
      <3>2. HasNothing(c)'
        BY <2>1, <2>3, <2>5, <3>1 DEF Untouched, HasNothing
      <3>3. \A o \in Requests : req'[o].kind # "plan" =>
               req'[o].to # c /\ (req'[o].from = c => req'[o].kind = "repair")
        BY <2>2, <2>4, <2>5 DEF Untouched
      <3> QED
        BY <2>1, <2>5, <3>2, <3>3 DEF Untouched
    <2> QED
      BY <2>1, <2>5, LeftStays
  <1>5. CASE Merge(q) /\ Exists(MergeOf(req[q].to, req[q].from))
    BY <1>1, <1>5, MergeSplits
  <1> QED
    BY <1>1, <1>2, <1>3, <1>4, <1>5 DEF Writes

LEMMA LeftStep ==
  ASSUME BaseInv, KinInv, LeftInv, CrmAssumption, [Next]_vars
  PROVE  LeftInv'
  <1> USE DEF BaseInv
  <1>1. ASSUME UNCHANGED <<contact, into, owner, stored, reading, req, disturbed>>,
               outbox' = outbox \/ Turns
        PROVE  LeftInv'
    <2>1. \A c \in Contacts : Untouched(c) => Untouched(c)'
      BY <1>1 DEF Untouched, HasNothing, Turns
    <2> QED
      BY <1>1, <2>1, LeftStays
  <1>2. CASE UNCHANGED vars
    BY <1>1, <1>2 DEF vars, contactVars, historyVars
  <1>3. ASSUME NEW m \in Messages, ReadSender(m) PROVE LeftInv'
    <2>1. /\ UNCHANGED <<contact, into, owner, stored, outbox, req, disturbed>>
          /\ reading' = [reading EXCEPT ![m] = [contact |-> owner[Sender[m]],
                                                linked |-> lead[owner[Sender[m]]] # Nobody]]
      BY <1>3 DEF ReadSender, contactVars, historyVars
    <2>2. \A n \in Messages : reading'[n] = reading[n] \/ reading'[n].contact = owner[Sender[m]]
      BY <2>1 DEF TypeOK
    <2>3. Sender[m] \in Known
      BY CrmAssumption DEF CrmAssumption
    <2>4. \A c \in Contacts : Untouched(c) => Untouched(c)'
      BY <2>1, <2>2, <2>3 DEF Untouched, HasNothing
    <2> QED
      BY <2>1, <2>4, LeftStays
  <1>4. ASSUME NEW c \in Contacts, NEW l \in Leads, Announce(c, l) PROVE LeftInv'
    <2>1. /\ UNCHANGED <<into, owner, stored, outbox, reading, req, disturbed>>
          /\ contact' = [contact EXCEPT ![c] = "ACTIVE"]
      BY <1>4 DEF Announce
    <2>2. \A d \in Contacts : contact'[d] = "MERGED" => contact[d] = "MERGED"
      BY <2>1 DEF TypeOK
    <2>3. \A d \in Contacts : Untouched(d) => Untouched(d)'
      BY <2>1 DEF Untouched, HasNothing
    <2> QED
      BY <2>1, <2>2, <2>3, LeftStays
  <1>5. ASSUME NEW r \in DOMAIN outbox, OperatorRetry(r) PROVE LeftInv'
    BY <1>1, <1>5, OperatorRetryTurns DEF OperatorRetry, contactVars, historyVars
  <1>6. ASSUME NEW w \in Workers, Scans(w) PROVE LeftInv'
    <2>1. CASE Steps(w)
      BY <1>1, <2>1 DEF Steps, contactVars, historyVars
    <2>2. ASSUME NEW l \in LeadOrNobody, Answering(w, l) PROVE LeftInv'
      BY <1>1, <2>2 DEF Answering, contactVars, historyVars
    <2>3. CASE FinishSuccess(w)
      <3>1. UNCHANGED <<contact, into, owner, stored, reading, req, disturbed>>
        BY <2>3 DEF FinishSuccess
      <3>2. /\ \A r \in DOMAIN outbox : outbox'[r].contact = outbox[r].contact
            /\ \A r \in DOMAIN outbox' \ DOMAIN outbox :
                  r \in Backfill(w) /\ outbox'[r].contact = call[w].contact
        BY <2>3, FinishRows, FinishSuccessBase DEF Finishes
      <3>3. \A r \in Backfill(w) : \E m \in Messages : stored[m] = call[w].contact
        BY DEF Backfill
      <3>4. \A c \in Contacts : Untouched(c) => Untouched(c)'
        BY <3>1, <3>2, <3>3 DEF Untouched, HasNothing
      <3> QED
        BY <3>1, <3>4, LeftStays
    <2> QED
      BY <1>6, <2>1, <2>2, <2>3, ClaimSteps, RefusesSteps DEF Scans
  <1> QED
    BY <1>2, <1>3, <1>4, <1>5, <1>6, NextCases, StoreMessageLeft, AsksLeft, WritesLeft

LEMMA LeftInit ==
  ASSUME Init, CrmAssumption
  PROVE  LeftInv
  <1>1. \A c \in Contacts : contact[c] # "MERGED" /\ into[c] = Nobody
    BY DEF Init
  <1>2. \A cs \in SUBSET Contacts : Nobody \notin cs
    BY DEF CrmAssumption
  <1> QED
    BY <1>1, <1>2 DEF LeftInv

(* What mergedIntoContactId leads to from a contact either ends somewhere or is
   closed, and then holds a disturbed contact. *)
LEMMA LeftInvLeaves ==
  ASSUME BaseInv, LeftInv, CrmAssumption
  PROVE  NothingLeftBehind
  <1> SUFFICES ASSUME NEW c \in Contacts, contact[c] = "MERGED"
               PROVE  /\ HasNothing(c) \/ c \in disturbed
                      /\ Primary(c) # Nobody \/ Way(c) \cap disturbed # {}
    BY DEF NothingLeftBehind
  <1>1. HasNothing(c) \/ c \in disturbed
    BY DEF LeftInv, Untouched
  <1>2. CASE Ends(c) # {}
    <2>1. Primary(c) \in Ends(c)
      BY <1>2 DEF Primary
    <2>2. Primary(c) \in Contacts
      BY <2>1 DEF Ends, Way
    <2> QED
      BY <1>1, <2>2 DEF CrmAssumption
  <1>3. CASE Ends(c) = {}
    <2>1. c \in Way(c) /\ Way(c) \in SUBSET Contacts
      BY DEF Way
    <2>2. ASSUME NEW d \in Way(c) PROVE into[d] \in Way(c)
      <3>1. d \in Contacts /\ into[d] # Nobody
        BY <1>3, <2>2 DEF Ends, Way
      <3>2. into[d] \in Contacts
        BY <3>1 DEF BaseInv, TypeOK
      <3>3. ASSUME NEW cs \in SUBSET Contacts, c \in cs, Closed(cs) PROVE into[d] \in cs
        <4>1. d \in cs
          BY <2>2, <3>3 DEF Way
        <4> QED
          BY <3>1, <3>3, <4>1 DEF Closed
      <3> QED
        BY <3>2, <3>3 DEF Way
    <2>3. Way(c) \cap disturbed # {}
      BY <2>1, <2>2 DEF LeftInv
    <2> QED
      BY <1>1, <2>3
  <1> QED
    BY <1>2, <1>3
-----------------------------------------------------------------------------
LEMMA InvInit ==
  ASSUME Init, CrmAssumption
  PROVE  BaseInv /\ KinInv /\ LeadInv /\ DeadInv /\ HistoryInv /\ LeftInv
  BY BaseInit, KinInit, LeadInit, DeadInit, HistoryInit, LeftInit

LEMMA InvStep ==
  ASSUME BaseInv, KinInv, LeadInv, DeadInv, HistoryInv, LeftInv, CrmAssumption, [Next]_vars
  PROVE  BaseInv' /\ KinInv' /\ LeadInv' /\ DeadInv' /\ HistoryInv' /\ LeftInv'
  BY BaseStep, KinStep, LeadStep, DeadStep, HistoryStep, LeftStep

LEMMA InvAlways ==
  Spec => [](BaseInv /\ KinInv /\ LeadInv /\ DeadInv /\ HistoryInv /\ LeftInv)
  BY CrmAssumption, InvInit, InvStep, PTL DEF Spec

(* Every variable keeps its type: requests, calls and rows name contacts and rows
   that are there, whatever merges, crashes and late answers do. *)
THEOREM CrmTypeCorrect == Spec => []TypeOK
  <1>1. BaseInv => TypeOK
    BY DEF BaseInv
  <1> QED
    BY <1>1, InvAlways, PTL

(* No message of an unlinked contact is forgotten: it is queued, or a lead row
   stands that will queue it when the contact gets its lead. *)
THEOREM CrmHistoryIsQueued == Spec => []HistoryIsQueued
  <1>1. HistoryInv => HistoryIsQueued
    BY HistoryInvQueues
  <1> QED
    BY <1>1, InvAlways, PTL

(* A contact in use keeps a removed lead only while the row of the merge that
   removed it stands to replace it. *)
THEOREM CrmDeadLeadIsMended == Spec => []DeadLeadIsMended
  <1>1. DeadInv => DeadLeadIsMended
    BY DeadInvMends
  <1> QED
    BY <1>1, InvAlways, PTL

(* No two contacts in use stand for one lead, but those of doubled kin. *)
THEOREM CrmOneContactPerLead == Spec => []OneContactPerLead
  <1>1. BaseInv /\ KinInv /\ LeadInv => OneContactPerLead
    BY CrmAssumption, LeadInvSeparates
  <1> QED
    BY <1>1, InvAlways, PTL

(* A contact merged away in peace has nothing left, and leads to one that is there. *)
THEOREM CrmNothingLeftBehind == Spec => []NothingLeftBehind
  <1>1. BaseInv /\ LeftInv => NothingLeftBehind
    BY CrmAssumption, LeftInvLeaves
  <1> QED
    BY <1>1, InvAlways, PTL
=============================================================================
