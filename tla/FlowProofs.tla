----------------------------- MODULE FlowProofs -----------------------------
(***************************************************************************)
(* The whole service (TicketFlow), for every set of issues, groups,        *)
(* assignees, requests and workers and for any number of troubles: types,  *)
(* the per-issue lock, that every step of every actor is a call the tables *)
(* allow (so the theorems about the tables hold of the service), that no   *)
(* ticket taken on is lost, and that a pass of the sync worker repairs the *)
(* counters.                                                               *)
(***************************************************************************)
EXTENDS TicketFlow, RepositoryProofs, DeadLetterTableProofs

HandlersFine == HandlerTypeOK /\ OneHandlerPerIssue

\* The Tracker, the configuration and the counters of troubles.
RestTyped ==
  /\ WorldTypeOK
  /\ groups \in SUBSET Groups
  /\ onShift \in SUBSET MemberSlots
  /\ configs \in 0..MaxConfigs
  /\ dbFaults \in 0..MaxDbFaults
  /\ duty \in SUBSET Issues

\* The pending worker deletes by an id the table has given out; the retry worker
\* has a row in hand that may still be retried, for nobody else touches it.
ErrandKnown == ~PAt("idle") => pworker.row.id \in 1..lastPendingId
RetryInHand == ~DAt("idle") => dworker.row \in RowIds /\ Retryable(dworker.row)

\* A row that was ever used holds a call to be retried.
RowsHold == \A n \in RowIds : dlqStatus[n] # "unused" => dlqItem[n] \in DlqItems

FlowInv ==
  /\ LedgerInv /\ PendingInv /\ DlqInv /\ RowsHold /\ RestTyped
  /\ HandlersFine
  /\ PendingWorkerTypeOK /\ ErrandKnown
  /\ DlqWorkerTypeOK /\ RetryInHand
  /\ SyncWorkerTypeOK
  /\ crashes \in 0..MaxCrashes

DlqGrows == UNCHANGED dlqVars \/ \E item \in DlqItems : EnqueueDLQ(item)

\* What each step of a handler is shown to do.
HandlersKeep ==
  /\ [LedgerNext]_ledgerVars /\ [PendingCall]_pendingVars /\ DlqGrows
  /\ RestTyped'
  /\ HandlersFine'

-----------------------------------------------------------------------------
\* A request that is being handled.
LEMMA BusyRequest ==
  ASSUME HandlersFine, NEW h \in Handlers, ~At(h, "idle")
  PROVE  /\ handler[h] \in Requests
         /\ handler[h].m \in Webhook
         /\ Key(h) \in Issues /\ Key(h) \in inFlight
         /\ handler[h].m.from \in People /\ handler[h].m.to \in People
<1>1. handler[h] \in Requests
  BY DEF HandlersFine, HandlerTypeOK, At, Idle
<1>2. handler[h].m \in Webhook
  BY <1>1 DEF Requests
<1> QED
  BY <1>1, <1>2 DEF Webhook, Key, HandlersFine, OneHandlerPerIssue, Busy

\* A request goes on: the same message, a new place.
LEMMA MoveKeeps ==
  ASSUME HandlersFine, NEW h \in Handlers, ~At(h, "idle"),
         NEW r \in Requests, r.m = handler[h].m,
         handler' = [handler EXCEPT ![h] = r],
         inFlight' = inFlight, recent' \in SUBSET Issues
  PROVE  HandlersFine'
<1>1. handler' \in [Handlers -> {Idle} \cup Requests] /\ handler'[h] = r
      /\ \A k \in Handlers \ {h} : handler'[k] = handler[k]
  BY DEF HandlersFine, HandlerTypeOK
<1>2. HandlerTypeOK'
  BY <1>1 DEF HandlersFine, HandlerTypeOK
<1>3. r.at # "idle"
  BY DEF Requests, Labels
<1>4. Busy' = Busy
  BY <1>1, <1>3 DEF Busy, At
<1>5. \A k \in Handlers : Key(k)' = Key(k)
  BY <1>1 DEF Key
<1>6. OneHandlerPerIssue'
  BY <1>4, <1>5 DEF HandlersFine, OneHandlerPerIssue, Busy
<1> QED
  BY <1>2, <1>6 DEF HandlersFine

LEMMA GotoKeeps ==
  ASSUME HandlersFine, NEW h \in Handlers, ~At(h, "idle"),
         NEW l \in Labels, Goto(h, l),
         l \in {"read", "dequeue", "charge"} => handler[h].m.to # NoOne,
         l = "refund" => handler[h].m.from # NoOne,
         l = "enqueue" => Route[Key(h)] \in Groups,
         l \in {"book", "adopt", "assign", "failed", "record"} => handler[h].slot \in Slots,
         inFlight' = inFlight, recent' \in SUBSET Issues
  PROVE  HandlersFine'
<1> DEFINE r == [handler[h] EXCEPT !.at = l]
<1>1. handler[h] \in Requests
  BY BusyRequest
<1>2. r \in Requests /\ r.m = handler[h].m
  BY <1>1 DEF Requests, Key
<1>3. handler' = [handler EXCEPT ![h] = r]
  BY DEF Goto
<1> HIDE DEF r
<1> QED
  BY <1>2, <1>3, MoveKeeps

\* A request ends and gives its key free.
LEMMA ReturnKeeps ==
  ASSUME HandlersFine, NEW h \in Handlers, ~At(h, "idle"),
         handler' = [handler EXCEPT ![h] = Idle],
         inFlight' = inFlight \ {Key(h)}, recent' \in SUBSET Issues
  PROVE  HandlersFine'
<1>1. handler' \in [Handlers -> {Idle} \cup Requests] /\ handler'[h] = Idle
      /\ \A k \in Handlers \ {h} : handler'[k] = handler[k]
  BY DEF HandlersFine, HandlerTypeOK
<1>2. HandlerTypeOK'
  BY <1>1 DEF HandlersFine, HandlerTypeOK
<1>3. Busy' = Busy \ {h}
  BY <1>1 DEF Busy, At, Idle
<1>4. \A k \in Handlers \ {h} : Key(k)' = Key(k)
  BY <1>1 DEF Key
<1>5. h \in Busy
  BY DEF Busy
<1>6. OneHandlerPerIssue'
  BY <1>3, <1>4, <1>5 DEF HandlersFine, OneHandlerPerIssue, Busy
<1> QED
  BY <1>2, <1>6 DEF HandlersFine

\* Nothing but the counters of troubles and the ghost has changed.
LEMMA RestKeeps ==
  ASSUME RestTyped, UNCHANGED <<worldVars, confVars>>,
         dbFaults' \in 0..MaxDbFaults, duty' \in SUBSET Issues
  PROVE  RestTyped'
BY DEF RestTyped, WorldTypeOK, worldVars, confVars

\* The issue gets an assignee and, where the robot is not known, its webhook.
LEMMA SetKeeps ==
  ASSUME RestTyped, NEW i \in Issues, NEW a \in People, MayHaveSet(i, a)
  PROVE  /\ issue' \in [Issues -> [st : {"none", "open", "closed"}, who : People]]
         /\ inbox' \in SUBSET Webhook
<1>1. /\ issue \in [Issues -> [st : {"none", "open", "closed"}, who : People]]
      /\ inbox \in SUBSET Webhook
  BY DEF RestTyped, WorldTypeOK
<1>2. Echo(i, a) \in Webhook
  BY <1>1, WorldAssumption DEF Echo, Webhook
<1> QED
  BY <1>1, <1>2 DEF MayHaveSet, SetAssignee

\* A Tracker call keeps its types, whatever comes of it.
LEMMA CallKeeps ==
  ASSUME RestTyped, NEW i \in Issues, NEW a \in People, NEW outcome \in Outcomes,
         AssigneeCall(i, a, outcome), UNCHANGED <<confVars, dbFaults>>,
         duty' \in SUBSET Issues
  PROVE  RestTyped'
<1>1. /\ issue' \in [Issues -> [st : {"none", "open", "closed"}, who : People]]
      /\ inbox' \in SUBSET Webhook
  BY SetKeeps DEF AssigneeCall, MayHaveSet
<1>2. faults' \in 0..MaxFaults
  BY WorldAssumption DEF AssigneeCall, RestTyped, WorldTypeOK
<1> QED
  BY <1>1, <1>2 DEF AssigneeCall, RestTyped, WorldTypeOK, confVars
-----------------------------------------------------------------------------
\* The handler's ledger steps: one operation of the ledger, or a failed write.
LEMMA LedgerWriteKeeps ==
  ASSUME FlowInv, [LedgerNext]_ledgerVars, dbFaults' \in 0..MaxDbFaults,
         OnlyLedger, UNCHANGED duty, HandlersFine'
  PROVE  HandlersKeep
<1>1. duty' \in SUBSET Issues
  BY DEF FlowInv, RestTyped
<1>2. RestTyped'
  BY <1>1, RestKeeps DEF FlowInv, OnlyLedger
<1> QED
  BY <1>2 DEF HandlersKeep, OnlyLedger, DlqGrows

\* dbFaults after a write, whatever the write is.
LEMMA WriteBounded ==
  ASSUME RestTyped, dbFaults' = dbFaults \/ (dbFaults < MaxDbFaults /\ dbFaults' = dbFaults + 1)
  PROVE  dbFaults' \in 0..MaxDbFaults
BY ServiceAssumption DEF RestTyped

LEMMA ReleaseKeeps ==
  ASSUME FlowInv, NEW h \in Handlers, Release(h)
  PROVE  HandlersKeep
<1>1. ~At(h, "idle") /\ Key(h) \in Issues
  BY BusyRequest DEF FlowInv, Release, At
<1>2. [LedgerNext]_ledgerVars
  BY <1>1 DEF Release, Write, LedgerNext
<1>3. dbFaults' \in 0..MaxDbFaults
  BY WriteBounded DEF FlowInv, Release, Write
<1>4. HandlersFine'
  BY <1>1, GotoKeeps DEF FlowInv, Release, StillInFlight, HandlersFine, HandlerTypeOK, Labels
<1> QED
  BY <1>2, <1>3, <1>4, LedgerWriteKeeps DEF Release

LEMMA ChargeKeeps ==
  ASSUME FlowInv, NEW h \in Handlers, Charge(h)
  PROVE  HandlersKeep
<1>1. ~At(h, "idle") /\ handler[h] \in Requests /\ handler[h].m.to \in Assignees
  BY BusyRequest DEF FlowInv, Charge, At, Requests, People
<1>2. [LedgerNext]_ledgerVars
  BY <1>1 DEF Charge, Write, LedgerNext
<1>3. dbFaults' \in 0..MaxDbFaults
  BY WriteBounded DEF FlowInv, Charge, Write
<1>4. HandlersFine'
  BY <1>1, GotoKeeps DEF FlowInv, Charge, StillInFlight, HandlersFine, HandlerTypeOK, Labels
<1> QED
  BY <1>2, <1>3, <1>4, LedgerWriteKeeps DEF Charge

LEMMA RefundKeeps ==
  ASSUME FlowInv, NEW h \in Handlers, Refund(h)
  PROVE  HandlersKeep
<1>1. ~At(h, "idle") /\ handler[h] \in Requests /\ handler[h].m.from \in Assignees
  BY BusyRequest DEF FlowInv, Refund, At, Requests, People
<1>2. [LedgerNext]_ledgerVars
  BY <1>1 DEF Refund, Write, LedgerNext
<1>3. dbFaults' \in 0..MaxDbFaults
  BY WriteBounded DEF FlowInv, Refund, Write
<1>4. HandlersFine'
  BY <1>1, GotoKeeps DEF FlowInv, Refund, StillInFlight, HandlersFine, HandlerTypeOK, Labels
<1> QED
  BY <1>2, <1>3, <1>4, LedgerWriteKeeps DEF Refund

LEMMA UnassignKeeps ==
  ASSUME FlowInv, NEW h \in Handlers, Unassign(h)
  PROVE  HandlersKeep
<1>1. ~At(h, "idle") /\ Key(h) \in Issues
  BY BusyRequest DEF FlowInv, Unassign, At
<1>2. [LedgerNext]_ledgerVars
  BY <1>1 DEF Unassign, Write, LedgerNext
<1>3. dbFaults' \in 0..MaxDbFaults
  BY WriteBounded DEF FlowInv, Unassign, Write
<1>4. HandlersFine'
  BY <1>1, GotoKeeps DEF FlowInv, Unassign, StillInFlight, HandlersFine, HandlerTypeOK, Labels
<1> QED
  BY <1>2, <1>3, <1>4, LedgerWriteKeeps DEF Unassign

\* At the calls that book a slot the handler has one.
LEMMA BookKeeps ==
  ASSUME FlowInv, NEW h \in Handlers, Book(h)
  PROVE  HandlersKeep
<1>1. ~At(h, "idle") /\ Key(h) \in Issues /\ handler[h].slot \in Slots
  BY BusyRequest DEF FlowInv, Book, At, Requests
<1>2. [LedgerNext]_ledgerVars
  BY <1>1 DEF Book, Write, LedgerNext, Key
<1>3. dbFaults' \in 0..MaxDbFaults
  BY WriteBounded DEF FlowInv, Book, Write
<1>4. (Goto(h, "refund") /\ handler[h].m.from # NoOne) \/ Goto(h, "leave")
  BY DEF Book
<1>5. HandlersFine'
  BY <1>1, <1>4, GotoKeeps DEF FlowInv, Book, StillInFlight, HandlersFine, HandlerTypeOK, Labels
<1> QED
  BY <1>2, <1>3, <1>5, LedgerWriteKeeps DEF Book

LEMMA AdoptKeeps ==
  ASSUME FlowInv, NEW h \in Handlers, Adopt(h)
  PROVE  HandlersKeep
<1>1. ~At(h, "idle") /\ Key(h) \in Issues /\ handler[h].slot \in Slots
  BY BusyRequest DEF FlowInv, Adopt, At, Requests
<1>2. [LedgerNext]_ledgerVars
  BY <1>1 DEF Adopt, Write, LedgerNext
<1>3. dbFaults' \in 0..MaxDbFaults
  BY WriteBounded DEF FlowInv, Adopt, Write
<1>4. HandlersFine'
  BY <1>1, ReturnKeeps DEF FlowInv, Adopt, Return, HandlersFine, HandlerTypeOK
<1> QED
  BY <1>2, <1>3, <1>4, LedgerWriteKeeps DEF Adopt

LEMMA RecordKeeps ==
  ASSUME FlowInv, NEW h \in Handlers, Record(h)
  PROVE  HandlersKeep
<1>1. ~At(h, "idle") /\ Key(h) \in Issues /\ handler[h].slot \in Slots
  BY BusyRequest DEF FlowInv, Record, At, Requests
<1>2. [LedgerNext]_ledgerVars
  BY <1>1 DEF Record, Write, LedgerNext
<1>3. dbFaults' \in 0..MaxDbFaults
  BY WriteBounded DEF FlowInv, Record, Write
<1>4. recent' \in SUBSET Issues
  BY <1>1 DEF Record, FlowInv, HandlersFine, HandlerTypeOK
<1>5. HandlersFine'
  BY <1>1, <1>4, GotoKeeps DEF FlowInv, Record, Labels
<1> QED
  BY <1>2, <1>3, <1>5, LedgerWriteKeeps DEF Record

\* The steps on the pending queue.
LEMMA PendingWriteKeeps ==
  ASSUME FlowInv, [PendingCall]_pendingVars, dbFaults' \in 0..MaxDbFaults,
         OnlyPending, duty' \in SUBSET Issues, HandlersFine'
  PROVE  HandlersKeep
<1>1. RestTyped'
  BY RestKeeps DEF FlowInv, OnlyPending
<1> QED
  BY <1>1 DEF HandlersKeep, OnlyPending, DlqGrows

LEMMA LeaveKeeps ==
  ASSUME FlowInv, NEW h \in Handlers, Leave(h)
  PROVE  HandlersKeep
<1>1. ~At(h, "idle") /\ Key(h) \in Issues
  BY BusyRequest DEF FlowInv, Leave, At
<1>2. [PendingCall]_pendingVars
  BY <1>1 DEF Leave, Write, PendingCall
<1>3. dbFaults' \in 0..MaxDbFaults
  BY WriteBounded DEF FlowInv, Leave, Write
<1>4. HandlersFine'
  BY <1>1, ReturnKeeps DEF FlowInv, Leave, Return, HandlersFine, HandlerTypeOK
<1>5. duty' \in SUBSET Issues
  BY DEF Leave, FlowInv, RestTyped
<1> QED
  BY <1>2, <1>3, <1>4, <1>5, PendingWriteKeeps DEF Leave

\* Whoever is booked, is booked on a configured group.
LEMMA BookingSlots ==
  ASSUME RestTyped, NEW i \in Issues, NEW a \in People, a # NoOne, NEW F \in SUBSET Groups,
         NEW g \in BookingGroups(i, a, F)
  PROVE  <<g, a>> \in Slots
BY DEF BookingGroups, RestTyped, People, Slots

LEMMA DequeueKeeps ==
  ASSUME FlowInv, NEW h \in Handlers, Dequeue(h)
  PROVE  HandlersKeep
<1> DEFINE m == handler[h].m
<1>1. ~At(h, "idle") /\ Key(h) \in Issues /\ m.key = Key(h) /\ handler[h] \in Requests
      /\ m.to \in People /\ m.to # NoOne
  BY BusyRequest DEF FlowInv, Dequeue, At, Key, Requests
<1>2. [PendingCall]_pendingVars
  BY <1>1 DEF Dequeue, Write, PendingCall
<1>3. dbFaults' \in 0..MaxDbFaults
  BY WriteBounded DEF FlowInv, Dequeue, Write
<1>4. HandlersFine'
  <2>1. CASE Return(h)
    BY <1>1, <2>1, ReturnKeeps DEF FlowInv, Return, HandlersFine, HandlerTypeOK
  <2>2. ASSUME NEW g \in BookingGroups(m.key, m.to, {}), StillInFlight,
               handler' = [handler EXCEPT ![h].at = "adopt", ![h].slot = <<g, m.to>>]
        PROVE  HandlersFine'
    <3> DEFINE r == [handler[h] EXCEPT !.at = "adopt", !.slot = <<g, m.to>>]
    <3>1. <<g, m.to>> \in Slots
      BY <1>1, <2>2, BookingSlots DEF FlowInv
    <3>2. r \in Requests /\ r.m = handler[h].m
      BY <1>1, <3>1 DEF Requests, Labels
    <3>3. handler' = [handler EXCEPT ![h] = r]
      BY <1>1, <2>2 DEF FlowInv, HandlersFine, HandlerTypeOK
    <3> HIDE DEF r
    <3> QED
      BY <1>1, <2>2, <3>2, <3>3, MoveKeeps DEF FlowInv, StillInFlight, HandlersFine, HandlerTypeOK
  <2> QED
    BY <2>1, <2>2 DEF Dequeue
<1>5. duty' \in SUBSET Issues
  BY DEF Dequeue, FlowInv, RestTyped
<1> QED
  BY <1>2, <1>3, <1>4, <1>5, PendingWriteKeeps DEF Dequeue

LEMMA EnqueueStepKeeps ==
  ASSUME FlowInv, NEW h \in Handlers, Enqueue(h)
  PROVE  HandlersKeep
<1>1. ~At(h, "idle") /\ Key(h) \in Issues /\ Route[Key(h)] \in Groups
  BY BusyRequest DEF FlowInv, Enqueue, At, Requests, Key
<1>2. [PendingCall]_pendingVars
  BY <1>1 DEF Enqueue, Write, PendingCall
<1>3. dbFaults' \in 0..MaxDbFaults
  BY WriteBounded DEF FlowInv, Enqueue, Write
<1>4. HandlersFine'
  BY <1>1, ReturnKeeps DEF FlowInv, Enqueue, Return, HandlersFine, HandlerTypeOK
<1>5. duty' \in SUBSET Issues
  BY <1>1 DEF Enqueue, TakeOn, FlowInv, RestTyped
<1> QED
  BY <1>2, <1>3, <1>4, <1>5, PendingWriteKeeps DEF Enqueue

-----------------------------------------------------------------------------
\* The steps that only read.
LEMMA ReadingKeeps ==
  ASSUME FlowInv, UNCHANGED serviceVars \/ ReadFails, HandlersFine'
  PROVE  HandlersKeep
<1>1. /\ UNCHANGED <<ledgerVars, pendingVars, dlqVars, worldVars, confVars, duty>>
      /\ dbFaults' = dbFaults \/ (dbFaults < MaxDbFaults /\ dbFaults' = dbFaults + 1)
  BY DEF serviceVars, ReadFails
<1>2. dbFaults' \in 0..MaxDbFaults
  BY <1>1, WriteBounded DEF FlowInv
<1>3. duty' \in SUBSET Issues
  BY <1>1 DEF FlowInv, RestTyped
<1>4. RestTyped'
  BY <1>1, <1>2, <1>3, RestKeeps DEF FlowInv
<1> QED
  BY <1>1, <1>4 DEF HandlersKeep, DlqGrows

LEMMA ReadAssignmentKeeps ==
  ASSUME FlowInv, NEW h \in Handlers, ReadAssignment(h)
  PROVE  HandlersKeep
<1> DEFINE a == handler[h].m.to
<1>1. ~At(h, "idle") /\ Key(h) \in Issues /\ handler[h] \in Requests
      /\ a \in People /\ a # NoOne
  BY BusyRequest DEF FlowInv, ReadAssignment, At, Requests
<1>2. UNCHANGED serviceVars \/ ReadFails
  BY DEF ReadAssignment
<1>3. HandlersFine'
  <2>1. CASE Goto(h, "leave")
    BY <1>1, <2>1, GotoKeeps
       DEF FlowInv, ReadAssignment, StillInFlight, HandlersFine, HandlerTypeOK, Labels
  <2>2. ASSUME NEW g \in BookingGroups(Key(h), a, groups), NEW known \in BOOLEAN,
               handler' = [handler EXCEPT ![h].at = "book", ![h].slot = <<g, a>>,
                                          ![h].known = known]
        PROVE  HandlersFine'
    <3> DEFINE r == [handler[h] EXCEPT !.at = "book", !.slot = <<g, a>>, !.known = known]
    <3>1. <<g, a>> \in Slots
      BY <1>1, <2>2, BookingSlots DEF FlowInv, RestTyped
    <3>2. r \in Requests /\ r.m = handler[h].m
      BY <1>1, <3>1 DEF Requests, Labels
    <3>3. handler' = [handler EXCEPT ![h] = r]
      BY <1>1, <2>2 DEF FlowInv, HandlersFine, HandlerTypeOK
    <3> HIDE DEF r
    <3> QED
      BY <1>1, <3>2, <3>3, MoveKeeps
         DEF FlowInv, ReadAssignment, StillInFlight, HandlersFine, HandlerTypeOK
  <2> QED
    BY <2>1, <2>2 DEF ReadAssignment
<1> QED
  BY <1>2, <1>3, ReadingKeeps

LEMMA CheckKeeps ==
  ASSUME FlowInv, NEW h \in Handlers, Check(h)
  PROVE  HandlersKeep
<1>1. ~At(h, "idle")
  BY DEF Check, At
<1>2. HandlersFine'
  <2>1. CASE Return(h)
    BY <1>1, <2>1, ReturnKeeps DEF FlowInv, Return, HandlersFine, HandlerTypeOK
  <2>2. CASE Goto(h, "pick") /\ StillInFlight
    BY <1>1, <2>2, GotoKeeps DEF FlowInv, StillInFlight, HandlersFine, HandlerTypeOK, Labels
  <2> QED
    BY <2>1, <2>2 DEF Check
<1> QED
  BY <1>2, ReadingKeeps DEF Check

\* Who is picked is a member of the group, so the pair is a slot.
LEMMA PickedSlot ==
  ASSUME NEW g \in Groups, NEW a \in PickAssignee(g)
  PROVE  <<g, a>> \in Slots
BY ServiceAssumption DEF PickAssignee, Candidates, Slots

LEMMA PickKeeps ==
  ASSUME FlowInv, NEW h \in Handlers, Pick(h)
  PROVE  HandlersKeep
<1> DEFINE g == Route[Key(h)]
<1>1. ~At(h, "idle") /\ handler[h] \in Requests
  BY BusyRequest DEF FlowInv, Pick, At
<1>2. groups \subseteq Groups
  BY DEF FlowInv, RestTyped
<1>3. HandlersFine'
  <2>1. CASE Return(h)
    BY <1>1, <2>1, ReturnKeeps DEF FlowInv, Return, HandlersFine, HandlerTypeOK
  <2>2. CASE g \in groups /\ Goto(h, "enqueue") /\ StillInFlight
    BY <1>1, <1>2, <2>2, GotoKeeps
       DEF FlowInv, StillInFlight, HandlersFine, HandlerTypeOK, Labels
  <2>3. ASSUME g \in groups, NEW a \in PickAssignee(g), StillInFlight,
               handler' = [handler EXCEPT ![h].at = "assign", ![h].slot = <<g, a>>]
        PROVE  HandlersFine'
    <3> DEFINE r == [handler[h] EXCEPT !.at = "assign", !.slot = <<g, a>>]
    <3>1. <<g, a>> \in Slots
      BY <1>2, <2>3, PickedSlot
    <3>2. r \in Requests /\ r.m = handler[h].m
      BY <1>1, <3>1 DEF Requests, Labels
    <3>3. handler' = [handler EXCEPT ![h] = r]
      BY <1>1, <2>3 DEF FlowInv, HandlersFine, HandlerTypeOK
    <3> HIDE DEF r
    <3> QED
      BY <1>1, <2>3, <3>2, <3>3, MoveKeeps
         DEF FlowInv, StillInFlight, HandlersFine, HandlerTypeOK
  <2> QED
    BY <2>1, <2>2, <2>3 DEF Pick
<1> QED
  BY <1>3, ReadingKeeps DEF Pick

-----------------------------------------------------------------------------
\* The calls to the Tracker.
LEMMA WorldStepKeeps ==
  ASSUME FlowInv, OnlyWorld, RestTyped', HandlersFine'
  PROVE  HandlersKeep
BY DEF HandlersKeep, OnlyWorld, DlqGrows

LEMMA ClearKeeps ==
  ASSUME FlowInv, NEW h \in Handlers, Clear(h)
  PROVE  HandlersKeep
<1>1. ~At(h, "idle") /\ Key(h) \in Issues
  BY BusyRequest DEF FlowInv, Clear, At
<1>2. RestTyped'
  <2>1. PICK outcome \in Outcomes : AssigneeCall(Key(h), NoOne, outcome)
    BY DEF Clear
  <2>2. NoOne \in People /\ duty' \in SUBSET Issues
    BY DEF People, Clear, FlowInv, RestTyped
  <2> QED
    BY <1>1, <2>1, <2>2, CallKeeps DEF Clear, OnlyWorld, FlowInv
<1>3. HandlersFine'
  BY <1>1, GotoKeeps DEF FlowInv, Clear, StillInFlight, HandlersFine, HandlerTypeOK, Labels
<1> QED
  BY <1>2, <1>3, WorldStepKeeps DEF Clear

LEMMA AssignKeeps ==
  ASSUME FlowInv, NEW h \in Handlers, Assign(h)
  PROVE  HandlersKeep
<1>1. ~At(h, "idle") /\ Key(h) \in Issues /\ handler[h] \in Requests
      /\ handler[h].slot \in Slots
  BY BusyRequest DEF FlowInv, Assign, At, Requests
<1>2. PICK outcome \in Outcomes :
        /\ AssigneeCall(Key(h), handler[h].slot[2], outcome)
        /\ handler' = [handler EXCEPT ![h].at = IF outcome = "ok" THEN "record" ELSE "failed",
                                      ![h].err = outcome]
        /\ duty' = IF outcome = "ok" THEN duty \ {Key(h)} ELSE duty
  BY DEF Assign
<1>3. RestTyped'
  <2>1. handler[h].slot[2] \in People /\ duty' \in SUBSET Issues
    BY <1>1, <1>2 DEF Slots, People, FlowInv, RestTyped
  <2> QED
    BY <1>1, <1>2, <2>1, CallKeeps DEF Assign, OnlyWorld, FlowInv
<1>4. HandlersFine'
  <2> DEFINE l == IF outcome = "ok" THEN "record" ELSE "failed"
             r == [handler[h] EXCEPT !.at = l, !.err = outcome]
  <2>1. r \in Requests /\ r.m = handler[h].m
    BY <1>1 DEF Requests, Labels
  <2>2. handler' = [handler EXCEPT ![h] = r]
    BY <1>1, <1>2 DEF FlowInv, HandlersFine, HandlerTypeOK
  <2> HIDE DEF r
  <2> QED
    BY <1>1, <2>1, <2>2, MoveKeeps
       DEF FlowInv, Assign, StillInFlight, HandlersFine, HandlerTypeOK
<1> QED
  BY <1>3, <1>4, WorldStepKeeps DEF Assign

LEMMA AssignFailedKeeps ==
  ASSUME FlowInv, NEW h \in Handlers, AssignFailed(h)
  PROVE  HandlersKeep
<1>1. ~At(h, "idle") /\ Key(h) \in Issues /\ handler[h] \in Requests
      /\ handler[h].slot \in Slots
  BY BusyRequest DEF FlowInv, AssignFailed, At, Requests
<1>2. <<Key(h), handler[h].slot>> \in DlqItems
  BY <1>1, ServiceAssumption
<1>3. DlqGrows
  BY <1>2 DEF AssignFailed, Write, DlqGrows
<1>4. dbFaults' \in 0..MaxDbFaults
  <2>1. dbFaults' = dbFaults \/ (dbFaults < MaxDbFaults /\ dbFaults' = dbFaults + 1)
    BY DEF AssignFailed, Write
  <2> QED
    BY <2>1, WriteBounded DEF FlowInv
<1>5. duty' \in SUBSET Issues
  BY <1>1 DEF AssignFailed, TakeOn, FlowInv, RestTyped
<1>6. RestTyped'
  BY <1>4, <1>5, RestKeeps DEF FlowInv, AssignFailed, OnlyDlq
<1>7. HandlersFine'
  BY <1>1, ReturnKeeps DEF FlowInv, AssignFailed, Return, HandlersFine, HandlerTypeOK
<1> QED
  BY <1>3, <1>6, <1>7 DEF HandlersKeep, AssignFailed, OnlyDlq

LEMMA HangUpKeeps ==
  ASSUME FlowInv, NEW h \in Handlers, HangUp(h)
  PROVE  HandlersKeep
<1>1. ~At(h, "idle") /\ Key(h) \in Issues /\ handler[h] \in Requests
  BY BusyRequest DEF FlowInv, HangUp, At
<1>2. /\ issue' \in [Issues -> [st : {"none", "open", "closed"}, who : People]]
      /\ inbox' \in SUBSET Webhook
  <2>1. CASE At(h, "clear")
    <3>1. MayHaveSet(Key(h), NoOne) /\ NoOne \in People
      BY <2>1 DEF HangUp, At, People
    <3> QED
      BY <1>1, <3>1, SetKeeps DEF FlowInv
  <2>2. CASE At(h, "assign")
    <3>1. MayHaveSet(Key(h), handler[h].slot[2])
      BY <2>2 DEF HangUp, At
    <3>2. handler[h].slot[2] \in People
      BY <1>1, <2>2 DEF At, Requests, Slots, People
    <3> QED
      BY <1>1, <3>1, <3>2, SetKeeps DEF FlowInv
  <2>3. CASE ~At(h, "clear") /\ ~At(h, "assign")
    BY <2>3 DEF HangUp, FlowInv, RestTyped, WorldTypeOK
  <2> QED
    BY <2>1, <2>2, <2>3
<1>3. RestTyped'
  BY <1>2, WorldAssumption DEF HangUp, OnlyWorld, confVars, FlowInv, RestTyped, WorldTypeOK
<1>4. recent' \in SUBSET Issues
  BY <1>1 DEF HangUp, FlowInv, HandlersFine, HandlerTypeOK
<1>5. HandlersFine'
  BY <1>1, <1>4, ReturnKeeps DEF FlowInv, HangUp
<1> QED
  BY <1>3, <1>5, WorldStepKeeps DEF HangUp

-----------------------------------------------------------------------------
\* Webhooks come in.
LEMMA TakeKeeps ==
  ASSUME RestTyped, NEW m, TakeWebhook(m), UNCHANGED <<issue, events, faults, confVars, dbFaults>>,
         duty' \in SUBSET Issues
  PROVE  RestTyped' /\ m \in Webhook
<1>1. m \in Webhook /\ inbox' \in SUBSET Webhook
  BY DEF TakeWebhook, RestTyped, WorldTypeOK
<1>2. dups' \in 0..MaxDups
  BY WorldAssumption DEF TakeWebhook, RestTyped, WorldTypeOK
<1> QED
  BY <1>1, <1>2 DEF RestTyped, WorldTypeOK, confVars

LEMMA DropKeeps ==
  ASSUME FlowInv, NEW m, DropWebhook(m)
  PROVE  HandlersKeep
<1>1. duty' \in SUBSET Issues
  BY DEF FlowInv, DropWebhook, RestTyped
<1>2. RestTyped'
  BY <1>1, TakeKeeps DEF FlowInv, DropWebhook
<1>3. HandlersFine'
  BY DEF FlowInv, DropWebhook, handlerVars, HandlersFine, HandlerTypeOK, OneHandlerPerIssue,
         Busy, At, Key
<1> QED
  BY <1>2, <1>3 DEF HandlersKeep, DropWebhook, DlqGrows

LEMMA DedupKeeps ==
  ASSUME FlowInv, NEW i \in Issues, DedupExpires(i)
  PROVE  HandlersKeep
<1>1. HandlersFine'
  BY DEF FlowInv, DedupExpires, HandlersFine, HandlerTypeOK, OneHandlerPerIssue, Busy, At, Key
<1> QED
  BY <1>1, ReadingKeeps DEF DedupExpires

\* Resolving the people of a payload changes neither its ticket nor whether it names
\* anybody.
LEMMA ResolvedFits ==
  ASSUME NEW m \in Webhook, NEW from \in KnownAs[m.from], NEW to \in KnownAs[m.to]
  PROVE  /\ Resolved(m, from, to) \in Webhook
         /\ Resolved(m, from, to).key = m.key
         /\ Resolved(m, from, to).to = NoOne <=> m.to = NoOne
<1>1. m.from \in People /\ m.to \in People
  BY DEF Webhook
<1>2. KnownAs[m.from] \subseteq People /\ KnownAs[m.to] \subseteq People
  BY <1>1, HandlerAssumption
<1>3. (NoOne \in KnownAs[m.to]) <=> (m.to = NoOne)
  BY <1>1, HandlerAssumption
<1>4. m.to = NoOne => to = NoOne
  BY HandlerAssumption
<1> QED
  BY <1>2, <1>3, <1>4 DEF Webhook, Resolved

\* The key is locked and was not locked before, so the new request is the only
\* one with it.
LEMMA ReceiveKeeps ==
  ASSUME FlowInv, NEW h \in Handlers, NEW m, ReceiveWebhook(h, m)
  PROVE  HandlersKeep
<1>1. duty' \in SUBSET Issues
  BY DEF FlowInv, ReceiveWebhook, RestTyped
<1>2. RestTyped' /\ m \in Webhook
  BY <1>1, TakeKeeps DEF FlowInv, ReceiveWebhook
<1>3. m.key \in Issues /\ m.kind \in {"plain", "change", "remove"}
  BY <1>2 DEF Webhook
<1>4. PICK from \in KnownAs[m.from], to \in KnownAs[m.to] :
        handler' = [handler EXCEPT ![h] =
                      [at |-> Branch(m), m |-> Resolved(m, from, to), slot |-> NoRow,
                       known |-> FALSE, err |-> "ok"]]
  BY DEF ReceiveWebhook
<1> DEFINE named == Resolved(m, from, to)
<1> DEFINE r == [at |-> Branch(m), m |-> named, slot |-> NoRow, known |-> FALSE, err |-> "ok"]
<1>5. named \in Webhook /\ named.key = m.key /\ (named.to = NoOne <=> m.to = NoOne)
  BY <1>2, ResolvedFits
<1>6. r \in Requests /\ r.m.key = m.key /\ r.at # "idle"
  <2>1. Branch(m) \in Labels \ {"charge", "refund", "enqueue", "book", "adopt", "assign",
                                "failed", "record"}
        /\ (Branch(m) \in {"read", "dequeue"} => m.to # NoOne)
    BY <1>3 DEF Branch, Labels
  <2> QED
    BY <1>5, <2>1 DEF Requests, Outcomes, Labels
<1>7. handler' = [handler EXCEPT ![h] = r]
  BY <1>4
<1> HIDE DEF r
<1>8. handler' \in [Handlers -> {Idle} \cup Requests] /\ handler'[h] = r
      /\ \A k \in Handlers \ {h} : handler'[k] = handler[k]
  BY <1>6, <1>7 DEF FlowInv, HandlersFine, HandlerTypeOK
<1>9. HandlerTypeOK'
  BY <1>3, <1>8 DEF FlowInv, HandlersFine, HandlerTypeOK, ReceiveWebhook
<1>10. Busy' = Busy \cup {h} /\ h \notin Busy
  BY <1>6, <1>8 DEF Busy, At, ReceiveWebhook
<1>11. Key(h)' = m.key /\ \A k \in Handlers \ {h} : Key(k)' = Key(k)
  BY <1>6, <1>8 DEF Key
<1>12. inFlight' = inFlight \cup {m.key} /\ m.key \notin inFlight
  BY DEF ReceiveWebhook, Dropped
<1>13. OneHandlerPerIssue'
  BY <1>10, <1>11, <1>12 DEF FlowInv, HandlersFine, OneHandlerPerIssue, Busy
<1> QED
  BY <1>2, <1>9, <1>13 DEF HandlersKeep, HandlersFine, ReceiveWebhook, DlqGrows

LEMMA HandlerNextKeeps ==
  ASSUME FlowInv, HandlerNext
  PROVE  HandlersKeep
<1>1. CASE \E i \in Issues : DedupExpires(i)
  BY <1>1, DedupKeeps
<1>2. CASE \E m \in inbox : DropWebhook(m)
  BY <1>2, DropKeeps
<1>3. CASE \E m \in inbox : \E h \in Handlers : ReceiveWebhook(h, m)
  BY <1>3, ReceiveKeeps
<1>4. ASSUME NEW h \in Handlers, HandlerStep(h)
      PROVE  HandlersKeep
  BY <1>4, ReleaseKeeps, ChargeKeeps, ClearKeeps, LeaveKeeps, UnassignKeeps,
     ReadAssignmentKeeps, BookKeeps, RefundKeeps, DequeueKeeps, AdoptKeeps, CheckKeeps,
     PickKeeps, EnqueueStepKeeps, AssignKeeps, AssignFailedKeeps, RecordKeeps
     DEF HandlerStep
<1>5. CASE \E h \in Handlers : HangUp(h)
  BY <1>5, HangUpKeeps
<1> QED
  BY <1>1, <1>2, <1>3, <1>4, <1>5 DEF HandlerNext

-----------------------------------------------------------------------------
\* Ids are given out in order, so an id that was known stays known.
LEMMA IdsStay ==
  ASSUME FlowInv, [PendingCall]_pendingVars
  PROVE  /\ lastPendingId \in Nat /\ lastPendingId' \in Nat
         /\ lastPendingId' >= lastPendingId
<1>1. lastPendingId \in Nat
  BY DEF FlowInv, PendingInv, PendingTypeOK
<1>2. lastPendingId' = lastPendingId \/ lastPendingId' = lastPendingId + 1
  BY DEF PendingCall, EnqueuePending, MarkPendingAssigned, RemovePendingByIssueKey, pendingVars
<1> QED
  BY <1>1, <1>2

LEMMA ErrandStays ==
  ASSUME FlowInv, [PendingCall]_pendingVars, pworker' = pworker
  PROVE  PendingWorkerTypeOK' /\ ErrandKnown'
BY IdsStay DEF FlowInv, PendingWorkerTypeOK, ErrandKnown, PAt

\* The pending worker goes on with the same row, or is idle again.
LEMMA ErrandMoves ==
  ASSUME FlowInv, [PendingCall]_pendingVars, pworker \in Errands,
         \/ pworker' = PIdle
         \/ pworker' \in Errands /\ pworker'.row = pworker.row
  PROVE  PendingWorkerTypeOK' /\ ErrandKnown'
<1>1. pworker.row.id \in 1..lastPendingId
  BY DEF FlowInv, ErrandKnown, PAt, Errands
<1>2. pworker.row.id \in 1..lastPendingId'
  BY <1>1, IdsStay
<1> QED
  BY <1>2 DEF PendingWorkerTypeOK, ErrandKnown, PAt, PIdle

\* What each step of the pending worker is shown to do.
PendingKeep ==
  /\ [LedgerNext]_ledgerVars /\ [PendingCall]_pendingVars /\ DlqGrows
  /\ RestTyped'
  /\ PendingWorkerTypeOK' /\ ErrandKnown'

LEMMA Errand ==
  ASSUME FlowInv, ~PAt("idle")
  PROVE  /\ pworker \in Errands /\ pworker.row \in PendingRow
         /\ pworker.row.key \in Issues /\ pworker.row.group \in Groups
<1>1. pworker \in Errands
  BY DEF FlowInv, PendingWorkerTypeOK, PAt, PIdle
<1> QED
  BY <1>1 DEF Errands, PendingRow

LEMMA FetchPendingKeeps ==
  ASSUME FlowInv, FetchPending
  PROVE  PendingKeep
<1>1. PICK r \in pending : pworker' = [at |-> "pick", row |-> r, slot |-> NoRow, err |-> "none"]
  BY DEF FetchPending
<1>2. r \in PendingRow /\ r.id \in 1..lastPendingId
  BY DEF FlowInv, PendingInv, PendingTypeOK, PendingUnique
<1>3. UNCHANGED serviceVars
  BY DEF FetchPending
<1>4. PendingWorkerTypeOK'
  BY <1>1, <1>2 DEF PendingWorkerTypeOK, Errands
<1>5. ErrandKnown'
  BY <1>1, <1>2, <1>3 DEF ErrandKnown, serviceVars, pendingVars
<1>6. RestTyped'
  BY <1>3, RestKeeps DEF FlowInv, RestTyped, serviceVars
<1> QED
  BY <1>3, <1>4, <1>5, <1>6 DEF PendingKeep, DlqGrows, serviceVars

LEMMA PickForPendingKeeps ==
  ASSUME FlowInv, PickForPending
  PROVE  PendingKeep
<1>1. pworker \in Errands /\ pworker.row.group \in Groups
  BY Errand DEF PickForPending, PAt
<1>2. UNCHANGED serviceVars \/ ReadFails
  BY DEF PickForPending
<1>3. /\ UNCHANGED <<ledgerVars, pendingVars, dlqVars, worldVars, confVars, duty>>
      /\ dbFaults' = dbFaults \/ (dbFaults < MaxDbFaults /\ dbFaults' = dbFaults + 1)
  BY <1>2 DEF serviceVars, ReadFails
<1>4. RestTyped'
  BY <1>3, WriteBounded, RestKeeps DEF FlowInv, RestTyped
<1>5. \/ pworker' = PIdle
      \/ pworker' \in Errands /\ pworker'.row = pworker.row
  <2>1. CASE PGoto("discard")
    BY <1>1, <2>1 DEF PGoto, Errands
  <2>2. ASSUME NEW a \in PickAssignee(pworker.row.group),
               pworker' = [pworker EXCEPT !.at = "assign", !.slot = <<pworker.row.group, a>>]
        PROVE  pworker' \in Errands /\ pworker'.row = pworker.row
    <3>1. <<pworker.row.group, a>> \in Slots
      BY <1>1, PickedSlot
    <3> QED
      BY <1>1, <2>2, <3>1 DEF Errands
  <2> QED
    BY <2>1, <2>2 DEF PickForPending, PStop
<1>6. PendingWorkerTypeOK' /\ ErrandKnown'
  BY <1>1, <1>3, <1>5, ErrandMoves
<1> QED
  BY <1>3, <1>4, <1>6 DEF PendingKeep, DlqGrows

LEMMA AssignPendingKeeps ==
  ASSUME FlowInv, AssignPending
  PROVE  PendingKeep
<1> DEFINE i == pworker.row.key
<1>1. pworker \in Errands /\ i \in Issues /\ pworker.slot \in Slots
  BY Errand DEF AssignPending, PAt, Errands
<1>2. PICK outcome \in Outcomes :
        \E is404 \in BOOLEAN :
          /\ AssigneeCall(i, pworker.slot[2], outcome)
          /\ duty' = IF outcome = "ok" THEN duty \ {i} ELSE duty
          /\ IF AfterAssign(outcome, is404) = "stop" THEN PStop
             ELSE pworker' = [pworker EXCEPT !.at = AfterAssign(outcome, is404), !.err = outcome]
  BY DEF AssignPending
<1>3. \A is404 : AfterAssign(outcome, is404) \in {"record", "discard", "stop", "bury"}
  BY DEF AfterAssign
<1>4. \/ pworker' = PIdle
      \/ pworker' \in Errands /\ pworker'.row = pworker.row
  BY <1>1, <1>2, <1>3 DEF PStop, Errands
<1>5. OnlyWorld
  BY DEF AssignPending
<1>6. RestTyped'
  <2>1. pworker.slot[2] \in People /\ duty' \in SUBSET Issues
    BY <1>1, <1>2 DEF Slots, People, FlowInv, RestTyped
  <2> QED
    BY <1>1, <1>2, <1>5, <2>1, CallKeeps DEF OnlyWorld, FlowInv
<1>7. PendingWorkerTypeOK' /\ ErrandKnown'
  BY <1>1, <1>4, <1>5, ErrandMoves DEF OnlyWorld
<1> QED
  BY <1>5, <1>6, <1>7 DEF PendingKeep, DlqGrows, OnlyWorld

LEMMA BuryPendingKeeps ==
  ASSUME FlowInv, BuryPending
  PROVE  PendingKeep
<1>1. pworker \in Errands /\ pworker.row.key \in Issues /\ pworker.slot \in Slots
  BY Errand DEF BuryPending, PAt, Errands
<1>2. <<pworker.row.key, pworker.slot>> \in DlqItems
  BY <1>1, ServiceAssumption
<1>3. DlqGrows
  BY <1>2 DEF BuryPending, Write, DlqGrows
<1>4. dbFaults' \in 0..MaxDbFaults
  BY WriteBounded DEF FlowInv, BuryPending, Write
<1>5. RestTyped'
  BY <1>4, RestKeeps DEF FlowInv, RestTyped, BuryPending, OnlyDlq
<1>6. pworker' \in Errands /\ pworker'.row = pworker.row
  BY <1>1 DEF BuryPending, PGoto, Errands
<1>7. PendingWorkerTypeOK' /\ ErrandKnown'
  BY <1>1, <1>6, ErrandMoves DEF BuryPending, OnlyDlq
<1> QED
  BY <1>3, <1>5, <1>7 DEF PendingKeep, BuryPending, OnlyDlq

LEMMA RecordPendingKeeps ==
  ASSUME FlowInv, RecordPending
  PROVE  PendingKeep
<1>1. pworker \in Errands /\ pworker.row.key \in Issues /\ pworker.slot \in Slots
  BY Errand DEF RecordPending, PAt, Errands
<1>2. [LedgerNext]_ledgerVars
  BY <1>1 DEF RecordPending, Write, LedgerNext
<1>3. dbFaults' \in 0..MaxDbFaults
  BY WriteBounded DEF FlowInv, RecordPending, Write
<1>4. RestTyped'
  BY <1>3, RestKeeps DEF FlowInv, RestTyped, RecordPending, OnlyLedger
<1>5. pworker' \in Errands /\ pworker'.row = pworker.row
  BY <1>1 DEF RecordPending, PGoto, Errands
<1>6. PendingWorkerTypeOK' /\ ErrandKnown'
  BY <1>1, <1>5, ErrandMoves DEF RecordPending, OnlyLedger
<1> QED
  BY <1>2, <1>4, <1>6 DEF PendingKeep, RecordPending, OnlyLedger, DlqGrows

LEMMA DeletePendingKeeps ==
  ASSUME FlowInv, DeletePending
  PROVE  PendingKeep
<1>1. pworker \in Errands /\ pworker.row.id \in 1..lastPendingId
  BY Errand DEF DeletePending, PAt, FlowInv, ErrandKnown
<1>2. [PendingCall]_pendingVars
  BY <1>1 DEF DeletePending, Write, PendingCall
<1>3. dbFaults' \in 0..MaxDbFaults
  BY WriteBounded DEF FlowInv, DeletePending, Write
<1>4. duty' \in SUBSET Issues
  BY DEF DeletePending, FlowInv, RestTyped
<1>5. RestTyped'
  BY <1>3, <1>4, RestKeeps DEF FlowInv, DeletePending, OnlyPending
<1>6. PendingWorkerTypeOK' /\ ErrandKnown'
  BY <1>1, <1>2, ErrandMoves DEF DeletePending, PStop
<1> QED
  BY <1>2, <1>5, <1>6 DEF PendingKeep, DeletePending, OnlyPending, DlqGrows

LEMMA PendingWorkerKeeps ==
  ASSUME FlowInv, PendingWorkerStep
  PROVE  PendingKeep
BY FetchPendingKeeps, PickForPendingKeeps, AssignPendingKeeps, BuryPendingKeeps,
   RecordPendingKeeps, DeletePendingKeeps DEF PendingWorkerStep

-----------------------------------------------------------------------------
\* A row in the retry worker's hand is touched by no other actor: they only add.
LEMMA HandStays ==
  ASSUME FlowInv, DlqGrows, dworker' = dworker
  PROVE  [DlqNext]_dlqVars /\ DlqWorkerTypeOK' /\ RetryInHand'
<1>1. [DlqNext]_dlqVars
  BY DEF DlqGrows, DlqNext
<1>2. DlqWorkerTypeOK'
  BY DEF FlowInv, DlqWorkerTypeOK
<1>3. \A n \in RowIds : Retryable(n) => Retryable(n)'
  <2>1. CASE UNCHANGED dlqVars
    BY <2>1 DEF dlqVars, Retryable
  <2>2. ASSUME NEW item \in DlqItems, EnqueueDLQ(item)
        PROVE  \A n \in RowIds : Retryable(n) => Retryable(n)'
    BY <2>2, DlqAssumption
       DEF EnqueueDLQ, Retryable, FlowInv, DlqInv, DlqTypeOK, RetryBudget, RowIds
  <2> QED
    BY <2>1, <2>2 DEF DlqGrows
<1>4. RetryInHand'
  BY <1>3 DEF FlowInv, RetryInHand, DAt
<1> QED
  BY <1>1, <1>2, <1>4

\* What each step of the retry worker is shown to do.
RetryKeep ==
  /\ [LedgerNext]_ledgerVars /\ UNCHANGED pendingVars /\ [DlqNext]_dlqVars
  /\ RestTyped'
  /\ DlqWorkerTypeOK' /\ RetryInHand'

\* The row in hand and what it holds.
LEMMA InHand ==
  ASSUME FlowInv, ~DAt("idle")
  PROVE  /\ dworker.row \in RowIds /\ Retryable(dworker.row)
         /\ DItem \in DlqItems /\ DItem[1] \in Issues /\ DItem[2] \in Slots
<1>1. dworker.row \in RowIds /\ Retryable(dworker.row)
  BY DEF FlowInv, RetryInHand
<1>2. DItem \in DlqItems
  BY <1>1 DEF DItem, FlowInv, RowsHold, Retryable
<1> QED
  BY <1>1, <1>2, ServiceAssumption

\* No operation of the table empties a row.
LEMMA RowsHoldStep ==
  ASSUME DlqInv, RowsHold, [DlqNext]_dlqVars
  PROVE  RowsHold'
<1>1. ASSUME NEW item \in DlqItems, EnqueueDLQ(item)
      PROVE  RowsHold'
  BY <1>1, DlqAssumption DEF EnqueueDLQ, RowsHold, DlqInv, DlqTypeOK, RowIds
<1>2. ASSUME NEW n \in RowIds, DlqRetryOutcome(n)
      PROVE  RowsHold'
  BY <1>2 DEF DlqRetryOutcome, Retryable, MarkDLQResolved, UpdateDLQRetry, RowsHold,
              DlqInv, DlqTypeOK
<1>3. ASSUME NEW old \in SUBSET RowIds, CleanupOldDLQ(old)
      PROVE  RowsHold'
  BY <1>3 DEF CleanupOldDLQ, RowsHold
<1>4. CASE UNCHANGED dlqVars
  BY <1>4 DEF dlqVars, RowsHold
<1> QED
  BY <1>1, <1>2, <1>3, <1>4 DEF DlqNext

LEMMA FetchDlqKeeps ==
  ASSUME FlowInv, FetchDlq
  PROVE  RetryKeep
<1>1. PICK n \in RowIds : Retryable(n) /\ dworker' = [at |-> "retry", row |-> n]
  BY DEF FetchDlq
<1>2. UNCHANGED serviceVars
  BY DEF FetchDlq
<1>3. DlqWorkerTypeOK'
  BY <1>1, DlqAssumption DEF DlqWorkerTypeOK, RowIds
<1>4. RetryInHand'
  BY <1>1, <1>2 DEF RetryInHand, Retryable, serviceVars, dlqVars
<1>5. RestTyped'
  BY <1>2, RestKeeps DEF FlowInv, RestTyped, serviceVars
<1> QED
  BY <1>2, <1>3, <1>4, <1>5 DEF RetryKeep, serviceVars

\* The worker goes on with the row in hand, which stays as it is.
LEMMA HandMoves ==
  ASSUME FlowInv, ~DAt("idle"), UNCHANGED dlqVars,
         NEW l \in {"record", "resolve", "backoff"}, DGoto(l)
  PROVE  DlqWorkerTypeOK' /\ RetryInHand'
<1>1. dworker' = [at |-> l, row |-> dworker.row]
  BY DEF DGoto, FlowInv, DlqWorkerTypeOK
<1>2. dworker.row \in 0..MaxDlqRows
  BY DEF FlowInv, DlqWorkerTypeOK
<1> QED
  BY <1>1, <1>2, InHand DEF DlqWorkerTypeOK, RetryInHand, Retryable, dlqVars

LEMMA RetryItemKeeps ==
  ASSUME FlowInv, RetryItem
  PROVE  RetryKeep
<1>1. ~DAt("idle") /\ OnlyWorld
  BY DEF RetryItem, DAt
<1>2. PICK outcome \in Outcomes :
        /\ AssigneeCall(DItem[1], DItem[2][2], outcome)
        /\ DGoto(IF outcome = "ok" THEN "record" ELSE "backoff")
        /\ duty' = IF outcome = "ok" THEN duty \ {DItem[1]} ELSE duty
  BY DEF RetryItem
<1>3. DItem[1] \in Issues /\ DItem[2][2] \in People /\ duty' \in SUBSET Issues
  BY <1>1, <1>2, InHand DEF Slots, People, FlowInv, RestTyped
<1>4. RestTyped'
  BY <1>1, <1>2, <1>3, CallKeeps DEF OnlyWorld, FlowInv
<1>5. DlqWorkerTypeOK' /\ RetryInHand'
  BY <1>1, <1>2, HandMoves DEF OnlyWorld
<1> QED
  BY <1>1, <1>4, <1>5 DEF RetryKeep, OnlyWorld

LEMMA RecordRetryKeeps ==
  ASSUME FlowInv, RecordRetry
  PROVE  RetryKeep
<1>1. ~DAt("idle") /\ OnlyLedger
  BY DEF RecordRetry, DAt
<1>2. [LedgerNext]_ledgerVars
  BY <1>1, InHand DEF RecordRetry, Write, LedgerNext
<1>3. dbFaults' \in 0..MaxDbFaults
  BY WriteBounded DEF FlowInv, RecordRetry, Write
<1>4. RestTyped'
  BY <1>1, <1>3, RestKeeps DEF FlowInv, RestTyped, RecordRetry, OnlyLedger
<1>5. DlqWorkerTypeOK' /\ RetryInHand'
  BY <1>1, HandMoves DEF RecordRetry, OnlyLedger
<1> QED
  BY <1>1, <1>2, <1>4, <1>5 DEF RetryKeep, OnlyLedger

\* A verdict is written for a row that may be retried, with the next count.
LEMMA VerdictKeeps ==
  ASSUME FlowInv, Resolve \/ BackOff
  PROVE  RetryKeep
<1>1. ~DAt("idle") /\ OnlyDlq /\ dworker' = DIdle
  BY DEF Resolve, BackOff, DAt
<1>2. dworker.row \in RowIds /\ Retryable(dworker.row)
  BY <1>1, InHand
<1>3. [DlqNext]_dlqVars
  BY <1>2 DEF Resolve, BackOff, Write, DlqNext, DlqRetryOutcome
<1>4. dbFaults' \in 0..MaxDbFaults
  BY WriteBounded DEF FlowInv, Resolve, BackOff, Write
<1>5. duty' \in SUBSET Issues
  BY DEF Resolve, BackOff, FlowInv, RestTyped
<1>6. RestTyped'
  BY <1>1, <1>4, <1>5, RestKeeps DEF FlowInv, OnlyDlq
<1>7. DlqWorkerTypeOK' /\ RetryInHand'
  BY <1>1, DlqAssumption DEF DlqWorkerTypeOK, RetryInHand, DIdle, DAt
<1> QED
  BY <1>1, <1>3, <1>6, <1>7 DEF RetryKeep, OnlyDlq

LEMMA RetryWorkerKeeps ==
  ASSUME FlowInv, DlqWorkerStep
  PROVE  RetryKeep
BY FetchDlqKeeps, RetryItemKeeps, RecordRetryKeeps, VerdictKeeps DEF DlqWorkerStep

-----------------------------------------------------------------------------
\* What each step of the sync worker is shown to do.
SyncKeep ==
  /\ [LedgerNext]_ledgerVars /\ UNCHANGED <<pendingVars, dlqVars>>
  /\ RestTyped'
  /\ SyncWorkerTypeOK'

LEMMA StartPassKeeps ==
  ASSUME FlowInv, StartPass
  PROVE  SyncKeep
<1>1. UNCHANGED serviceVars
  BY DEF StartPass
<1>2. RestTyped'
  BY <1>1, RestKeeps DEF FlowInv, RestTyped, serviceVars
<1>3. SyncWorkerTypeOK'
  BY DEF StartPass, SyncWorkerTypeOK, Searching, FlowInv, RestTyped
<1> QED
  BY <1>1, <1>2, <1>3 DEF SyncKeep, serviceVars

LEMMA SearchGroupKeeps ==
  ASSUME FlowInv, SearchGroup
  PROVE  SyncKeep
<1>1. sworker \in Searching /\ sworker.rest \in SUBSET Groups
  BY DEF FlowInv, SyncWorkerTypeOK, SearchGroup, SIdle, Writing, Searching
<1>2. OnlyWorld /\ UNCHANGED <<issue, inbox, events, dups, duty>>
  BY DEF SearchGroup
<1>3. faults' \in 0..MaxFaults
  BY WorldAssumption DEF SearchGroup, FlowInv, RestTyped, WorldTypeOK
<1>4. RestTyped'
  BY <1>2, <1>3 DEF OnlyWorld, confVars, FlowInv, RestTyped, WorldTypeOK
<1>5. SyncWorkerTypeOK'
  <2>1. ASSUME NEW g \in sworker.rest,
               sworker' = [at |-> "write", rest |-> sworker.rest \ {g}, group |-> g,
                           todo |-> Members[g],
                           found |-> [a \in Members[g] |-> OpenIssuesOf(a)]]
        PROVE  SyncWorkerTypeOK'
    <3> DEFINE f == [a \in Members[g] |-> OpenIssuesOf(a)]
    <3>1. g \in Groups /\ Members[g] \in SUBSET Assignees
      BY <1>1, <2>1, ServiceAssumption
    <3>2. f \in [Members[g] -> SUBSET Issues] /\ DOMAIN f = Members[g]
      BY DEF OpenIssuesOf
    <3>3. f \in UNION {[A -> SUBSET Issues] : A \in SUBSET Assignees}
      BY <3>1, <3>2
    <3> HIDE DEF f
    <3> QED
      BY <1>1, <2>1, <3>1, <3>2, <3>3 DEF SyncWorkerTypeOK, Writing, f
  <2>2. ASSUME NEW g \in sworker.rest, sworker' = NextGroup(sworker.rest \ {g})
        PROVE  SyncWorkerTypeOK'
    BY <1>1, <2>2 DEF NextGroup, SyncWorkerTypeOK, Searching
  <2> QED
    BY <2>1, <2>2 DEF SearchGroup
<1> QED
  BY <1>2, <1>4, <1>5 DEF SyncKeep, OnlyWorld

LEMMA SyncAssigneeKeeps ==
  ASSUME FlowInv, NEW a \in Assignees, SyncAssignee(a)
  PROVE  SyncKeep
<1>1. sworker \in Writing /\ sworker.group \in Groups /\ sworker.rest \in SUBSET Groups
      /\ a \in DOMAIN sworker.found
  BY DEF FlowInv, SyncWorkerTypeOK, SyncAssignee, SIdle, Writing, Searching
<1>2. sworker.found[a] \in SUBSET Issues
  BY <1>1 DEF Writing
<1>3. <<sworker.group, a>> \in Slots /\ 0 \in 0..MaxPageDup
  BY <1>1, LedgerAssumption DEF Slots
<1>4. [LedgerNext]_ledgerVars
  BY <1>2, <1>3 DEF SyncAssignee, Write, LedgerNext
<1>5. dbFaults' \in 0..MaxDbFaults
  BY WriteBounded DEF FlowInv, SyncAssignee, Write
<1>6. RestTyped'
  BY <1>5, RestKeeps DEF FlowInv, RestTyped, SyncAssignee, OnlyLedger
<1>7. SyncWorkerTypeOK'
  <2>1. CASE sworker' = NextGroup(sworker.rest)
    BY <1>1, <2>1 DEF NextGroup, SyncWorkerTypeOK, Searching
  <2>2. CASE sworker' = [sworker EXCEPT !.todo = @ \ {a}]
    BY <1>1, <2>2 DEF SyncWorkerTypeOK, Writing
  <2> QED
    BY <2>1, <2>2 DEF SyncAssignee
<1> QED
  BY <1>4, <1>6, <1>7 DEF SyncKeep, SyncAssignee, OnlyLedger

LEMMA SyncWorkerKeeps ==
  ASSUME FlowInv, SyncWorkerStep
  PROVE  SyncKeep
BY StartPassKeeps, SearchGroupKeeps, SyncAssigneeKeeps DEF SyncWorkerStep

-----------------------------------------------------------------------------
\* One event of a user: the issue changes and a webhook is on its way.
LEMMA EventKeeps ==
  ASSUME FlowInv,
         NEW i \in Issues, NEW s \in {"none", "open", "closed"}, NEW p \in People,
         NEW kind \in {"plain", "change", "remove"},
         UserEvent(i, [st |-> s, who |-> p], kind)
  PROVE  WorldTypeOK'
<1> DEFINE w == [n |-> events + 1, key |-> i, kind |-> kind, from |-> issue[i].who, to |-> p]
<1>1. events' \in 0..MaxEvents /\ events + 1 \in 1..MaxEvents
  BY WorldAssumption DEF UserEvent, FlowInv, RestTyped, WorldTypeOK
<1>2. issue[i] \in [st : {"none", "open", "closed"}, who : People]
  BY DEF FlowInv, RestTyped, WorldTypeOK
<1>3. w \in Webhook
  BY <1>1, <1>2 DEF Webhook
<1>4. inbox' = inbox \cup {w}
  BY DEF UserEvent
<1>5. inbox' \in SUBSET Webhook
  BY <1>3, <1>4 DEF FlowInv, RestTyped, WorldTypeOK
<1>6. issue' \in [Issues -> [st : {"none", "open", "closed"}, who : People]]
  BY DEF UserEvent, FlowInv, RestTyped, WorldTypeOK
<1>7. dups' = dups /\ faults' = faults
  BY DEF UserEvent
<1> QED
  BY <1>1, <1>5, <1>6, <1>7 DEF FlowInv, RestTyped, WorldTypeOK

\* A user changes an issue and a webhook is on its way.
LEMMA UsersKeep ==
  ASSUME FlowInv, UsersStep
  PROVE  RestTyped'
<1>1. PICK i \in Issues :
        \/ \E a \in People : UserCreates(i, a) \/ UserAssigns(i, a)
        \/ UserCloses(i)
        \/ UserEdits(i)
  BY DEF UsersStep, UsersNext
<1>2. issue[i] \in [st : {"none", "open", "closed"}, who : People]
  BY DEF FlowInv, RestTyped, WorldTypeOK
<1>3. issue[i].who \in People
  BY <1>2
<1>4. ASSUME NEW a \in People, UserCreates(i, a)
      PROVE  WorldTypeOK'
  BY <1>4, EventKeeps DEF UserCreates
<1>5. ASSUME NEW a \in People, UserAssigns(i, a)
      PROVE  WorldTypeOK'
  BY <1>5, EventKeeps DEF UserAssigns
<1>6. ASSUME UserCloses(i)
      PROVE  WorldTypeOK'
  <2>1. PICK a \in People : a = issue[i].who
    BY <1>3
  <2>2. UserEvent(i, [st |-> "closed", who |-> a], "remove")
    BY <1>6, <2>1 DEF UserCloses
  <2> QED
    BY <2>2, EventKeeps
<1>7. ASSUME UserEdits(i)
      PROVE  WorldTypeOK'
  <2>1. PICK a \in People : a = issue[i].who
    BY <1>3
  <2>2. UserEvent(i, [st |-> "open", who |-> a], "plain")
    BY <1>7, <2>1 DEF UserEdits
  <2> QED
    BY <2>2, EventKeeps
<1>8. WorldTypeOK'
  BY <1>1, <1>4, <1>5, <1>6, <1>7
<1> QED
  BY <1>8 DEF UsersStep, confVars, FlowInv, RestTyped

\* Shifts and reloads change the configuration only.
LEMMA OutsideKeeps ==
  ASSUME FlowInv, OutsideStep
  PROVE  RestTyped'
<1>1. configs' \in 0..MaxConfigs
  BY ServiceAssumption DEF OutsideStep, ShiftChanges, ConfigReloads, FlowInv, RestTyped
<1>2. groups' \in SUBSET Groups /\ onShift' \in SUBSET MemberSlots
  BY DEF OutsideStep, ShiftChanges, ConfigReloads, FlowInv, RestTyped
<1>3. MemberSlots' = MemberSlots
  BY DEF MemberSlots
<1> QED
  BY <1>1, <1>2, <1>3 DEF OutsideStep, ShiftChanges, ConfigReloads, worldVars, FlowInv,
                          RestTyped, WorldTypeOK

-----------------------------------------------------------------------------
TablesStep == [LedgerNext]_ledgerVars /\ [PendingCall]_pendingVars /\ [DlqNext]_dlqVars

\* The invariant, put together again.
LEMMA Together ==
  ASSUME FlowInv, TablesStep, RestTyped', HandlersFine',
         PendingWorkerTypeOK', ErrandKnown', DlqWorkerTypeOK', RetryInHand',
         SyncWorkerTypeOK', crashes' \in 0..MaxCrashes
  PROVE  FlowInv'
<1>1. LedgerInv' /\ PendingInv' /\ DlqInv'
  BY LedgerInvStep, PendingInvStep, DlqInvStep DEF FlowInv, TablesStep
<1>2. RowsHold'
  BY RowsHoldStep DEF FlowInv, TablesStep
<1> QED
  BY <1>1, <1>2 DEF FlowInv

LEMMA HandlersSame ==
  ASSUME FlowInv, UNCHANGED handlerVars
  PROVE  HandlersFine'
BY DEF FlowInv, handlerVars, HandlersFine, HandlerTypeOK, OneHandlerPerIssue, Busy, At, Key

LEMMA SyncSame ==
  ASSUME FlowInv, sworker' = sworker
  PROVE  SyncWorkerTypeOK'
BY DEF FlowInv, SyncWorkerTypeOK

\* Every step keeps the invariant and is, on each table, a call it allows.
LEMMA FlowStep == FlowInv /\ [Next]_vars => FlowInv' /\ TablesStep
<1> SUFFICES ASSUME FlowInv, [Next]_vars PROVE FlowInv' /\ TablesStep
  OBVIOUS
<1>1. CASE HandlersStep
  <2>1. HandlersKeep /\ UNCHANGED <<workerVars, crashes>>
    BY <1>1, HandlerNextKeeps DEF HandlersStep
  <2>2. pworker' = pworker /\ dworker' = dworker /\ sworker' = sworker
    BY <2>1 DEF workerVars
  <2>3. PendingWorkerTypeOK' /\ ErrandKnown'
    BY <2>1, <2>2, ErrandStays DEF HandlersKeep
  <2>4. [DlqNext]_dlqVars /\ DlqWorkerTypeOK' /\ RetryInHand'
    BY <2>1, <2>2, HandStays DEF HandlersKeep
  <2>5. TablesStep
    BY <2>1, <2>4 DEF HandlersKeep, TablesStep
  <2> QED
    BY <2>1, <2>2, <2>3, <2>4, <2>5, SyncSame, Together DEF HandlersKeep, FlowInv
<1>2. CASE PendingStep
  <2>1. PendingKeep /\ UNCHANGED <<handlerVars, dworker, sworker, crashes>>
    BY <1>2, PendingWorkerKeeps DEF PendingStep
  <2>2. [DlqNext]_dlqVars /\ DlqWorkerTypeOK' /\ RetryInHand'
    BY <2>1, HandStays DEF PendingKeep
  <2>3. TablesStep
    BY <2>1, <2>2 DEF PendingKeep, TablesStep
  <2> QED
    BY <2>1, <2>2, <2>3, HandlersSame, SyncSame, Together DEF PendingKeep, FlowInv
<1>3. CASE DlqStep
  <2>1. RetryKeep /\ UNCHANGED <<handlerVars, pworker, sworker, crashes>>
    BY <1>3, RetryWorkerKeeps DEF DlqStep
  <2>2. PendingWorkerTypeOK' /\ ErrandKnown'
    BY <2>1, ErrandStays DEF RetryKeep
  <2>3. TablesStep
    BY <2>1 DEF RetryKeep, TablesStep
  <2> QED
    BY <2>1, <2>2, <2>3, HandlersSame, SyncSame, Together DEF RetryKeep, FlowInv
<1>4. CASE SyncStep
  <2>1. SyncKeep /\ UNCHANGED <<handlerVars, pworker, dworker, crashes>>
    BY <1>4, SyncWorkerKeeps DEF SyncStep
  <2>2. PendingWorkerTypeOK' /\ ErrandKnown'
    BY <2>1, ErrandStays DEF SyncKeep
  <2>3. DlqWorkerTypeOK' /\ RetryInHand'
    BY <2>1, HandStays DEF SyncKeep, DlqGrows
  <2>4. TablesStep
    BY <2>1 DEF SyncKeep, TablesStep
  <2> QED
    BY <2>1, <2>2, <2>3, <2>4, HandlersSame, Together DEF SyncKeep, FlowInv
<1>5. CASE UsersStep \/ OutsideStep \/ UNCHANGED vars
  <2>1. UNCHANGED <<ledgerVars, pendingVars, dlqVars, handlerVars, workerVars, crashes>>
    BY <1>5 DEF UsersStep, OutsideStep, ShiftChanges, ConfigReloads, vars, serviceVars
  <2>2. pworker' = pworker /\ dworker' = dworker /\ sworker' = sworker
    BY <2>1 DEF workerVars
  <2>3. RestTyped'
    <3>1. CASE UNCHANGED vars
      BY <3>1, RestKeeps DEF vars, serviceVars, FlowInv, RestTyped
    <3> QED
      BY <1>5, <3>1, UsersKeep, OutsideKeeps
  <2>4. TablesStep
    BY <2>1 DEF TablesStep
  <2>5. PendingWorkerTypeOK' /\ ErrandKnown' /\ DlqWorkerTypeOK' /\ RetryInHand'
    BY <2>1, <2>2, ErrandStays, HandStays DEF DlqGrows
  <2> QED
    BY <2>1, <2>2, <2>3, <2>4, <2>5, HandlersSame, SyncSame, Together DEF FlowInv
<1>6. CASE Crash
  <2>1. UNCHANGED serviceVars
    BY <1>6 DEF Crash
  <2>2. TablesStep
    BY <2>1 DEF TablesStep, serviceVars
  <2>3. RestTyped'
    BY <2>1, RestKeeps DEF FlowInv, RestTyped, serviceVars
  <2>4. HandlersFine'
    BY <1>6 DEF Crash, HandlersLost, HandlersFine, HandlerTypeOK, OneHandlerPerIssue, Busy,
                At, Idle
  <2>5. /\ PendingWorkerTypeOK' /\ ErrandKnown' /\ DlqWorkerTypeOK' /\ RetryInHand'
        /\ SyncWorkerTypeOK'
    BY <1>6, DlqAssumption
       DEF Crash, PendingWorkerLost, DlqWorkerLost, SyncWorkerLost, PendingWorkerTypeOK,
           ErrandKnown, PAt, PIdle, DlqWorkerTypeOK, RetryInHand, DAt, DIdle, SyncWorkerTypeOK
  <2>6. crashes' \in 0..MaxCrashes
    BY <1>6, FlowAssumption DEF Crash, FlowInv
  <2> QED
    BY <2>2, <2>3, <2>4, <2>5, <2>6, Together
<1> QED
  BY <1>1, <1>2, <1>3, <1>4, <1>5, <1>6 DEF Next

LEMMA FlowInit == Init => FlowInv
<1> SUFFICES ASSUME Init PROVE FlowInv
  OBVIOUS
<1>1. LedgerInv
  BY LedgerInvInit DEF Init, ServiceInit
<1>2. PendingInv
  BY DEF Init, ServiceInit, PendingInit, PendingInv, PendingTypeOK, PendingUnique
<1>3. DlqInv /\ RowsHold
  BY DlqAssumption DEF Init, ServiceInit, DlqInit, DlqInv, DlqTypeOK, RetryBudget, RowIds, RowsHold
<1>4. RestTyped
  BY WorldAssumption, ServiceAssumption
     DEF Init, ServiceInit, WorldInit, RestTyped, WorldTypeOK, People
<1>5. HandlersFine
  BY DEF Init, HandlerInit, HandlersFine, HandlerTypeOK, OneHandlerPerIssue, Busy, At, Idle
<1>6. /\ PendingWorkerTypeOK /\ ErrandKnown /\ DlqWorkerTypeOK /\ RetryInHand
      /\ SyncWorkerTypeOK
  BY DlqAssumption
     DEF Init, PendingWorkerInit, DlqWorkerInit, SyncWorkerInit, PendingWorkerTypeOK,
         ErrandKnown, PAt, PIdle, DlqWorkerTypeOK, RetryInHand, DAt, DIdle, SyncWorkerTypeOK
<1>7. crashes \in 0..MaxCrashes
  BY FlowAssumption DEF Init
<1> QED
  BY <1>1, <1>2, <1>3, <1>4, <1>5, <1>6, <1>7 DEF FlowInv

LEMMA FlowInvariant == Spec => []FlowInv
BY FlowInit, FlowStep, PTL DEF Spec

-----------------------------------------------------------------------------
\* Types of the whole service: in particular a request, an errand or a pass always
\* has what its next call needs.
THEOREM ServiceTyped == Spec => []TypeOK
<1>1. FlowInv => TypeOK
  BY DEF FlowInv, TypeOK, ServiceTypeOK, LedgerInv, PendingInv, DlqInv, RestTyped, HandlersFine
<1> QED
  BY <1>1, FlowInvariant, PTL

\* The per-issue lock of assigner.go:198-235 is exact: no two requests with one
\* key, and no key that stays locked.
THEOREM IssuesLockedExactly == Spec => []OneHandlerPerIssue
<1>1. FlowInv => OneHandlerPerIssue
  BY DEF FlowInv, HandlersFine
<1> QED
  BY <1>1, FlowInvariant, PTL

\* Handlers, workers, users and crashes together do to the three tables only what
\* each table allows, one call at a time.
THEOREM ServiceImplementsTables == Spec => TablesImplemented
<1>1. Init => LedgerInit /\ PendingInit /\ DlqInit
  BY DEF Init, ServiceInit
<1>2. FlowInv /\ [Next]_vars =>
        [LedgerNext]_ledgerVars /\ [PendingCall]_pendingVars /\ [DlqNext]_dlqVars
  BY FlowStep DEF TablesStep
<1> QED
  BY <1>1, <1>2, FlowInvariant, PTL DEF Spec, TablesImplemented, LedgerSpec, PendingSpec, DlqSpec

\* So what is proved of the tables holds in the service: counters accounted for and
\* growing with tracked issues only, issues that stay in their group, no ticket twice
\* in the queue or overtaken, retries within their budget.
THEOREM TablesHoldInService ==
  Spec => /\ []LoadAccounted /\ LoadGrowsOnlyWithTracking /\ GroupSticky
          /\ []PendingUnique /\ KeepsPlace
          /\ []RetryBudget /\ VerdictFinal
BY ServiceImplementsTables, LedgerConserved, LedgerGrowth, LedgerGroupSticky,
   PendingRowsUnique, PendingFirstComeFirstServed, RetryBudgetKept,
   VerdictsAreFinal, PTL DEF TablesImplemented

-----------------------------------------------------------------------------
\* No ticket is lost.  A ticket taken on waits, or has a row for the retry worker
\* whose call has not been made yet; the places of the actors say why that stays so.
Owing == {"check", "pick", "enqueue", "assign", "failed"}

HeldRow(i, n) ==
  /\ dlqStatus[n] = "pending" /\ dlqItem[n][1] = i
  /\ ~(dworker.row = n /\ dworker.at \in {"record", "resolve"})

Held(i) == IsPending(i) \/ \E n \in RowIds : HeldRow(i, n)

DutyHeld == \A i \in duty : Held(i)

\* A request that will take its ticket out of the queue owes nobody anything.
HandlersClear ==
  \A h \in Handlers : (~At(h, "idle") /\ handler[h].at \notin Owing) => Key(h) \notin duty

\* The id the pending worker deletes by still means the ticket it was read for.
ErrandSame ==
  ~PAt("idle") => \A r \in pending : r.id = pworker.row.id => r.key = pworker.row.key

\* Before a ticket leaves the queue its row for the retry worker is in place, and
\* too young to be in that worker's hand.
BuriedSafe ==
  PAt("buried") =>
    \E n \in RowIds : /\ dlqStatus[n] = "pending"
                      /\ dlqItem[n] = <<pworker.row.key, pworker.slot>>
                      /\ DAt("idle") \/ dworker.row # n

DutyInv == DutyHeld /\ HandlersClear /\ ErrandSame /\ BuriedSafe

LEMMA FailureCounts ==
  ASSUME FlowInv
  PROVE  dbFaults # dbFaults + 1
<1>1. dbFaults \in Nat
  BY ServiceAssumption DEF FlowInv, RestTyped
<1> QED
  BY <1>1

\* What is in the dead letter queue stays there while its worker does nothing.
LEMMA RowsStay ==
  ASSUME FlowInv, DlqGrows, NEW n \in RowIds, dlqStatus[n] = "pending"
  PROVE  dlqStatus'[n] = "pending" /\ dlqItem'[n] = dlqItem[n]
<1>1. CASE UNCHANGED dlqVars
  BY <1>1 DEF dlqVars
<1>2. ASSUME NEW item \in DlqItems, EnqueueDLQ(item)
      PROVE  dlqStatus'[n] = "pending" /\ dlqItem'[n] = dlqItem[n]
  BY <1>2, DlqAssumption DEF EnqueueDLQ, FlowInv, DlqInv, DlqTypeOK, RetryBudget, RowIds
<1> QED
  BY <1>1, <1>2 DEF DlqGrows

\* A new row: there was none in its place, so it is in nobody's hand.
LEMMA NewRow ==
  ASSUME FlowInv, NEW item \in DlqItems, EnqueueDLQ(item)
  PROVE  \E n \in RowIds : /\ dlqStatus'[n] = "pending" /\ dlqItem'[n] = item
                           /\ DAt("idle") \/ dworker.row # n
<1> DEFINE n == dlqLast + 1
<1>1. n \in RowIds /\ dlqStatus[n] = "unused"
  BY DlqAssumption DEF EnqueueDLQ, FlowInv, DlqInv, DlqTypeOK, RetryBudget, RowIds
<1>2. dlqStatus'[n] = "pending" /\ dlqItem'[n] = item
  BY <1>1 DEF EnqueueDLQ, FlowInv, DlqInv, DlqTypeOK
<1>3. DAt("idle") \/ dworker.row # n
  BY <1>1 DEF FlowInv, RetryInHand, Retryable
<1> QED
  BY <1>1, <1>2, <1>3

\* The tickets that are neither taken out of the queue nor added.
LEMMA HeldStays ==
  ASSUME FlowInv, DlqGrows, dworker' = dworker, NEW i, Held(i),
         IsPending(i) => IsPending(i)'
  PROVE  Held(i)'
<1>1. CASE IsPending(i)
  BY <1>1 DEF Held
<1>2. ASSUME NEW n \in RowIds, HeldRow(i, n)
      PROVE  Held(i)'
  BY <1>2, RowsStay DEF HeldRow, Held, RowIds
<1> QED
  BY <1>1, <1>2 DEF Held

\* The pending worker's errand stands while others work.
LEMMA ErrandStands ==
  ASSUME FlowInv, ErrandSame, [PendingCall]_pendingVars,
         ~PAt("idle")' => ~PAt("idle") /\ pworker'.row = pworker.row
  PROVE  ErrandSame'
<1> SUFFICES ASSUME ~PAt("idle")', NEW r \in pending', r.id = pworker'.row.id
             PROVE  r.key = pworker'.row.key
  BY DEF ErrandSame
<1>1. pworker.row.id \in 1..lastPendingId /\ lastPendingId \in Nat
  BY DEF FlowInv, ErrandKnown, PendingInv, PendingTypeOK
<1>2. r \in pending \/ r.id = lastPendingId + 1
  BY DEF PendingCall, EnqueuePending, NewRows, MarkPendingAssigned, RemovePendingByIssueKey,
         pendingVars
<1>3. r \in pending
  BY <1>1, <1>2
<1> QED
  BY <1>3 DEF ErrandSame

LEMMA BuriedStays ==
  ASSUME FlowInv, BuriedSafe, DlqGrows, pworker' = pworker, dworker' = dworker
  PROVE  BuriedSafe'
<1> SUFFICES ASSUME PAt("buried")
             PROVE  BuriedSafe'
  BY DEF BuriedSafe, PAt
<1>1. PICK n \in RowIds : /\ dlqStatus[n] = "pending"
                          /\ dlqItem[n] = <<pworker.row.key, pworker.slot>>
                          /\ DAt("idle") \/ dworker.row # n
  BY DEF BuriedSafe
<1>2. dlqStatus'[n] = "pending" /\ dlqItem'[n] = dlqItem[n]
  BY <1>1, RowsStay
<1>3. n \in RowIds' /\ (DAt("idle") \/ dworker.row # n)'
  BY <1>1 DEF DAt, RowIds
<1> QED
  BY <1>1, <1>2, <1>3 DEF BuriedSafe

-----------------------------------------------------------------------------
\* One request takes a step: it ends or goes on with its message.
Moves(h) ==
  /\ handler'[h] = Idle \/ Key(h)' = Key(h)
  /\ \A k \in Handlers \ {h} : handler'[k] = handler[k]

LEMMA StepMoves ==
  ASSUME FlowInv, NEW h \in Handlers, ~At(h, "idle"), HandlerStep(h) \/ HangUp(h)
  PROVE  Moves(h)
<1>1. handler[h] \in Requests /\ handler \in [Handlers -> {Idle} \cup Requests]
  BY BusyRequest DEF FlowInv, HandlersFine, HandlerTypeOK
<1>2. ASSUME NEW r, r.m = handler[h].m, handler' = [handler EXCEPT ![h] = r]
      PROVE  Moves(h)
  BY <1>1, <1>2 DEF Moves, Key
<1>3. CASE handler' = [handler EXCEPT ![h] = Idle]
  BY <1>1, <1>3 DEF Moves
<1>4. ASSUME NEW l, Goto(h, l)
      PROVE  Moves(h)
  <2> DEFINE r == [handler[h] EXCEPT !.at = l]
  <2>1. r.m = handler[h].m
    BY <1>1 DEF Requests
  <2>2. handler' = [handler EXCEPT ![h] = r]
    BY <1>4 DEF Goto
  <2> HIDE DEF r
  <2> QED
    BY <1>2, <2>1, <2>2
<1>5. ASSUME NEW l, NEW s, handler' = [handler EXCEPT ![h].at = l, ![h].slot = s]
      PROVE  Moves(h)
  <2> DEFINE r == [handler[h] EXCEPT !.at = l, !.slot = s]
  <2>1. r.m = handler[h].m
    BY <1>1 DEF Requests
  <2>2. handler' = [handler EXCEPT ![h] = r]
    BY <1>1, <1>5
  <2> HIDE DEF r
  <2> QED
    BY <1>2, <2>1, <2>2
<1>6. ASSUME NEW l, NEW s, NEW b,
             handler' = [handler EXCEPT ![h].at = l, ![h].slot = s, ![h].known = b]
      PROVE  Moves(h)
  <2> DEFINE r == [handler[h] EXCEPT !.at = l, !.slot = s, !.known = b]
  <2>1. r.m = handler[h].m
    BY <1>1 DEF Requests
  <2>2. handler' = [handler EXCEPT ![h] = r]
    BY <1>1, <1>6
  <2> HIDE DEF r
  <2> QED
    BY <1>2, <2>1, <2>2
<1>7. ASSUME NEW l, NEW e, handler' = [handler EXCEPT ![h].at = l, ![h].err = e]
      PROVE  Moves(h)
  <2> DEFINE r == [handler[h] EXCEPT !.at = l, !.err = e]
  <2>1. r.m = handler[h].m
    BY <1>1 DEF Requests
  <2>2. handler' = [handler EXCEPT ![h] = r]
    BY <1>1, <1>7
  <2> HIDE DEF r
  <2> QED
    BY <1>2, <2>1, <2>2
<1>8. CASE HangUp(h)
  BY <1>3, <1>8 DEF HangUp
<1>9. CASE Release(h) \/ Charge(h) \/ Clear(h) \/ Unassign(h) \/ Book(h) \/ Refund(h) \/ Record(h)
  BY <1>4, <1>9 DEF Release, Charge, Clear, Unassign, Book, Refund, Record
<1>10. CASE Leave(h) \/ Adopt(h) \/ Enqueue(h) \/ AssignFailed(h)
  BY <1>3, <1>10 DEF Leave, Adopt, Enqueue, AssignFailed, Return
<1>11. CASE ReadAssignment(h)
  BY <1>4, <1>6, <1>11 DEF ReadAssignment
<1>12. CASE Dequeue(h)
  BY <1>3, <1>5, <1>12 DEF Dequeue, Return
<1>13. CASE Check(h)
  BY <1>3, <1>4, <1>13 DEF Check, Return
<1>14. CASE Pick(h)
  BY <1>3, <1>4, <1>5, <1>14 DEF Pick, Return
<1>15. CASE Assign(h)
  BY <1>7, <1>15 DEF Assign
<1> QED
  BY <1>8, <1>9, <1>10, <1>11, <1>12, <1>13, <1>14, <1>15 DEF HandlerStep

\* The other requests have other keys, so what one does to its own does not bother
\* them.
LEMMA ClearMoves ==
  ASSUME FlowInv, HandlersClear, NEW h \in Handlers, ~At(h, "idle"), Moves(h),
         duty' \subseteq duty \cup {Key(h)},
         \/ handler'[h].at \in Owing \cup {"idle"}
         \/ Key(h) \notin duty'
  PROVE  HandlersClear'
<1> SUFFICES ASSUME NEW k \in Handlers, ~At(k, "idle")', handler'[k].at \notin Owing
             PROVE  Key(k)' \notin duty'
  BY DEF HandlersClear
<1>1. CASE k = h
  BY <1>1 DEF Moves, At, Idle
<1>2. CASE k # h
  <2>1. handler'[k] = handler[k]
    BY <1>2 DEF Moves
  <2>2. ~At(k, "idle") /\ Key(k)' = Key(k) /\ Key(k) \notin duty
    BY <2>1 DEF At, Key, HandlersClear
  <2>3. Key(k) # Key(h)
    BY <1>2, <2>2 DEF FlowInv, HandlersFine, OneHandlerPerIssue, Busy
  <2> QED
    BY <2>2, <2>3
<1> QED
  BY <1>1, <1>2

\* What a handler's step leaves to be shown, the errands of the workers apart.
LEMMA DutyTogether ==
  ASSUME FlowInv, DutyInv, HandlersKeep, UNCHANGED <<pworker, dworker>>,
         HandlersClear', DutyHeld'
  PROVE  DutyInv'
<1>1. ErrandSame'
  BY ErrandStands DEF DutyInv, HandlersKeep, PAt
<1>2. BuriedSafe'
  BY BuriedStays DEF DutyInv, HandlersKeep
<1> QED
  BY <1>1, <1>2 DEF DutyInv

\* A request that owes nothing: its ticket is on nobody's list.
LEMMA ClearSteps ==
  ASSUME FlowInv, DutyInv, HandlersKeep, UNCHANGED <<pworker, dworker, duty>>,
         NEW h \in Handlers, ~At(h, "idle"), Moves(h), handler[h].at \notin Owing,
         UNCHANGED pendingVars \/ RemovePendingByIssueKey(Key(h))
  PROVE  DutyInv'
<1>1. Key(h) \notin duty
  BY DEF DutyInv, HandlersClear
<1>2. HandlersClear'
  BY <1>1, ClearMoves DEF DutyInv
<1>3. ASSUME NEW i \in duty'
      PROVE  Held(i)'
  <2>1. Held(i) /\ i # Key(h)
    BY <1>1, <1>3 DEF DutyInv, DutyHeld
  <2>2. IsPending(i) => IsPending(i)'
    BY <2>1 DEF IsPending, RemovePendingByIssueKey, pendingVars
  <2> QED
    BY <2>1, <2>2, HeldStays DEF HandlersKeep
<1> QED
  BY <1>2, <1>3, DutyTogether DEF DutyHeld

\* A step that leaves the queue alone and promises nothing.
LEMMA SparingSteps ==
  ASSUME FlowInv, DutyInv, HandlersKeep, UNCHANGED <<pworker, dworker, pendingVars>>,
         NEW h \in Handlers, ~At(h, "idle"), Moves(h), duty' \subseteq duty,
         handler'[h].at \in Owing \cup {"idle"} \/ Key(h) \notin duty'
  PROVE  DutyInv'
<1>1. HandlersClear'
  BY ClearMoves DEF DutyInv
<1>2. ASSUME NEW i \in duty'
      PROVE  Held(i)'
  BY <1>2, HeldStays DEF DutyInv, DutyHeld, IsPending, pendingVars, HandlersKeep
<1> QED
  BY <1>1, <1>2, DutyTogether DEF DutyHeld

LEMMA EnqueueDuty ==
  ASSUME FlowInv, DutyInv, HandlersKeep, UNCHANGED <<pworker, dworker>>,
         NEW h \in Handlers, Enqueue(h), Moves(h)
  PROVE  DutyInv'
<1>1. ~At(h, "idle") /\ handler'[h] = Idle
  BY DEF Enqueue, At, Return, FlowInv, HandlersFine, HandlerTypeOK
<1>2. PICK key \in Issues : key = Key(h)
  BY <1>1, BusyRequest DEF FlowInv
<1>3. \/ EnqueuePending(key, Route[key])
      \/ UNCHANGED pendingVars /\ duty' = duty
  BY <1>2, FailureCounts DEF Enqueue, Write, TakeOn
<1>4. duty' \subseteq duty \cup {key}
  BY <1>2 DEF Enqueue, TakeOn
<1>5. /\ duty' = duty \/ IsPending(key)'
      /\ \A i \in Issues : IsPending(i) => IsPending(i)'
  <2>1. CASE UNCHANGED pendingVars /\ (IsPending(key) \/ duty' = duty)
    BY <2>1 DEF IsPending, pendingVars
  <2>2. ASSUME NEW r \in NewRows(key, Route[key]), pending' = pending \cup {r}
        PROVE  IsPending(key)' /\ \A i \in Issues : IsPending(i) => IsPending(i)'
    <3>1. r \in pending' /\ r.key = key /\ pending \subseteq pending'
      BY <2>2 DEF NewRows
    <3> QED
      BY <3>1 DEF IsPending
  <2> QED
    BY <1>3, <2>1, <2>2 DEF EnqueuePending
<1>6. HandlersClear'
  BY <1>1, <1>2, <1>4, ClearMoves DEF DutyInv, Idle
<1>7. ASSUME NEW i \in duty'
      PROVE  Held(i)'
  <2>1. CASE i \notin duty
    BY <1>4, <1>5, <1>7, <2>1 DEF Held
  <2>2. CASE i \in duty
    <3>1. i \in Issues
      BY <2>2 DEF FlowInv, RestTyped
    <3> QED
      BY <1>5, <2>2, <3>1, HeldStays DEF DutyInv, DutyHeld, HandlersKeep
  <2> QED
    BY <2>1, <2>2
<1> QED
  BY <1>6, <1>7, DutyTogether DEF DutyHeld

LEMMA AssignFailedDuty ==
  ASSUME FlowInv, DutyInv, HandlersKeep, UNCHANGED <<pworker, dworker>>,
         NEW h \in Handlers, AssignFailed(h), Moves(h)
  PROVE  DutyInv'
<1>1. ~At(h, "idle") /\ handler'[h] = Idle /\ UNCHANGED pendingVars
  BY DEF AssignFailed, At, Return, OnlyDlq, FlowInv, HandlersFine, HandlerTypeOK
<1>2. PICK key \in Issues, s \in Slots : key = Key(h) /\ s = handler[h].slot
  BY <1>1, BusyRequest DEF FlowInv, AssignFailed, At, Requests
<1>3. duty' \subseteq duty \cup {key}
  BY <1>2 DEF AssignFailed, TakeOn
<1>4. HandlersClear'
  BY <1>1, <1>2, <1>3, ClearMoves DEF DutyInv, Idle
<1>5. ASSUME NEW i \in duty
      PROVE  Held(i)'
  BY <1>1, <1>5, HeldStays DEF DutyInv, DutyHeld, HandlersKeep, IsPending, pendingVars
<1>6. CASE duty' = duty
  BY <1>4, <1>5, <1>6, DutyTogether DEF DutyHeld
<1>7. CASE duty' # duty
  <2>1. EnqueueDLQ(<<key, s>>) /\ <<key, s>> \in DlqItems
    BY <1>2, <1>7, FailureCounts, ServiceAssumption DEF AssignFailed, Write, TakeOn
  <2>2. PICK n \in RowIds : /\ dlqStatus'[n] = "pending" /\ dlqItem'[n] = <<key, s>>
                            /\ DAt("idle") \/ dworker.row # n
    BY <2>1, NewRow
  <2>3. HeldRow(key, n)'
    BY <2>2 DEF HeldRow, DAt
  <2>4. Held(key)'
    BY <2>3 DEF Held, RowIds
  <2> QED
    BY <1>3, <1>4, <1>5, <2>4, DutyTogether DEF DutyHeld
<1> QED
  BY <1>6, <1>7

\* A step of a request, of any label.
LEMMA RequestDuty ==
  ASSUME FlowInv, DutyInv, HandlersKeep, UNCHANGED <<pworker, dworker>>,
         NEW h \in Handlers, HandlerStep(h) \/ HangUp(h)
  PROVE  DutyInv'
<1>1. ~At(h, "idle")
  BY DEF HandlerStep, HangUp, At, Release, Charge, Clear, Leave, Unassign, ReadAssignment, Book,
         Refund, Dequeue, Adopt, Check, Pick, Enqueue, Assign, AssignFailed, Record
<1>2. Moves(h)
  BY <1>1, StepMoves
<1>3. handler \in [Handlers -> {Idle} \cup Requests] /\ handler[h] \in Requests
  BY <1>1, BusyRequest DEF FlowInv, HandlersFine, HandlerTypeOK
<1>4. CASE Release(h) \/ Charge(h) \/ Unassign(h) \/ Book(h) \/ Refund(h) \/ Adopt(h) \/ Record(h)
  BY <1>1, <1>2, <1>4, ClearSteps
     DEF Release, Charge, Unassign, Book, Refund, Adopt, Record, OnlyLedger, At, Owing
<1>5. CASE Clear(h)
  BY <1>1, <1>2, <1>5, ClearSteps DEF Clear, OnlyWorld, At, Owing
<1>6. CASE Leave(h) \/ Dequeue(h)
  BY <1>1, <1>2, <1>6, ClearSteps DEF Leave, Dequeue, Write, At, Owing, Key
<1>7. CASE ReadAssignment(h)
  BY <1>1, <1>2, <1>7, ClearSteps DEF ReadAssignment, ReadFails, serviceVars, At, Owing
<1>8. CASE HangUp(h)
  <2>1. handler'[h] = Idle /\ duty' = duty /\ UNCHANGED pendingVars
    BY <1>3, <1>8 DEF HangUp, OnlyWorld
  <2> QED
    BY <1>1, <1>2, <2>1, SparingSteps DEF Idle
<1>9. CASE Check(h) \/ Pick(h)
  <2>1. duty' = duty /\ UNCHANGED pendingVars
    BY <1>9 DEF Check, Pick, ReadFails, serviceVars
  <2>2. handler'[h].at \in Owing \cup {"idle"}
    BY <1>3, <1>9 DEF Check, Pick, Return, Goto, Idle, Owing, Requests
  <2> QED
    BY <1>1, <1>2, <2>1, <2>2, SparingSteps
<1>10. CASE Assign(h)
  <2>1. UNCHANGED pendingVars
    BY <1>10 DEF Assign, OnlyWorld
  <2>2. \/ duty' = duty \ {Key(h)}
        \/ duty' = duty /\ handler'[h].at = "failed"
    BY <1>3, <1>10 DEF Assign, Requests
  <2> QED
    BY <1>1, <1>2, <2>1, <2>2, SparingSteps DEF Owing
<1>11. CASE Enqueue(h)
  BY <1>2, <1>11, EnqueueDuty
<1>12. CASE AssignFailed(h)
  BY <1>2, <1>12, AssignFailedDuty
<1> QED
  BY <1>4, <1>5, <1>6, <1>7, <1>8, <1>9, <1>10, <1>11, <1>12 DEF HandlerStep

\* A request comes in: what its ticket was owed by a queue, it takes over or drops.
LEMMA ReceiveDuty ==
  ASSUME FlowInv, DutyInv, HandlersKeep, UNCHANGED <<pworker, dworker>>,
         NEW h \in Handlers, NEW m, ReceiveWebhook(h, m)
  PROVE  DutyInv'
<1>1. duty' \subseteq duty /\ UNCHANGED pendingVars
  BY DEF ReceiveWebhook
<1>2. /\ handler'[h].at = Branch(m) /\ Key(h)' = m.key
      /\ \A k \in Handlers \ {h} : handler'[k] = handler[k]
  <2>1. PICK from \in KnownAs[m.from], to \in KnownAs[m.to] :
          handler' = [handler EXCEPT ![h] =
                        [at |-> Branch(m), m |-> Resolved(m, from, to), slot |-> NoRow,
                         known |-> FALSE, err |-> "ok"]]
    BY DEF ReceiveWebhook
  <2>2. m \in Webhook
    BY DEF ReceiveWebhook, TakeWebhook, FlowInv, RestTyped, WorldTypeOK
  <2>3. Resolved(m, from, to).key = m.key
    BY <2>2, ResolvedFits
  <2> QED
    BY <2>1, <2>3 DEF Key, FlowInv, HandlersFine, HandlerTypeOK
<1>3. Branch(m) = "check" \/ m.key \notin duty'
  BY DEF ReceiveWebhook
<1>4. HandlersClear'
  BY <1>1, <1>2, <1>3 DEF DutyInv, HandlersClear, Owing, At, Key
<1>5. ASSUME NEW i \in duty'
      PROVE  Held(i)'
  BY <1>1, <1>5, HeldStays DEF DutyInv, DutyHeld, IsPending, pendingVars, HandlersKeep
<1> QED
  BY <1>4, <1>5, DutyTogether DEF DutyHeld

LEMMA HandlersClearStays ==
  ASSUME HandlersClear, handler' = handler, duty' \subseteq duty
  PROVE  HandlersClear'
BY DEF HandlersClear, At, Key

LEMMA HandlersDuty ==
  ASSUME FlowInv, DutyInv, HandlersStep
  PROVE  DutyInv'
<1>1. HandlersKeep /\ HandlerNext /\ pworker' = pworker /\ dworker' = dworker
  BY HandlerNextKeeps DEF HandlersStep, workerVars
<1>2. ASSUME handler' = handler, duty' = duty, UNCHANGED pendingVars
      PROVE  DutyInv'
  <2>1. HandlersClear'
    BY <1>2, HandlersClearStays DEF DutyInv
  <2>2. ASSUME NEW i \in duty'
        PROVE  Held(i)'
    BY <1>1, <1>2, <2>2, HeldStays DEF DutyInv, DutyHeld, IsPending, pendingVars, HandlersKeep
  <2> QED
    BY <1>1, <2>1, <2>2, DutyTogether DEF DutyHeld
<1>3. CASE \E i \in Issues : DedupExpires(i)
  BY <1>2, <1>3 DEF DedupExpires, serviceVars
<1>4. CASE \E m \in inbox : DropWebhook(m)
  BY <1>2, <1>4 DEF DropWebhook, handlerVars
<1>5. CASE \E m \in inbox : \E h \in Handlers : ReceiveWebhook(h, m)
  BY <1>1, <1>5, ReceiveDuty
<1>6. CASE \E h \in Handlers : HandlerStep(h) \/ HangUp(h)
  BY <1>1, <1>6, RequestDuty
<1> QED
  BY <1>1, <1>3, <1>4, <1>5, <1>6 DEF HandlerNext

-----------------------------------------------------------------------------
\* The pending worker.  What its steps leave to be shown.
LEMMA PendingDutyTogether ==
  ASSUME FlowInv, DutyInv, PendingKeep, UNCHANGED <<handlerVars, dworker>>,
         duty' \subseteq duty,
         \A i \in duty' : IsPending(i) => IsPending(i)',
         ErrandSame', BuriedSafe'
  PROVE  DutyInv'
<1>1. HandlersClear'
  BY HandlersClearStays DEF DutyInv, handlerVars
<1>2. ASSUME NEW i \in duty'
      PROVE  Held(i)'
  BY <1>2, HeldStays DEF DutyInv, DutyHeld, PendingKeep
<1> QED
  BY <1>1, <1>2 DEF DutyInv, DutyHeld

LEMMA FetchPendingDuty ==
  ASSUME FlowInv, DutyInv, PendingKeep, UNCHANGED <<handlerVars, dworker>>, FetchPending
  PROVE  DutyInv'
<1>1. PICK q \in pending : pworker' = [at |-> "pick", row |-> q, slot |-> NoRow, err |-> "none"]
  BY DEF FetchPending
<1>2. duty' = duty /\ pending' = pending
  BY DEF FetchPending, serviceVars, pendingVars
<1>3. ErrandSame'
  BY <1>1, <1>2 DEF ErrandSame, FlowInv, PendingInv, PendingUnique
<1>4. BuriedSafe'
  BY <1>1 DEF BuriedSafe, PAt
<1> QED
  BY <1>2, <1>3, <1>4, PendingDutyTogether DEF IsPending

\* The steps before the bury: the errand goes on with its row, or ends.
LEMMA ErrandDuty ==
  ASSUME FlowInv, DutyInv, PendingKeep, UNCHANGED <<handlerVars, dworker, pendingVars>>,
         duty' \subseteq duty, ~PAt("idle"), ~PAt("buried")',
         pworker' = PIdle \/ pworker'.row = pworker.row
  PROVE  DutyInv'
<1>1. ErrandSame'
  BY ErrandStands DEF DutyInv, PendingKeep, PAt, PIdle
<1>2. BuriedSafe'
  BY DEF BuriedSafe
<1> QED
  BY <1>1, <1>2, PendingDutyTogether DEF IsPending, pendingVars

LEMMA BuryPendingDuty ==
  ASSUME FlowInv, DutyInv, PendingKeep, UNCHANGED <<handlerVars, dworker>>,
         BuryPending
  PROVE  DutyInv'
<1>1. pworker \in Errands /\ pworker.row.key \in Issues /\ pworker.slot \in Slots
  BY Errand DEF BuryPending, PAt, Errands
<1>2. /\ pworker'.row = pworker.row /\ pworker'.slot = pworker.slot
      /\ pworker'.at = IF dbFaults' = dbFaults THEN "buried" ELSE "unburied"
  BY <1>1 DEF BuryPending, PGoto, Errands
<1>3. PICK key \in Issues, s \in Slots : key = pworker.row.key /\ s = pworker.slot
  BY <1>1
<1>4. CASE dbFaults' # dbFaults
  BY <1>2, <1>4, ErrandDuty DEF BuryPending, OnlyDlq, PAt
<1>5. CASE dbFaults' = dbFaults
  <2>1. EnqueueDLQ(<<key, s>>) /\ <<key, s>> \in DlqItems
    BY <1>3, <1>5, FailureCounts, ServiceAssumption DEF BuryPending, Write
  <2>2. PICK n \in RowIds : /\ dlqStatus'[n] = "pending" /\ dlqItem'[n] = <<key, s>>
                            /\ DAt("idle") \/ dworker.row # n
    BY <2>1, NewRow
  <2>3. BuriedSafe'
    BY <1>2, <1>3, <2>2 DEF BuriedSafe, DAt, RowIds
  <2>4. ErrandSame'
    BY <1>2, ErrandStands DEF DutyInv, PendingKeep, BuryPending, PAt
  <2> QED
    BY <2>3, <2>4, PendingDutyTogether DEF BuryPending, OnlyDlq, IsPending, pendingVars
<1> QED
  BY <1>4, <1>5

\* The row deleted is the ticket's own; what was buried has its row elsewhere.
LEMMA DeletePendingDuty ==
  ASSUME FlowInv, DutyInv, PendingKeep, UNCHANGED <<handlerVars, dworker>>,
         DeletePending
  PROVE  DutyInv'
<1>1. ~PAt("idle") /\ pworker' = PIdle /\ UNCHANGED dlqVars
  BY DEF DeletePending, PAt, PStop, OnlyPending
<1>2. \/ dbFaults' = dbFaults /\ pending' = {r \in pending : r.id # pworker.row.id}
      \/ dbFaults' # dbFaults /\ pending' = pending
  BY FailureCounts DEF DeletePending, Write, MarkPendingAssigned, pendingVars
<1>3. duty' \subseteq duty
  BY DEF DeletePending
<1>4. HandlersClear'
  BY <1>3, HandlersClearStays DEF DutyInv, handlerVars
<1>5. ASSUME NEW i \in duty'
      PROVE  Held(i)'
  <2>1. CASE i # pworker.row.key \/ dbFaults' # dbFaults
    <3>1. IsPending(i) => IsPending(i)'
      BY <1>1, <1>2, <2>1 DEF IsPending, DutyInv, ErrandSame
    <3> QED
      BY <1>3, <1>5, <3>1, HeldStays DEF DutyInv, DutyHeld, PendingKeep
  <2>2. CASE i = pworker.row.key /\ dbFaults' = dbFaults
    <3>1. PAt("buried")
      BY <1>5, <2>2 DEF DeletePending
    <3>2. PICK n \in RowIds : /\ dlqStatus[n] = "pending" /\ dlqItem[n] = <<i, pworker.slot>>
                              /\ DAt("idle") \/ dworker.row # n
      BY <2>2, <3>1 DEF DutyInv, BuriedSafe
    <3>3. HeldRow(i, n)'
      BY <1>1, <3>2 DEF HeldRow, DAt, dlqVars
    <3> QED
      BY <3>3 DEF Held, RowIds
  <2> QED
    BY <2>1, <2>2
<1> QED
  BY <1>1, <1>4, <1>5 DEF DutyInv, DutyHeld, ErrandSame, BuriedSafe, PAt, PIdle

LEMMA PendingDuty ==
  ASSUME FlowInv, DutyInv, PendingStep
  PROVE  DutyInv'
<1>1. PendingKeep /\ PendingWorkerStep /\ UNCHANGED <<handlerVars, dworker>>
  BY PendingWorkerKeeps DEF PendingStep
<1>2. CASE PickForPending
  <2>1. pworker \in Errands
    BY <1>2, Errand DEF PickForPending, PAt
  <2>2. UNCHANGED <<pendingVars, duty>> /\ ~PAt("idle")
    BY <1>2 DEF PickForPending, ReadFails, serviceVars, PAt
  <2>3. /\ pworker' = PIdle \/ pworker'.row = pworker.row
        /\ ~PAt("buried")'
    <3>1. CASE pworker' = PIdle
      BY <3>1 DEF PIdle, PAt
    <3>2. CASE PGoto("discard")
      BY <2>1, <3>2 DEF PGoto, PAt, Errands
    <3>3. ASSUME NEW s, pworker' = [pworker EXCEPT !.at = "assign", !.slot = s]
          PROVE  pworker'.row = pworker.row /\ ~PAt("buried")'
      BY <2>1, <3>3 DEF PAt, Errands
    <3> QED
      BY <1>2, <3>1, <3>2, <3>3 DEF PickForPending, PStop
  <2> QED
    BY <1>1, <2>2, <2>3, ErrandDuty
<1>3. CASE AssignPending
  <2>1. pworker \in Errands
    BY <1>3, Errand DEF AssignPending, PAt
  <2>2. UNCHANGED pendingVars /\ duty' \subseteq duty /\ ~PAt("idle")
    BY <1>3 DEF AssignPending, OnlyWorld, PAt
  <2>3. \A outcome, is404 : AfterAssign(outcome, is404) \in {"record", "discard", "stop", "bury"}
    BY DEF AfterAssign
  <2>4. /\ pworker' = PIdle \/ pworker'.row = pworker.row
        /\ ~PAt("buried")'
    <3>1. CASE pworker' = PIdle
      BY <3>1 DEF PIdle, PAt
    <3>2. ASSUME NEW l, NEW e, l # "buried", pworker' = [pworker EXCEPT !.at = l, !.err = e]
          PROVE  pworker'.row = pworker.row /\ ~PAt("buried")'
      BY <2>1, <3>2 DEF PAt, Errands
    <3> QED
      BY <1>3, <2>3, <3>1, <3>2 DEF AssignPending, PStop
  <2> QED
    BY <1>1, <2>2, <2>4, ErrandDuty
<1>4. CASE RecordPending
  <2>1. pworker \in Errands
    BY <1>4, Errand DEF RecordPending, PAt
  <2>2. UNCHANGED <<pendingVars, duty>> /\ ~PAt("idle")
    BY <1>4 DEF RecordPending, OnlyLedger, PAt
  <2>3. pworker'.row = pworker.row /\ ~PAt("buried")'
    BY <1>4, <2>1 DEF RecordPending, PGoto, PAt, Errands
  <2> QED
    BY <1>1, <2>2, <2>3, ErrandDuty
<1> QED
  BY <1>1, <1>2, <1>3, <1>4, FetchPendingDuty, BuryPendingDuty, DeletePendingDuty
     DEF PendingWorkerStep

-----------------------------------------------------------------------------
\* The retry worker.  What its steps leave to be shown.
LEMMA RetryDutyTogether ==
  ASSUME FlowInv, DutyInv, RetryKeep, UNCHANGED <<handlerVars, pworker>>,
         duty' \subseteq duty,
         \A i \in duty' : \A n \in RowIds : HeldRow(i, n) => HeldRow(i, n)',
         BuriedSafe'
  PROVE  DutyInv'
<1>1. HandlersClear'
  BY HandlersClearStays DEF DutyInv, handlerVars
<1>2. ErrandSame'
  BY ErrandStands DEF DutyInv, RetryKeep, PAt, pendingVars
<1>3. ASSUME NEW i \in duty'
      PROVE  Held(i)'
  <2>1. Held(i)
    BY <1>3 DEF DutyInv, DutyHeld
  <2>2. CASE IsPending(i)
    BY <2>2 DEF Held, IsPending, RetryKeep, pendingVars
  <2>3. ASSUME NEW n \in RowIds, HeldRow(i, n)
        PROVE  Held(i)'
    BY <1>3, <2>3 DEF Held, RowIds
  <2> QED
    BY <2>1, <2>2, <2>3 DEF Held
<1> QED
  BY <1>1, <1>2, <1>3 DEF DutyInv, DutyHeld

\* The row just buried is not the one in hand.
LEMMA BuriedApart ==
  ASSUME BuriedSafe, pworker' = pworker, dworker'.row = dworker.row \/ DAt("idle")', ~DAt("idle"),
         \A n \in RowIds : n # dworker.row =>
           dlqStatus'[n] = dlqStatus[n] /\ dlqItem'[n] = dlqItem[n]
  PROVE  BuriedSafe'
<1> SUFFICES ASSUME PAt("buried") PROVE BuriedSafe'
  BY DEF BuriedSafe, PAt
<1>1. PICK n \in RowIds : /\ dlqStatus[n] = "pending" /\ n # dworker.row
                          /\ dlqItem[n] = <<pworker.row.key, pworker.slot>>
  BY DEF BuriedSafe
<1>2. dlqStatus'[n] = "pending" /\ dlqItem'[n] = <<pworker'.row.key, pworker'.slot>>
  BY <1>1
<1>3. n \in RowIds' /\ (DAt("idle") \/ dworker.row # n)'
  BY <1>1 DEF RowIds
<1> QED
  BY <1>2, <1>3 DEF BuriedSafe

LEMMA FetchDlqDuty ==
  ASSUME FlowInv, DutyInv, RetryKeep, UNCHANGED <<handlerVars, pworker>>, FetchDlq,
         ~TooYoung(dworker'.row)
  PROVE  DutyInv'
<1>1. PICK m \in RowIds : dworker' = [at |-> "retry", row |-> m]
  BY DEF FetchDlq
<1>2. UNCHANGED <<dlqVars, duty>>
  BY DEF FetchDlq, serviceVars
<1>3. \A i \in duty' : \A n \in RowIds : HeldRow(i, n) => HeldRow(i, n)'
  BY <1>1, <1>2 DEF HeldRow, dlqVars
<1>4. BuriedSafe'
  <2> SUFFICES ASSUME PAt("buried") PROVE BuriedSafe'
    BY DEF BuriedSafe, PAt
  <2>1. PICK n \in RowIds : /\ dlqStatus[n] = "pending"
                            /\ dlqItem[n] = <<pworker.row.key, pworker.slot>>
    BY DEF DutyInv, BuriedSafe
  <2>2. n # dworker'.row
    BY <2>1 DEF TooYoung
  <2>3. dlqStatus'[n] = "pending" /\ dlqItem'[n] = <<pworker'.row.key, pworker'.slot>>
        /\ n \in RowIds'
    BY <1>2, <2>1 DEF dlqVars, RowIds
  <2> QED
    BY <2>2, <2>3 DEF BuriedSafe
<1> QED
  BY <1>2, <1>3, <1>4, RetryDutyTogether

\* The call for the row in hand: made, its ticket is discharged; failed, it waits on.
LEMMA RetryItemDuty ==
  ASSUME FlowInv, DutyInv, RetryKeep, UNCHANGED <<handlerVars, pworker>>, RetryItem
  PROVE  DutyInv'
<1>1. /\ DAt("retry") /\ UNCHANGED dlqVars
      /\ \/ DGoto("record") /\ duty' = duty \ {DItem[1]}
         \/ DGoto("backoff") /\ duty' = duty
  BY DEF RetryItem, OnlyWorld
<1>2. dworker'.row = dworker.row /\ dworker'.at \in {"record", "backoff"}
      /\ (dworker'.at = "record" => duty' = duty \ {DItem[1]})
  BY <1>1 DEF DGoto, FlowInv, DlqWorkerTypeOK
<1>3. \A i \in duty' : \A n \in RowIds : HeldRow(i, n) => HeldRow(i, n)'
  BY <1>1, <1>2 DEF HeldRow, DItem, dlqVars
<1>4. BuriedSafe'
  BY <1>1, <1>2, BuriedApart DEF DutyInv, DAt, dlqVars
<1> QED
  BY <1>1, <1>3, <1>4, RetryDutyTogether

LEMMA RecordRetryDuty ==
  ASSUME FlowInv, DutyInv, RetryKeep, UNCHANGED <<handlerVars, pworker>>, RecordRetry
  PROVE  DutyInv'
<1>1. DAt("record") /\ UNCHANGED <<dlqVars, duty>> /\ DGoto("resolve")
  BY DEF RecordRetry, OnlyLedger
<1>2. dworker'.row = dworker.row
  BY <1>1 DEF DGoto, FlowInv, DlqWorkerTypeOK
<1>3. \A i \in duty' : \A n \in RowIds : HeldRow(i, n) => HeldRow(i, n)'
  BY <1>1, <1>2 DEF HeldRow, DAt, dlqVars
<1>4. BuriedSafe'
  BY <1>1, <1>2, BuriedApart DEF DutyInv, DAt, dlqVars
<1> QED
  BY <1>1, <1>3, <1>4, RetryDutyTogether

LEMMA ResolveDuty ==
  ASSUME FlowInv, DutyInv, RetryKeep, UNCHANGED <<handlerVars, pworker>>,
         Resolve
  PROVE  DutyInv'
<1>1. /\ DAt("resolve") /\ duty' = duty /\ dworker' = DIdle
      /\ MarkDLQResolved(dworker.row) \/ UNCHANGED dlqVars
  BY DEF Resolve, Write
<1>2. \A n \in RowIds : n # dworker.row =>
        dlqStatus'[n] = dlqStatus[n] /\ dlqItem'[n] = dlqItem[n]
  BY <1>1 DEF MarkDLQResolved, dlqVars, FlowInv, DlqInv, DlqTypeOK
<1>3. \A i \in duty' : \A n \in RowIds : HeldRow(i, n) => HeldRow(i, n)'
  BY <1>1, <1>2 DEF HeldRow, DAt, DIdle
<1>4. BuriedSafe'
  BY <1>1, <1>2, BuriedApart DEF DutyInv, DAt, DIdle
<1> QED
  BY <1>1, <1>3, <1>4, RetryDutyTogether

\* The row goes back to wait; after the last retry the ticket is given up.
LEMMA BackOffDuty ==
  ASSUME FlowInv, DutyInv, RetryKeep, UNCHANGED <<handlerVars, pworker>>,
         BackOff
  PROVE  DutyInv'
<1> DEFINE count == dlqTries[dworker.row] + 1
<1>1. /\ DAt("backoff") /\ dworker' = DIdle
      /\ \/ /\ UpdateDLQRetry(dworker.row, count)
            /\ duty' = IF count >= MaxRetries THEN duty \ {DItem[1]} ELSE duty
         \/ UNCHANGED <<dlqVars, duty>>
  BY FailureCounts DEF BackOff, Write
<1>2. dworker.row \in RowIds
  BY <1>1, InHand DEF DAt
<1>3. /\ dlqItem' = dlqItem
      /\ \A n \in RowIds : n # dworker.row => dlqStatus'[n] = dlqStatus[n]
      /\ dlqStatus'[dworker.row] \in {"pending", dlqStatus[dworker.row]}
           \/ DItem[1] \notin duty'
  <2>1. CASE UNCHANGED <<dlqVars, duty>>
    BY <2>1 DEF dlqVars
  <2>2. CASE /\ UpdateDLQRetry(dworker.row, count)
             /\ duty' = IF count >= MaxRetries THEN duty \ {DItem[1]} ELSE duty
    <3>1. dlqStatus' = [dlqStatus EXCEPT ![dworker.row] =
                          IF count >= MaxRetries THEN "failed" ELSE "pending"]
      BY <2>2 DEF UpdateDLQRetry
    <3> HIDE DEF count
    <3> QED
      BY <1>2, <2>2, <3>1 DEF UpdateDLQRetry, FlowInv, DlqInv, DlqTypeOK
  <2> QED
    BY <1>1, <2>1, <2>2
<1>4. ASSUME NEW i \in duty', NEW n \in RowIds, HeldRow(i, n)
      PROVE  HeldRow(i, n)'
  <2>1. CASE n = dworker.row
    <3>1. i = DItem[1]
      BY <1>4, <2>1 DEF HeldRow, DItem
    <3> HIDE DEF count
    <3> QED
      BY <1>1, <1>3, <1>4, <2>1, <3>1 DEF HeldRow, DIdle
  <2>2. CASE n # dworker.row
    BY <1>1, <1>3, <1>4, <2>2 DEF HeldRow, DIdle
  <2> QED
    BY <2>1, <2>2
<1>5. BuriedSafe'
  BY <1>1, <1>3, BuriedApart DEF DutyInv, DAt, DIdle
<1>6. duty' \subseteq duty
  BY <1>1
<1> QED
  BY <1>4, <1>5, <1>6, RetryDutyTogether

LEMMA RetryDuty ==
  ASSUME FlowInv, DutyInv, DlqStep
  PROVE  DutyInv'
<1>1. RetryKeep /\ DlqWorkerStep /\ UNCHANGED <<handlerVars, pworker>>
  BY RetryWorkerKeeps DEF DlqStep
<1>2. CASE FetchDlq
  BY <1>1, <1>2, FetchDlqDuty DEF DlqStep, FetchDlq
<1> QED
  BY <1>1, <1>2, RetryItemDuty, RecordRetryDuty, ResolveDuty, BackOffDuty DEF DlqWorkerStep

-----------------------------------------------------------------------------
\* Nobody touches the queues.
LEMMA RestDuty ==
  ASSUME FlowInv, DutyInv, UNCHANGED <<handler, pworker, dworker, pendingVars, dlqVars, duty>>
  PROVE  DutyInv'
<1>1. HandlersClear'
  BY HandlersClearStays DEF DutyInv
<1>2. ErrandSame'
  BY ErrandStands DEF DutyInv, PAt
<1>3. DlqGrows
  BY DEF DlqGrows
<1>4. BuriedSafe'
  BY <1>3, BuriedStays DEF DutyInv
<1>5. ASSUME NEW i \in duty'
      PROVE  Held(i)'
  BY <1>3, <1>5, HeldStays DEF DutyInv, DutyHeld, IsPending, pendingVars
<1> QED
  BY <1>1, <1>2, <1>4, <1>5 DEF DutyInv, DutyHeld

\* A restart: the tables say all there is to say.
LEMMA CrashDuty ==
  ASSUME DutyInv, Crash
  PROVE  DutyInv'
<1>1. /\ UNCHANGED <<pendingVars, dlqVars, duty>>
      /\ handler' = [h \in Handlers |-> Idle] /\ pworker' = PIdle /\ dworker' = DIdle
  BY DEF Crash, HandlersLost, PendingWorkerLost, DlqWorkerLost, serviceVars
<1>2. HandlersClear' /\ ErrandSame' /\ BuriedSafe'
  BY <1>1 DEF HandlersClear, ErrandSame, BuriedSafe, At, PAt, Idle, PIdle
<1>3. ASSUME NEW i \in duty'
      PROVE  Held(i)'
  <2>1. Held(i)
    BY <1>1, <1>3 DEF DutyInv, DutyHeld
  <2>2. CASE IsPending(i)
    BY <1>1, <2>2 DEF Held, IsPending, pendingVars
  <2>3. ASSUME NEW n \in RowIds, HeldRow(i, n)
        PROVE  Held(i)'
    <3>1. HeldRow(i, n)'
      BY <1>1, <2>3 DEF HeldRow, DIdle, dlqVars
    <3> QED
      BY <3>1 DEF Held, RowIds
  <2> QED
    BY <2>1, <2>2, <2>3 DEF Held
<1> QED
  BY <1>2, <1>3 DEF DutyInv, DutyHeld

LEMMA DutyStep ==
  ASSUME FlowInv, DutyInv, [Next]_vars
  PROVE  DutyInv'
<1>1. CASE UsersStep \/ OutsideStep \/ SyncStep \/ UNCHANGED vars
  <2>1. UNCHANGED <<handlerVars, pworker, dworker, pendingVars, dlqVars, duty>>
    <3>1. CASE UsersStep \/ OutsideStep
      BY <3>1 DEF UsersStep, OutsideStep, ShiftChanges, ConfigReloads, workerVars
    <3>2. CASE SyncStep
      BY <3>2 DEF SyncStep, SyncWorkerStep, StartPass, SearchGroup, SyncAssignee, serviceVars,
                  OnlyWorld, OnlyLedger
    <3>3. CASE UNCHANGED vars
      BY <3>3 DEF vars, serviceVars, workerVars
    <3> QED
      BY <1>1, <3>1, <3>2, <3>3
  <2> QED
    BY <2>1, RestDuty DEF handlerVars
<1> QED
  BY <1>1, HandlersDuty, PendingDuty, RetryDuty, CrashDuty DEF Next

\* README.md:13 ("the ticket is not lost"): a ticket the service took into one of its
\* queues is in one of them until it is assigned, taken over by a human, unknown to
\* the Tracker, out of retries, or gone with the one write whose error the pending
\* worker ignores - whatever fails in the network or the database, whoever else works
\* on it and however often the process dies.
THEOREM TicketsNotLost == Spec => []DutyKept
<1>1. Init => DutyInv
  BY DEF Init, ServiceInit, HandlerInit, PendingWorkerInit, DutyInv, DutyHeld, HandlersClear,
         ErrandSame, BuriedSafe, At, PAt, Idle, PIdle
<1>2. FlowInv /\ DutyInv /\ [Next]_vars => DutyInv'
  BY DutyStep
<1>3. DutyInv => DutyKept
  BY DEF DutyInv, DutyHeld, Held, HeldRow, DutyKept, HasDlqRow
<1> QED
  BY <1>1, <1>2, <1>3, FlowInvariant, PTL DEF Spec

-----------------------------------------------------------------------------
\* The sync worker repairs the counters.  A pass is undisturbed when no call and no
\* write of it fails and nobody else changes tickets, counters or groups meanwhile.
PassBegins == sworker.at = "search" /\ sworker.rest = groups

Undisturbed ==
  \/ SyncStep /\ UNCHANGED <<faults, dbFaults>>
  \/ UNCHANGED <<load, issue, groups, sworker>>

Match(g, a) == load[<<g, a>>] = Cardinality(OpenIssuesOf(a))

\* What the pass has yet to write.
Unwritten(g, a) ==
  /\ sworker.at # "idle"
  /\ g \in sworker.rest \/ (sworker.at = "write" /\ g = sworker.group /\ a \in sworker.todo)

RepairInv ==
  /\ sworker.at = "write" => \A a \in sworker.todo : sworker.found[a] = OpenIssuesOf(a)
  /\ \A g \in groups : \A a \in Members[g] : Match(g, a) \/ Unwritten(g, a)

LEMMA RepairStep ==
  ASSUME FlowInv, RepairInv, [Undisturbed]_vars
  PROVE  RepairInv'
<1>1. /\ sworker = SIdle \/ sworker \in Searching \/ sworker \in Writing
      /\ load \in [Slots -> Nat]
  BY DEF FlowInv, SyncWorkerTypeOK, LedgerInv, LedgerTypeOK
<1>2. CASE UNCHANGED <<load, issue, groups, sworker>>
  BY <1>2 DEF RepairInv, Match, Unwritten, OpenIssuesOf
<1>3. CASE StartPass
  BY <1>3 DEF StartPass, serviceVars, ledgerVars, worldVars, confVars, RepairInv, Match,
              Unwritten, OpenIssuesOf
<1>4. CASE SearchGroup /\ faults' = faults
  <2>1. sworker \in Searching /\ UNCHANGED <<load, issue, groups>>
    BY <1>1, <1>4 DEF SearchGroup, OnlyWorld, ledgerVars, confVars, SIdle, Writing
  <2>2. \A a : OpenIssuesOf(a)' = OpenIssuesOf(a)
    BY <2>1 DEF OpenIssuesOf
  <2>a. ~(faults' = faults + 1)
    BY <1>4, WorldAssumption DEF FlowInv, RestTyped, WorldTypeOK
  <2>3. PICK g \in sworker.rest :
          \/ sworker' = [at |-> "write", rest |-> sworker.rest \ {g}, group |-> g,
                         todo |-> Members[g],
                         found |-> [a \in Members[g] |-> OpenIssuesOf(a)]]
          \/ Members[g] = {} /\ sworker' = NextGroup(sworker.rest \ {g})
    BY <1>4, <2>a DEF SearchGroup
  <2>4. ASSUME NEW h \in groups, NEW a \in Members[h]
        PROVE  Match(h, a)' \/ Unwritten(h, a)'
    <3>1. Match(h, a) \/ h \in sworker.rest
      BY <2>1, <2>4 DEF RepairInv, Unwritten, Searching
    <3> QED
      BY <2>1, <2>2, <2>3, <2>4, <3>1 DEF Match, Unwritten, NextGroup, SIdle
  <2>5. sworker'.at = "write" => \A a \in sworker'.todo : sworker'.found[a] = OpenIssuesOf(a)
    BY <2>3 DEF NextGroup, SIdle
  <2> QED
    BY <2>1, <2>2, <2>4, <2>5 DEF RepairInv
<1>5. ASSUME NEW b \in Assignees, SyncAssignee(b), dbFaults' = dbFaults
      PROVE  RepairInv'
  <2>1. /\ sworker \in Writing /\ b \in sworker.todo /\ sworker.at = "write"
        /\ sworker.group \in Groups
    BY <1>1, <1>5 DEF SyncAssignee, SIdle, Searching, Writing
  <2>2. UNCHANGED <<issue, groups>> /\ \A a : OpenIssuesOf(a)' = OpenIssuesOf(a)
    BY <1>5 DEF SyncAssignee, OnlyLedger, worldVars, confVars, OpenIssuesOf
  <2>3. load' = [load EXCEPT ![<<sworker.group, b>>] = Cardinality(sworker.found[b]) + 0]
    BY <1>5 DEF SyncAssignee, Write, SyncAssigneeIssues, FlowInv, RestTyped
  <2>4. sworker.found[b] = OpenIssuesOf(b)
    BY <2>1 DEF RepairInv
  <2>5. sworker' = IF sworker.todo = {b} THEN NextGroup(sworker.rest)
                   ELSE [sworker EXCEPT !.todo = @ \ {b}]
    BY <1>5 DEF SyncAssignee
  <2>6. ASSUME NEW h \in groups, NEW a \in Members[h]
        PROVE  Match(h, a)' \/ Unwritten(h, a)'
    <3>1. <<h, a>> \in Slots
      BY <2>6, ServiceAssumption, LedgerAssumption DEF Slots, FlowInv, RestTyped
    <3>2. CASE h = sworker.group /\ a = b
      <4>1. load'[<<h, a>>] = Cardinality(OpenIssuesOf(b)) + 0
        BY <1>1, <2>3, <2>4, <3>1, <3>2
      <4>2. Cardinality(OpenIssuesOf(b)) \in Nat
        BY DomainAssumption, FS_Subset, FS_CardinalityType DEF OpenIssuesOf
      <4> QED
        BY <2>2, <3>2, <4>1, <4>2 DEF Match
    <3>3. CASE ~(h = sworker.group /\ a = b)
      <4>1. load'[<<h, a>>] = load[<<h, a>>]
        BY <1>1, <2>3, <3>1, <3>3
      <4>2. Match(h, a) => Match(h, a)'
        BY <2>2, <4>1 DEF Match
      <4>3. Unwritten(h, a) => Unwritten(h, a)'
        BY <2>1, <2>5, <3>3 DEF Unwritten, NextGroup, Writing
      <4> QED
        BY <2>6, <4>2, <4>3 DEF RepairInv
    <3> QED
      BY <3>2, <3>3
  <2>7. sworker'.at = "write" => \A a \in sworker'.todo : sworker'.found[a] = OpenIssuesOf(a)
    BY <2>1, <2>5 DEF RepairInv, NextGroup, SIdle, Writing
  <2> QED
    BY <2>2, <2>6, <2>7 DEF RepairInv
<1>6. CASE UNCHANGED vars
  BY <1>2, <1>6 DEF vars, serviceVars, ledgerVars, worldVars, confVars, workerVars
<1> QED
  BY <1>2, <1>3, <1>4, <1>5, <1>6 DEF Undisturbed, SyncStep, SyncWorkerStep

\* From every state the service can reach, however wrong the counters are, a pass
\* that nothing disturbs brings each of them to the Tracker's figure, and later
\* passes keep them there: the part of CountersConverge that is not about time.
THEOREM PassRepairsCounters ==
  Spec => [](PassBegins /\ [][Undisturbed]_vars => [](sworker.at = "idle" => CountersMatch))
<1>1. FlowInv /\ PassBegins => RepairInv
  BY DEF PassBegins, RepairInv, Unwritten
<1>2. FlowInv /\ RepairInv /\ [Undisturbed]_vars => RepairInv'
  BY RepairStep
<1>3. RepairInv => (sworker.at = "idle" => CountersMatch)
  BY DEF RepairInv, Unwritten, Match, CountersMatch
<1> QED
  BY <1>1, <1>2, <1>3, FlowInvariant, PTL
=============================================================================
