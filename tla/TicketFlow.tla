----------------------------- MODULE TicketFlow -----------------------------
(***************************************************************************)
(* The whole service: concurrent webhook handlers, the pending worker, the *)
(* retry worker and the sync worker over one database and one Tracker,     *)
(* with crashes, shift changes and configuration reloads.                  *)
(***************************************************************************)
EXTENDS WebhookHandler, PendingProcessor, DlqWorker, StateSync

CONSTANTS
  Workers,      \* which of "pending", "dlq" and "sync" run in this instance
  MaxCrashes    \* most restarts of the process (bound)

ASSUME FlowAssumption == MaxCrashes \in Nat

VARIABLE crashes

workerVars == <<pworker, dworker, sworker>>
vars == <<serviceVars, handlerVars, workerVars, crashes>>

Init ==
  /\ ServiceInit /\ HandlerInit
  /\ PendingWorkerInit /\ DlqWorkerInit /\ SyncWorkerInit
  /\ crashes = 0

\* The tables survive, everything in memory is lost; requests being handled die
\* without an answer.
Crash ==
  /\ crashes < MaxCrashes
  /\ crashes' = crashes + 1
  /\ HandlersLost /\ PendingWorkerLost /\ DlqWorkerLost /\ SyncWorkerLost
  /\ UNCHANGED serviceVars

UsersStep ==
  /\ UsersNext
  /\ UNCHANGED <<ledgerVars, pendingVars, dlqVars, confVars, dbFaults, duty,
                 handlerVars, workerVars, crashes>>

OutsideStep ==
  /\ ShiftChanges \/ ConfigReloads
  /\ UNCHANGED <<handlerVars, workerVars, crashes>>

HandlersStep == HandlerNext /\ UNCHANGED <<workerVars, crashes>>

PendingStep ==
  /\ "pending" \in Workers
  /\ PendingWorkerStep
  /\ UNCHANGED <<handlerVars, dworker, sworker, crashes>>

\* A new row is due after one minute (repository.go:357), much later than the
\* delete that follows its insert in the pending worker.
TooYoung(n) == PAt("buried") /\ dlqItem[n] = <<pworker.row.key, pworker.slot>>

DlqStep ==
  /\ "dlq" \in Workers
  /\ DlqWorkerStep
  /\ DAt("idle") => ~TooYoung(dworker'.row)
  /\ UNCHANGED <<handlerVars, pworker, sworker, crashes>>

SyncStep ==
  /\ "sync" \in Workers
  /\ SyncWorkerStep
  /\ UNCHANGED <<handlerVars, pworker, dworker, crashes>>

Next ==
  UsersStep \/ OutsideStep \/ HandlersStep \/ PendingStep \/ DlqStep \/ SyncStep \/ Crash

Spec == Init /\ [][Next]_vars

\* A request runs to its end and each worker's ticker fires again and again.
\* Nothing obliges users, the network, schedules or crashes.
Fairness ==
  /\ \A h \in Handlers :
       WF_vars(HandlerStep(h) /\ UNCHANGED <<workerVars, crashes>>)
  /\ WF_vars(PendingStep)
  /\ WF_vars(DlqStep)
  /\ WF_vars(SyncStep)

FairSpec == Spec /\ Fairness

-----------------------------------------------------------------------------
TypeOK ==
  /\ ServiceTypeOK
  /\ HandlerTypeOK
  /\ PendingWorkerTypeOK /\ DlqWorkerTypeOK /\ SyncWorkerTypeOK
  /\ crashes \in 0..MaxCrashes

Busy == {h \in Handlers : ~At(h, "idle")}

\* The per-issue lock of assigner.go:198-235: two requests are never past it with
\* the same key, and a key is locked exactly while its request runs - an early
\* return that forgot to unlock would silence the issue for good.
OneHandlerPerIssue ==
  /\ inFlight = {Key(h) : h \in Busy}
  /\ \A h, k \in Busy : Key(h) = Key(k) => h = k

\* "the ticket is not lost" (README.md:13), "without losing context"
\* (README.md:14): a ticket the service took into one of its queues is in one of
\* them until it is assigned in the Tracker, a webhook says a human took over (an
\* echo says so too unless RobotKnown), or its retries are used up - also across
\* crashes and failed writes between any two steps.  What the code does not keep ends
\* the promise as well: a row for the dead letter queue that could not be written, as
\* the pending worker ignores that error and deletes the ticket
\* (pending_processor.go:229); a ticket it discards as not found (claim_404 shows what
\* that is worth) or whose group is gone; and a ticket taken on again between the
\* worker's assignment and its delete.
DutyKept == \A i \in duty : IsPending(i) \/ HasDlqRow(i)

\* Every step of every actor is, on each of the three tables, one call of that
\* table's operations with arguments it allows, or none: what is proved of the
\* tables under any client holds in the whole service.  In particular the retry
\* worker writes a verdict only for a row that may still be retried, the pending
\* worker deletes by an id the table has given out, and the counters and the
\* assignment rows change together.
TablesImplemented == LedgerSpec /\ PendingSpec /\ DlqSpec

\* README.md:15: once users and network come to rest, the counters the balancer
\* reads agree with the Tracker, for good, whatever was lost, late or doubled.
CountersMatch ==
  \A g \in groups : \A a \in Members[g] : load[<<g, a>>] = Cardinality(OpenIssuesOf(a))

CountersConverge == <>[]CountersMatch

\* README.md:13: if from some time on every configured group has someone free,
\* every ticket taken on is eventually assigned or given up on.
EveryoneServes == groups = Groups /\ \A g \in Groups : Candidates(g) # {}

DutyDischarged ==
  <>[]EveryoneServes => \A i \in Issues : i \in duty ~> i \notin duty
=============================================================================
