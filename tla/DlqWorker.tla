------------------------------ MODULE DlqWorker ------------------------------
(***************************************************************************)
(* DLQProcessor.ProcessOnce and retryItem (dlq_processor.go) against the   *)
(* Tracker and the tables.  The clock and the batches are in               *)
(* DeadLetterQueue; here any retryable row may be due.  A retry repeats    *)
(* the call with the assignee chosen when it first failed.                 *)
(***************************************************************************)
EXTENDS Service

VARIABLE dworker   \* [at, row]: the call it makes next, the row it works on

DIdle == [at |-> "idle", row |-> 0]

DAt(label) == dworker.at = label
DGoto(label) == dworker' = [dworker EXCEPT !.at = label]
DItem == dlqItem[dworker.row]

DlqWorkerInit == dworker = DIdle

FetchDlq ==
  /\ DAt("idle")
  /\ \E n \in RowIds :
       Retryable(n) /\ dworker' = [at |-> "retry", row |-> n]
  /\ UNCHANGED serviceVars

RetryItem ==
  /\ DAt("retry")
  /\ \E outcome \in Outcomes :
       /\ AssigneeCall(DItem[1], DItem[2][2], outcome)
       /\ DGoto(IF outcome = "ok" THEN "record" ELSE "backoff")
       /\ duty' = IF outcome = "ok" THEN duty \ {DItem[1]} ELSE duty
  /\ OnlyWorld

\* The error of IncrementLoadForIssue is ignored.
RecordRetry ==
  /\ DAt("record")
  /\ Write(IncrementLoadForIssue(DItem[2], DItem[1]), ledgerVars)
  /\ DGoto("resolve")
  /\ OnlyLedger /\ UNCHANGED duty

Resolve ==
  /\ DAt("resolve")
  /\ Write(MarkDLQResolved(dworker.row), dlqVars)
  /\ dworker' = DIdle
  /\ OnlyDlq /\ UNCHANGED duty

\* The last retry gives the ticket up, and the team is alerted.
BackOff ==
  LET count == dlqTries[dworker.row] + 1 IN
  /\ DAt("backoff")
  /\ Write(UpdateDLQRetry(dworker.row, count), dlqVars)
  /\ duty' = IF count >= MaxRetries /\ dbFaults' = dbFaults THEN duty \ {DItem[1]} ELSE duty
  /\ dworker' = DIdle
  /\ OnlyDlq

DlqWorkerStep == FetchDlq \/ RetryItem \/ RecordRetry \/ Resolve \/ BackOff

DlqWorkerLost == dworker' = DIdle

-----------------------------------------------------------------------------
DlqWorkerTypeOK ==
  dworker \in [at : {"idle", "retry", "record", "resolve", "backoff"}, row : 0..MaxDlqRows]
=============================================================================
