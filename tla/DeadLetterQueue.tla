--------------------------- MODULE DeadLetterQueue ---------------------------
(***************************************************************************)
(* DLQProcessor (dlq_processor.go) with its clock: rows become due, a pass *)
(* fetches a batch of due rows, calls the Tracker for each, and writes the *)
(* verdict or the next due time.  Time is counted in units of the base     *)
(* back-off (30 s).  What the Tracker answers is open.  The process may    *)
(* die between any two steps, and a write may fail: it is logged and the   *)
(* row stays as it was.  The module refines DeadLetterTable.               *)
(***************************************************************************)
EXTENDS DeadLetterTable, Sequences, FiniteSets

CONSTANTS
  BatchSize,    \* rows per pass (10 in the code)
  FirstWait,    \* units until a new row is due (one minute, repository.go:357)
  MaxLate,      \* units a row may be overdue before its age stops counting (bound)
  MaxTroubles   \* most crashes and failed writes (bound)

ASSUME QueueAssumption ==
  /\ BatchSize \in Nat \ {0}
  /\ FirstWait \in Nat /\ MaxLate \in Nat /\ MaxTroubles \in Nat

VARIABLES
  wait,      \* per row: units until next_retry_at; negative when overdue
  batch,     \* the rows fetched and not yet done with: [row, tries] as read
  at,        \* the worker's next step: "idle", "call", "resolve", "backoff", "cleanup"
  calls,     \* ghost: calls to the Tracker made for each row
  troubles   \* number of crashes and failed writes so far

queueVars == <<dlqVars, wait, batch, at, calls, troubles>>

QueueInit ==
  /\ DlqInit
  /\ wait = [n \in RowIds |-> 0]
  /\ batch = <<>>
  /\ at = "idle"
  /\ calls = [n \in RowIds |-> 0]
  /\ troubles = 0

-----------------------------------------------------------------------------
\* The handler of a webhook or the pending worker adds a row.
Add(item) ==
  /\ EnqueueDLQ(item)
  /\ wait' = [wait EXCEPT ![dlqLast'] = FirstWait]
  /\ UNCHANGED <<batch, at, calls, troubles>>

Tick ==
  /\ wait' = [n \in RowIds |->
                IF dlqStatus[n] = "pending" /\ wait[n] > -MaxLate THEN wait[n] - 1 ELSE wait[n]]
  /\ UNCHANGED <<dlqVars, batch, at, calls, troubles>>

\* Mutated form of Due: the query forgets status = 'pending'.
DueAnyStatus ==
  {n \in RowIds : dlqStatus[n] \in {"pending", "resolved"} /\ dlqTries[n] < MaxRetries /\ wait[n] <= 0}

Due == {n \in RowIds : Retryable(n) /\ wait[n] <= 0}

\* ORDER BY next_retry_at LIMIT BatchSize
IsDueBatch(s) ==
  /\ Len(s) = IF Cardinality(Due) < BatchSize THEN Cardinality(Due) ELSE BatchSize
  /\ \A k \in DOMAIN s :
       /\ s[k].row \in Due
       /\ s[k].tries = dlqTries[s[k].row]
       /\ \A n \in Due : (\A j \in 1..k : s[j].row # n) => wait[s[k].row] <= wait[n]
       /\ \A j \in 1..(k - 1) : s[j].row # s[k].row

FetchBatch ==
  /\ at = "idle"
  /\ Due # {}
  /\ \E k \in 1..BatchSize :
       batch' \in {s \in [1..k -> [row : Due, tries : 0..MaxRetries]] : IsDueBatch(s)}
  /\ at' = "call"
  /\ UNCHANGED <<dlqVars, wait, calls, troubles>>

Row == batch[1].row

\* retryItem: the call, whatever comes of it.
CallTracker ==
  /\ at = "call"
  /\ calls' = [calls EXCEPT ![Row] = @ + 1]
  /\ at' \in {"resolve", "backoff"}
  /\ UNCHANGED <<dlqVars, wait, batch, troubles>>

\* The next row of the batch, or the end of the pass.
NextRow ==
  /\ batch' = Tail(batch)
  /\ at' = IF batch' = <<>> THEN "cleanup" ELSE "call"
  /\ UNCHANGED calls

WriteFails ==
  /\ troubles < MaxTroubles
  /\ troubles' = troubles + 1
  /\ UNCHANGED <<dlqVars, wait>>

SettleRow ==
  /\ at = "resolve"
  /\ \/ MarkDLQResolved(Row) /\ UNCHANGED <<wait, troubles>>
     \/ WriteFails
  /\ NextRow

\* The delay doubles with every retry: base * 2^retry_count, both as read.
PostponeRow ==
  /\ at = "backoff"
  /\ \/ /\ UpdateDLQRetry(Row, batch[1].tries + 1)
        /\ wait' = [wait EXCEPT ![Row] = 2 ^ batch[1].tries]
        /\ UNCHANGED troubles
     \/ WriteFails
  /\ NextRow

\* processAll ends with a cleanup of rows that were settled long ago.
EndPass ==
  /\ at = "cleanup"
  /\ \E old \in SUBSET RowIds : CleanupOldDLQ(old)
  /\ at' = "idle"
  /\ UNCHANGED <<wait, batch, calls, troubles>>

\* Batch and place are lost, the table stays.
Restart ==
  /\ troubles < MaxTroubles
  /\ troubles' = troubles + 1
  /\ batch' = <<>>
  /\ at' = "idle"
  /\ UNCHANGED <<dlqVars, wait, calls>>

WorkerStep == FetchBatch \/ CallTracker \/ SettleRow \/ PostponeRow \/ EndPass

QueueNext ==
  \/ \E item \in DlqItems : Add(item)
  \/ Tick
  \/ WorkerStep
  \/ Restart

QueueSpec == QueueInit /\ [][QueueNext]_queueVars

\* Time passes and the ticker fires again and again.
QueueFairSpec == QueueSpec /\ WF_queueVars(Tick) /\ WF_queueVars(WorkerStep)

-----------------------------------------------------------------------------
QueueTypeOK ==
  /\ DlqTypeOK
  /\ wait \in [RowIds -> Int]
  /\ \A n \in RowIds : -MaxLate <= wait[n] /\ wait[n] <= FirstWait + 2 ^ MaxRetries
  /\ batch \in Seq([row : RowIds, tries : 0..MaxRetries])
  /\ at \in {"idle", "call", "resolve", "backoff", "cleanup"}
  /\ calls \in [RowIds -> Nat]
  /\ troubles \in 0..MaxTroubles

\* What a pass read stays true until it writes: every row it has not done with
\* is pending with the count it read, so no increment of retry_count is lost and
\* no settled row is called again (dlq_processor.go:108 computes the new count
\* from the copy).
BatchFresh ==
  \A k \in DOMAIN batch :
    /\ dlqStatus[batch[k].row] = "pending"
    /\ dlqTries[batch[k].row] = batch[k].tries

\* The Tracker is not hammered: a row causes no more calls than its budget, and
\* one more for each crash or failed write that made a call forgotten.
CallBudget ==
  \A n \in RowIds :
    /\ calls[n] <= MaxRetries + troubles
    /\ (dlqStatus[n] = "failed" => calls[n] >= MaxRetries)

\* The worker with its clock, its batches and its crashes does to the table what
\* DeadLetterTable allows.
DlqImplemented == DlqSpec

\* No row waits for ever, however many others are due before it in every batch:
\* it is resolved or, when its retries are used up, failed (dlq_processor.go:128).
RowSettles ==
  \A n \in RowIds :
    dlqStatus[n] = "pending" ~> dlqStatus[n] \in {"resolved", "failed", "deleted"}
=============================================================================
