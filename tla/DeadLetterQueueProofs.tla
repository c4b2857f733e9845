------------------------ MODULE DeadLetterQueueProofs ------------------------
(***************************************************************************)
(* The worker of dlq_processor.go, with its clock, batches, crashes and    *)
(* failed writes, implements the abstract table - for any number of rows,  *)
(* any batch size and any budget - so what is proved of the table holds of *)
(* it.  The heart is BatchFresh: the worker writes back a count it read at *)
(* the beginning of the pass.  At the end, the calls to the Tracker are    *)
(* counted against the retries on record.                                  *)
(***************************************************************************)
EXTENDS DeadLetterQueue, DeadLetterTableProofs, FiniteSetTheorems

BatchRow == [row : RowIds, tries : 0..MaxRetries]

\* BatchFresh is inductive once no row is twice in a batch and a worker about to
\* write has a row to write.
QueueInv ==
  /\ DlqInv
  /\ batch \in Seq(BatchRow)
  /\ BatchFresh
  /\ \A j, k \in DOMAIN batch : j # k => batch[j].row # batch[k].row
  /\ at \in {"call", "resolve", "backoff"} => batch # <<>>

\* Every row of a batch is a pending row of the table.
LEMMA BatchRows ==
  ASSUME QueueInv, NEW k \in DOMAIN batch
  PROVE  /\ batch[k].row \in RowIds
         /\ dlqStatus[batch[k].row] = "pending"
         /\ dlqTries[batch[k].row] = batch[k].tries
<1>1. batch[k] \in BatchRow
  BY DEF QueueInv
<1>2. batch[k].row \in RowIds
  BY <1>1 DEF BatchRow
<1> QED
  BY <1>2 DEF QueueInv, BatchFresh

\* The first row of a batch is one that may be retried.
LEMMA HeadRetryable ==
  ASSUME QueueInv, batch # <<>>
  PROVE  /\ Row \in RowIds /\ Retryable(Row) /\ batch[1].tries = dlqTries[Row]
         /\ 1 \in DOMAIN batch
<1>1. 1 \in DOMAIN batch /\ batch[1] \in BatchRow
  BY DEF QueueInv
<1>2. dlqStatus[Row] = "pending" /\ dlqTries[Row] = batch[1].tries /\ Row \in RowIds
  BY <1>1 DEF QueueInv, BatchFresh, Row, BatchRow
<1>3. dlqTries[Row] < MaxRetries
  BY <1>2 DEF QueueInv, DlqInv, RetryBudget
<1> QED
  BY <1>1, <1>2, <1>3 DEF Retryable

\* Done with the first row, the rest of the batch is as fresh as it was, provided
\* the other rows of the table stay as they are.
LEMMA NextRowKeeps ==
  ASSUME QueueInv, batch # <<>>, NextRow, DlqInv',
         \A n \in RowIds \ {Row} : dlqStatus'[n] = dlqStatus[n] /\ dlqTries'[n] = dlqTries[n]
  PROVE  QueueInv'
<1>1. batch' = Tail(batch) /\ batch \in Seq(BatchRow)
  BY DEF NextRow, QueueInv
<1>2. batch' \in Seq(BatchRow) /\ Len(batch') = Len(batch) - 1 /\ Len(batch) \in Nat
  BY <1>1
<1>3. \A k \in DOMAIN batch' : /\ k \in Nat /\ k >= 1
                               /\ k + 1 \in DOMAIN batch /\ batch'[k] = batch[k + 1]
                               /\ 1 \in DOMAIN batch
  BY <1>1, <1>2
<1>4. \A j, k \in DOMAIN batch' : j # k => batch'[j].row # batch'[k].row
  BY <1>3 DEF QueueInv
<1>5. \A k \in DOMAIN batch' : batch'[k].row \in RowIds \ {Row}
  <2> SUFFICES ASSUME NEW k \in DOMAIN batch' PROVE batch'[k].row \in RowIds \ {Row}
    OBVIOUS
  <2>1. batch[k + 1] \in BatchRow
    BY <1>3 DEF QueueInv
  <2>2. batch[k + 1].row # batch[1].row
    BY <1>3 DEF QueueInv
  <2> QED
    BY <1>3, <2>1, <2>2 DEF BatchRow, Row
<1>6. BatchFresh'
  <2> SUFFICES ASSUME NEW k \in DOMAIN batch'
               PROVE  /\ dlqStatus'[batch'[k].row] = "pending"
                      /\ dlqTries'[batch'[k].row] = batch'[k].tries
    BY DEF BatchFresh
  <2>1. dlqStatus[batch[k + 1].row] = "pending" /\ dlqTries[batch[k + 1].row] = batch[k + 1].tries
    BY <1>3 DEF QueueInv, BatchFresh
  <2> QED
    BY <1>3, <1>5, <2>1
<1>7. at' \in {"call", "resolve", "backoff"} => batch' # <<>>
  BY DEF NextRow
<1> QED
  BY <1>2, <1>4, <1>6, <1>7 DEF QueueInv

-----------------------------------------------------------------------------
LEMMA AddKeeps ==
  ASSUME QueueInv, NEW item \in DlqItems, Add(item)
  PROVE  QueueInv' /\ DlqNext
<1>1. EnqueueDLQ(item) /\ batch' = batch /\ at' = at
  BY DEF Add
<1>2. DlqInv'
  BY <1>1, EnqueueKeeps DEF QueueInv
<1>3. BatchFresh'
  <2> SUFFICES ASSUME NEW k \in DOMAIN batch
               PROVE  /\ dlqStatus'[batch[k].row] = "pending"
                      /\ dlqTries'[batch[k].row] = batch[k].tries
    BY <1>1 DEF BatchFresh
  <2> DEFINE n == batch[k].row
  <2>1. n \in RowIds /\ dlqStatus[n] = "pending" /\ dlqTries[n] = batch[k].tries
    BY BatchRows
  <2>2. n # dlqLast + 1
    BY <2>1, DlqAssumption DEF QueueInv, DlqInv, DlqTypeOK, RetryBudget, RowIds
  <2> QED
    BY <1>1, <2>1, <2>2 DEF EnqueueDLQ, QueueInv, DlqInv, DlqTypeOK
<1> QED
  BY <1>1, <1>2, <1>3 DEF QueueInv, DlqNext

LEMMA FetchKeeps ==
  ASSUME QueueInv, FetchBatch
  PROVE  QueueInv' /\ UNCHANGED dlqVars
<1>1. PICK k \in 1..BatchSize :
        batch' \in {s \in [1..k -> [row : Due, tries : 0..MaxRetries]] : IsDueBatch(s)}
  BY DEF FetchBatch
<1>2. k \in Nat /\ k >= 1 /\ Due \subseteq RowIds
  BY <1>1, QueueAssumption DEF Due
<1>3. batch' \in [1..k -> BatchRow] /\ IsDueBatch(batch')
  BY <1>1, <1>2 DEF BatchRow
<1>4. batch' \in Seq(BatchRow) /\ batch' # <<>> /\ DOMAIN batch' = 1..k
  BY <1>2, <1>3
<1>5. UNCHANGED dlqVars /\ at' = "call"
  BY DEF FetchBatch
<1>6. DlqInv'
  BY <1>5 DEF dlqVars, QueueInv, DlqInv, DlqTypeOK, RetryBudget
<1>7. BatchFresh'
  BY <1>3, <1>5 DEF BatchFresh, IsDueBatch, Due, Retryable, dlqVars
<1>8. \A j, l \in DOMAIN batch' : j # l => batch'[j].row # batch'[l].row
  <2>1. \A l \in 1..k : \A j \in 1..(l - 1) : batch'[j].row # batch'[l].row
    BY <1>3, <1>4 DEF IsDueBatch
  <2>2. \A j, l \in 1..k : j # l => j \in 1..(l - 1) \/ l \in 1..(j - 1)
    BY <1>2
  <2> QED
    BY <1>4, <2>1, <2>2
<1> QED
  BY <1>4, <1>5, <1>6, <1>7, <1>8 DEF QueueInv

LEMMA SettleKeeps ==
  ASSUME QueueInv, SettleRow
  PROVE  QueueInv' /\ [DlqNext]_dlqVars
<1>1. batch # <<>> /\ NextRow
  BY DEF SettleRow, QueueInv
<1>2. Row \in RowIds /\ Retryable(Row)
  BY <1>1, HeadRetryable
<1>3. CASE MarkDLQResolved(Row)
  <2>1. DlqRetryOutcome(Row)
    BY <1>2, <1>3 DEF DlqRetryOutcome
  <2>2. DlqInv'
    BY <1>2, <2>1, OutcomeKeeps DEF QueueInv
  <2>3. \A n \in RowIds \ {Row} : dlqStatus'[n] = dlqStatus[n] /\ dlqTries'[n] = dlqTries[n]
    BY <1>3 DEF MarkDLQResolved, QueueInv, DlqInv, DlqTypeOK
  <2> QED
    BY <1>1, <1>2, <2>1, <2>2, <2>3, NextRowKeeps DEF DlqNext
<1>4. CASE WriteFails
  <2>1. UNCHANGED dlqVars
    BY <1>4 DEF WriteFails
  <2>2. DlqInv'
    BY <2>1 DEF dlqVars, QueueInv, DlqInv, DlqTypeOK, RetryBudget
  <2> QED
    BY <1>1, <2>1, <2>2, NextRowKeeps DEF dlqVars
<1> QED
  BY <1>3, <1>4 DEF SettleRow

LEMMA PostponeKeeps ==
  ASSUME QueueInv, PostponeRow
  PROVE  QueueInv' /\ [DlqNext]_dlqVars
<1>1. batch # <<>> /\ NextRow
  BY DEF PostponeRow, QueueInv
<1>2. Row \in RowIds /\ Retryable(Row) /\ batch[1].tries = dlqTries[Row]
  BY <1>1, HeadRetryable
<1>3. CASE UpdateDLQRetry(Row, batch[1].tries + 1)
  <2>1. DlqRetryOutcome(Row)
    BY <1>2, <1>3 DEF DlqRetryOutcome
  <2>2. DlqInv'
    BY <1>2, <2>1, OutcomeKeeps DEF QueueInv
  <2>3. \A n \in RowIds \ {Row} : dlqStatus'[n] = dlqStatus[n] /\ dlqTries'[n] = dlqTries[n]
    BY <1>3 DEF UpdateDLQRetry, QueueInv, DlqInv, DlqTypeOK
  <2> QED
    BY <1>1, <1>2, <2>1, <2>2, <2>3, NextRowKeeps DEF DlqNext
<1>4. CASE WriteFails
  <2>1. UNCHANGED dlqVars
    BY <1>4 DEF WriteFails
  <2>2. DlqInv'
    BY <2>1 DEF dlqVars, QueueInv, DlqInv, DlqTypeOK, RetryBudget
  <2> QED
    BY <1>1, <2>1, <2>2, NextRowKeeps DEF dlqVars
<1> QED
  BY <1>3, <1>4 DEF PostponeRow

LEMMA EndPassKeeps ==
  ASSUME QueueInv, EndPass
  PROVE  QueueInv' /\ DlqNext
<1>1. PICK old \in SUBSET RowIds : CleanupOldDLQ(old)
  BY DEF EndPass
<1>2. DlqInv'
  BY <1>1, CleanupKeeps DEF QueueInv
<1>3. batch' = batch /\ at' = "idle"
  BY DEF EndPass
<1>4. BatchFresh'
  <2> SUFFICES ASSUME NEW k \in DOMAIN batch
               PROVE  /\ dlqStatus'[batch[k].row] = "pending"
                      /\ dlqTries'[batch[k].row] = batch[k].tries
    BY <1>3 DEF BatchFresh
  <2> QED
    BY <1>1, BatchRows DEF CleanupOldDLQ
<1> QED
  BY <1>1, <1>2, <1>3, <1>4 DEF QueueInv, DlqNext

\* Steps that leave the table alone.
LEMMA QuietKeeps ==
  ASSUME QueueInv, UNCHANGED dlqVars,
         \/ batch' = batch /\ (at' \in {"call", "resolve", "backoff"} => batch # <<>>)
         \/ batch' = <<>> /\ at' = "idle"
  PROVE  QueueInv'
<1>1. DlqInv'
  BY DEF dlqVars, QueueInv, DlqInv, DlqTypeOK, RetryBudget
<1>2. CASE batch' = batch /\ (at' \in {"call", "resolve", "backoff"} => batch # <<>>)
  BY <1>1, <1>2 DEF QueueInv, BatchFresh, dlqVars
<1>3. CASE batch' = <<>> /\ at' = "idle"
  <2>1. <<>> \in Seq(BatchRow) /\ DOMAIN <<>> = {}
    OBVIOUS
  <2> QED
    BY <1>1, <1>3, <2>1 DEF QueueInv, BatchFresh
<1> QED
  BY <1>2, <1>3

LEMMA QueueStep ==
  QueueInv /\ [QueueNext]_queueVars => QueueInv' /\ [DlqNext]_dlqVars
<1> SUFFICES ASSUME QueueInv, [QueueNext]_queueVars
             PROVE  QueueInv' /\ [DlqNext]_dlqVars
  OBVIOUS
<1>1. CASE \E item \in DlqItems : Add(item)
  BY <1>1, AddKeeps
<1>2. CASE Tick
  BY <1>2, QuietKeeps DEF Tick, QueueInv
<1>3. CASE FetchBatch
  BY <1>3, FetchKeeps
<1>4. CASE CallTracker
  BY <1>4, QuietKeeps DEF CallTracker, QueueInv
<1>5. CASE SettleRow
  BY <1>5, SettleKeeps
<1>6. CASE PostponeRow
  BY <1>6, PostponeKeeps
<1>7. CASE EndPass
  BY <1>7, EndPassKeeps
<1>8. CASE Restart
  BY <1>8, QuietKeeps DEF Restart
<1>9. CASE UNCHANGED queueVars
  BY <1>9, QuietKeeps DEF queueVars, QueueInv
<1> QED
  BY <1>1, <1>2, <1>3, <1>4, <1>5, <1>6, <1>7, <1>8, <1>9 DEF QueueNext, WorkerStep

LEMMA QueueInvariant == QueueSpec => []QueueInv
<1>1. QueueInit => QueueInv
  <2> SUFFICES ASSUME QueueInit PROVE QueueInv
    OBVIOUS
  <2>1. DlqInv
    BY DlqAssumption DEF QueueInit, DlqInit, DlqInv, DlqTypeOK, RetryBudget, RowIds
  <2>2. batch = <<>> /\ at = "idle" /\ <<>> \in Seq(BatchRow) /\ DOMAIN <<>> = {}
    BY DEF QueueInit
  <2> QED
    BY <2>1, <2>2 DEF QueueInv, BatchFresh
<1> QED
  BY <1>1, QueueStep, PTL DEF QueueSpec

\* The worker never writes a count it read too long ago, and never calls a row
\* that has its verdict.
THEOREM BatchStaysFresh == QueueSpec => []BatchFresh
<1>1. QueueInv => BatchFresh
  BY DEF QueueInv
<1> QED
  BY <1>1, QueueInvariant, PTL

\* The worker of dlq_processor.go implements the abstract table: every step is
\* one of the table's operations on a row that may be retried, or none.
THEOREM QueueImplementsTable == QueueSpec => DlqImplemented
<1>1. QueueInit => DlqInit
  BY DEF QueueInit
<1> QED
  BY <1>1, QueueStep, QueueInvariant, PTL DEF QueueSpec, DlqSpec, DlqImplemented

\* So the theorems about the table hold of the worker.
THEOREM WorkerKeepsBudget == QueueSpec => []RetryBudget /\ VerdictFinal
BY QueueImplementsTable, RetryBudgetKept, VerdictsAreFinal, PTL DEF DlqImplemented

-----------------------------------------------------------------------------
\* The calls made for a row are its retries, the one that waits for its verdict,
\* and those a crash or a failed write made forgotten.
InFlight(n) == IF at \in {"resolve", "backoff"} /\ Row = n THEN 1 ELSE 0

CallsFit(n) ==
  /\ calls[n] \in Nat
  /\ dlqTries[n] + InFlight(n) <= calls[n]
  /\ calls[n] <= MaxRetries + troubles
  /\ dlqStatus[n] \in {"unused", "pending"} => calls[n] <= dlqTries[n] + troubles + InFlight(n)

CallsInv ==
  /\ calls \in [RowIds -> Nat]
  /\ troubles \in Nat
  /\ \A n \in RowIds : CallsFit(n)

\* Tries are numbers within the budget, and less than it for a row in hand.
LEMMA TriesBounded ==
  ASSUME QueueInv, NEW n \in RowIds
  PROVE  /\ dlqTries[n] \in Nat /\ MaxRetries \in Nat /\ dlqTries[n] <= MaxRetries
         /\ (dlqStatus[n] = "pending" => dlqTries[n] < MaxRetries)
BY DlqAssumption DEF QueueInv, DlqInv, DlqTypeOK, RetryBudget

\* No call is made and no verdict written: nothing to count, or one more trouble
\* if a call is forgotten.
LEMMA UncalledKeeps ==
  ASSUME QueueInv, CallsInv, calls' = calls, dlqTries' = dlqTries,
         \A n \in RowIds : \/ dlqStatus'[n] = dlqStatus[n]
                           \/ dlqStatus'[n] = "pending" /\ dlqStatus[n] = "unused"
                           \/ dlqStatus'[n] = "deleted",
         \/ troubles' = troubles /\ at' = at /\ batch' = batch
         \/ troubles' = troubles /\ at' \notin {"resolve", "backoff"}
              /\ at \notin {"resolve", "backoff"}
         \/ troubles' = troubles + 1 /\ at' \notin {"resolve", "backoff"}
  PROVE  CallsInv'
<1> SUFFICES ASSUME NEW n \in RowIds PROVE CallsFit(n)'
  BY DEF CallsInv, RowIds
<1>1. CallsFit(n) /\ troubles \in Nat
  BY DEF CallsInv
<1>2. InFlight(n) \in {0, 1}
  BY DEF InFlight
<1>3. \/ InFlight(n)' = InFlight(n) /\ troubles' = troubles
      \/ InFlight(n)' = 0 /\ troubles' = troubles + 1
  BY DEF InFlight, Row
<1> QED
  BY <1>1, <1>2, <1>3, TriesBounded DEF CallsFit

LEMMA CallKeepsCount ==
  ASSUME QueueInv, CallsInv, CallTracker
  PROVE  CallsInv'
<1>1. batch # <<>> /\ at = "call" /\ at' \in {"resolve", "backoff"} /\ batch' = batch
      /\ UNCHANGED <<dlqVars, troubles>> /\ calls' = [calls EXCEPT ![Row] = @ + 1]
  BY DEF CallTracker, QueueInv
<1>2. Row \in RowIds /\ dlqStatus[Row] = "pending"
  BY <1>1, HeadRetryable DEF Retryable
<1>3. calls' \in [RowIds -> Nat]
  BY <1>1, <1>2 DEF CallsInv
<1>4. ASSUME NEW n \in RowIds
      PROVE  CallsFit(n)'
  <2>1. CallsFit(n) /\ troubles \in Nat /\ InFlight(n) = 0
    BY <1>1 DEF CallsInv, InFlight
  <2>2. CASE n = Row
    <3>1. calls'[n] = calls[n] + 1 /\ InFlight(n)' = 1
      BY <1>1, <2>2 DEF CallsInv, InFlight, Row
    <3> QED
      BY <1>1, <1>2, <2>1, <2>2, <3>1, TriesBounded DEF CallsFit, dlqVars
  <2>3. CASE n # Row
    <3>1. calls'[n] = calls[n] /\ InFlight(n)' = 0
      BY <1>1, <2>3 DEF CallsInv, InFlight, Row
    <3> QED
      BY <1>1, <2>1, <3>1 DEF CallsFit, dlqVars
  <2> QED
    BY <2>2, <2>3
<1> QED
  BY <1>1, <1>3, <1>4 DEF CallsInv, RowIds

\* A verdict, or one more retry on the row's count.
LEMMA VerdictKeepsCount ==
  ASSUME QueueInv, CallsInv, SettleRow \/ PostponeRow
  PROVE  CallsInv'
<1>1. batch # <<>> /\ at \in {"resolve", "backoff"} /\ calls' = calls
      /\ at' \in {"cleanup", "call"}
  BY DEF SettleRow, PostponeRow, NextRow, QueueInv
<1>2. Row \in RowIds /\ dlqStatus[Row] = "pending" /\ batch[1].tries = dlqTries[Row]
  BY <1>1, HeadRetryable DEF Retryable
<1>3. CASE WriteFails
  <2>1. dlqStatus' = dlqStatus /\ dlqTries' = dlqTries /\ troubles' = troubles + 1
    BY <1>3 DEF WriteFails, dlqVars
  <2> QED
    BY <1>1, <2>1, UncalledKeeps
<1>4. CASE ~WriteFails
  <2>1. /\ troubles' = troubles
        /\ \A n \in RowIds \ {Row} : dlqStatus'[n] = dlqStatus[n] /\ dlqTries'[n] = dlqTries[n]
        /\ \/ dlqTries'[Row] = dlqTries[Row] /\ dlqStatus'[Row] = "resolved"
           \/ dlqTries'[Row] = dlqTries[Row] + 1
    BY <1>2, <1>4 DEF SettleRow, PostponeRow, MarkDLQResolved, UpdateDLQRetry, QueueInv,
                      DlqInv, DlqTypeOK
  <2>2. ASSUME NEW n \in RowIds
        PROVE  CallsFit(n)'
    <3>1. CallsFit(n) /\ troubles \in Nat /\ InFlight(n)' = 0
      BY <1>1 DEF CallsInv, InFlight
    <3>2. CASE n = Row
      <4>1. InFlight(n) = 1
        BY <1>1, <3>2 DEF InFlight
      <4> QED
        BY <1>1, <1>2, <2>1, <3>1, <3>2, <4>1, TriesBounded DEF CallsFit
    <3>3. CASE n # Row
      <4>1. InFlight(n) = 0
        BY <3>3 DEF InFlight
      <4> QED
        BY <1>1, <2>1, <3>1, <3>3, <4>1, TriesBounded DEF CallsFit
    <3> QED
      BY <3>2, <3>3
  <2> QED
    BY <1>1, <2>1, <2>2 DEF CallsInv, RowIds
<1> QED
  BY <1>3, <1>4

LEMMA CallsStep ==
  ASSUME QueueInv, CallsInv, [QueueNext]_queueVars
  PROVE  CallsInv'
<1>1. ASSUME NEW item \in DlqItems, Add(item)
      PROVE  CallsInv'
  <2>1. /\ calls' = calls /\ dlqTries' = dlqTries /\ troubles' = troubles
        /\ at' = at /\ batch' = batch
    BY <1>1 DEF Add, EnqueueDLQ
  <2>2. \A n \in RowIds : \/ dlqStatus'[n] = dlqStatus[n]
                          \/ dlqStatus'[n] = "pending" /\ dlqStatus[n] = "unused"
    BY <1>1, DlqAssumption DEF Add, EnqueueDLQ, QueueInv, DlqInv, DlqTypeOK, RetryBudget, RowIds
  <2> QED
    BY <2>1, <2>2, UncalledKeeps
<1>2. CASE Tick \/ UNCHANGED queueVars
  <2>1. /\ calls' = calls /\ dlqTries' = dlqTries /\ dlqStatus' = dlqStatus
        /\ troubles' = troubles /\ at' = at /\ batch' = batch
    BY <1>2 DEF Tick, queueVars, dlqVars
  <2> QED
    BY <2>1, UncalledKeeps
<1>3. CASE FetchBatch
  <2>1. /\ calls' = calls /\ dlqTries' = dlqTries /\ dlqStatus' = dlqStatus
        /\ troubles' = troubles /\ at' = "call" /\ at = "idle"
    BY <1>3 DEF FetchBatch, dlqVars
  <2> QED
    BY <2>1, UncalledKeeps
<1>4. CASE CallTracker
  BY <1>4, CallKeepsCount
<1>5. CASE SettleRow \/ PostponeRow
  BY <1>5, VerdictKeepsCount
<1>6. CASE EndPass
  <2>1. PICK old \in SUBSET RowIds : CleanupOldDLQ(old)
    BY <1>6 DEF EndPass
  <2>2. \A n \in RowIds : dlqStatus'[n] = dlqStatus[n] \/ dlqStatus'[n] = "deleted"
    BY <2>1 DEF CleanupOldDLQ
  <2>3. /\ calls' = calls /\ dlqTries' = dlqTries
        /\ troubles' = troubles /\ at' = "idle" /\ at = "cleanup"
    BY <1>6, <2>1 DEF EndPass, CleanupOldDLQ
  <2> QED
    BY <2>2, <2>3, UncalledKeeps
<1>7. CASE Restart
  <2>1. /\ calls' = calls /\ dlqTries' = dlqTries /\ dlqStatus' = dlqStatus
        /\ troubles' = troubles + 1 /\ at' = "idle"
    BY <1>7 DEF Restart, dlqVars
  <2> QED
    BY <2>1, UncalledKeeps
<1> QED
  BY <1>1, <1>2, <1>3, <1>4, <1>5, <1>6, <1>7 DEF QueueNext, WorkerStep

LEMMA CallsInvariant == QueueSpec => []CallsInv
<1>1. QueueInit => CallsInv
  BY DlqAssumption DEF QueueInit, DlqInit, CallsInv, CallsFit, InFlight
<1> QED
  BY <1>1, CallsStep, QueueInvariant, PTL DEF QueueSpec

\* No row makes more calls than its budget allows and crashes and failed writes
\* excuse, and none is given up before it had its retries - for any number of rows,
\* any batch and any back-off.
THEOREM TrackerNotHammered == QueueSpec => []CallBudget
<1>1. QueueInv /\ CallsInv => CallBudget
  <2> SUFFICES ASSUME QueueInv, CallsInv, NEW n \in RowIds
               PROVE  /\ calls[n] <= MaxRetries + troubles
                      /\ (dlqStatus[n] = "failed" => calls[n] >= MaxRetries)
    BY DEF CallBudget
  <2>1. CallsFit(n) /\ InFlight(n) \in {0, 1}
    BY DEF CallsInv, InFlight
  <2>2. dlqStatus[n] = "failed" => dlqTries[n] = MaxRetries
    BY DEF QueueInv, DlqInv, RetryBudget
  <2> QED
    BY <2>1, <2>2, TriesBounded DEF CallsFit
<1> QED
  BY <1>1, QueueInvariant, CallsInvariant, PTL

-----------------------------------------------------------------------------
\* Powers of two grow: 2^m counts the subsets of 1..m.
LEMMA PowersOrdered ==
  ASSUME NEW m \in Nat, NEW n \in Nat, m <= n
  PROVE  2 ^ m \in Nat /\ 2 ^ m <= 2 ^ n
<1>1. \A k \in Nat : /\ IsFiniteSet(SUBSET (1..k))
                     /\ Cardinality(SUBSET (1..k)) = 2 ^ k
  <2> SUFFICES ASSUME NEW k \in Nat
               PROVE  /\ IsFiniteSet(SUBSET (1..k))
                      /\ Cardinality(SUBSET (1..k)) = 2 ^ k
    OBVIOUS
  <2>1. IsFiniteSet(1..k) /\ Cardinality(1..k) = k
    BY FS_Interval
  <2> QED
    BY <2>1, FS_SUBSET
<1>2. SUBSET (1..m) \subseteq SUBSET (1..n)
  OBVIOUS
<1>3. /\ Cardinality(SUBSET (1..m)) \in Nat
      /\ Cardinality(SUBSET (1..m)) <= Cardinality(SUBSET (1..n))
  BY <1>1, <1>2, FS_Subset, FS_CardinalityType
<1> QED
  BY <1>1, <1>3

\* The due times stay within the delays the worker writes.
WaitInv ==
  /\ wait \in [RowIds -> Int]
  /\ \A n \in RowIds : -MaxLate <= wait[n] /\ wait[n] <= FirstWait + 2 ^ MaxRetries

LEMMA OneWaitSet ==
  ASSUME WaitInv, NEW n, NEW w \in Int, -MaxLate <= w, w <= FirstWait + 2 ^ MaxRetries,
         wait' = [wait EXCEPT ![n] = w]
  PROVE  WaitInv'
BY DEF WaitInv, RowIds

LEMMA WaitStep ==
  ASSUME QueueInv, WaitInv, [QueueNext]_queueVars
  PROVE  WaitInv'
<1>1. MaxRetries \in Nat /\ FirstWait \in Nat /\ MaxLate \in Nat
  BY DlqAssumption, QueueAssumption
<1>2. 2 ^ MaxRetries \in Nat
  BY <1>1, PowersOrdered
<1>3. CASE wait' = wait
  BY <1>3 DEF WaitInv, RowIds
<1>4. ASSUME NEW item \in DlqItems, Add(item)
      PROVE  WaitInv'
  <2>1. FirstWait \in Int /\ -MaxLate <= FirstWait /\ FirstWait <= FirstWait + 2 ^ MaxRetries
    BY <1>1, <1>2
  <2> QED
    BY <1>4, <2>1, OneWaitSet DEF Add
<1>5. CASE Tick
  BY <1>1, <1>5 DEF Tick, WaitInv, RowIds
<1>6. CASE PostponeRow
  <2>1. batch # <<>>
    BY <1>6 DEF PostponeRow, QueueInv
  <2>2. Row \in RowIds /\ batch[1].tries \in Nat /\ batch[1].tries <= MaxRetries
    BY <2>1, HeadRetryable DEF QueueInv, DlqInv, DlqTypeOK
  <2>3. 2 ^ batch[1].tries \in Nat /\ 2 ^ batch[1].tries <= 2 ^ MaxRetries
    BY <1>1, <2>2, PowersOrdered
  <2>4. wait' = wait \/ wait' = [wait EXCEPT ![Row] = 2 ^ batch[1].tries]
    BY <1>6 DEF PostponeRow, WriteFails
  <2>5. /\ 2 ^ batch[1].tries \in Int /\ -MaxLate <= 2 ^ batch[1].tries
        /\ 2 ^ batch[1].tries <= FirstWait + 2 ^ MaxRetries
    BY <1>1, <1>2, <2>3
  <2> QED
    BY <1>3, <2>4, <2>5, OneWaitSet
<1> QED
  BY <1>3, <1>4, <1>5, <1>6 DEF QueueNext, WorkerStep, FetchBatch, CallTracker, SettleRow,
                                EndPass, Restart, WriteFails, queueVars

LEMMA TroublesStep ==
  ASSUME troubles \in 0..MaxTroubles, at \in {"idle", "call", "resolve", "backoff", "cleanup"},
         [QueueNext]_queueVars
  PROVE  troubles' \in 0..MaxTroubles /\ at' \in {"idle", "call", "resolve", "backoff", "cleanup"}
BY QueueAssumption DEF QueueNext, WorkerStep, Add, Tick, FetchBatch, CallTracker, SettleRow,
                       PostponeRow, EndPass, Restart, NextRow, WriteFails, queueVars

\* Types of the worker, its clock included, for any batch size and back-off.
THEOREM QueueTyped == QueueSpec => []QueueTypeOK
<1> DEFINE Rest == troubles \in 0..MaxTroubles /\ at \in {"idle", "call", "resolve", "backoff", "cleanup"}
<1>1. QueueInit => WaitInv /\ Rest
  <2>1. MaxRetries \in Nat /\ 2 ^ MaxRetries \in Nat
    BY DlqAssumption, PowersOrdered
  <2> QED
    BY <2>1, QueueAssumption DEF QueueInit, WaitInv
<1>2. QueueInv /\ WaitInv /\ Rest /\ [QueueNext]_queueVars => WaitInv' /\ Rest'
  BY WaitStep, TroublesStep
<1>3. QueueInv /\ CallsInv /\ WaitInv /\ Rest => QueueTypeOK
  BY DEF QueueInv, DlqInv, CallsInv, WaitInv, QueueTypeOK, BatchRow
<1> QED
  BY <1>1, <1>2, <1>3, QueueInvariant, CallsInvariant, PTL DEF QueueSpec
=============================================================================
