------------------------ MODULE DeadLetterTableProofs ------------------------
(***************************************************************************)
(* Every client of the table dead_letter_queue that follows DlqSpec keeps  *)
(* the retry budget and never takes a verdict back, for any number of rows *)
(* and any budget.                                                         *)
(***************************************************************************)
EXTENDS DeadLetterTable, TLAPS

\* RetryBudget is not inductive alone: a new row takes over the retry count its
\* unused slot had, which is 0.
DlqInv ==
  /\ DlqTypeOK
  /\ RetryBudget
  /\ \A n \in RowIds : dlqStatus[n] = "unused" => dlqTries[n] = 0

\* The verdict part of VerdictFinal, for one step.
VerdictStep ==
  \A n \in RowIds :
    /\ (dlqStatus[n] \in {"resolved", "failed"}
          => dlqStatus'[n] \in {dlqStatus[n], "deleted"})
    /\ (dlqStatus[n] = "deleted" => dlqStatus'[n] = "deleted")
    /\ (dlqStatus[n] # "unused" => dlqItem'[n] = dlqItem[n])
    /\ dlqTries'[n] >= dlqTries[n]

\* EnqueueDLQ uses the first unused row and touches no other.
LEMMA EnqueueKeeps ==
  ASSUME DlqInv, NEW item \in DlqItems, EnqueueDLQ(item)
  PROVE  DlqInv' /\ VerdictStep
<1> DEFINE n == dlqLast + 1
<1>1. n \in RowIds /\ dlqStatus[n] = "unused" /\ dlqTries[n] = 0
  BY DlqAssumption DEF DlqInv, DlqTypeOK, RetryBudget, RowIds, EnqueueDLQ
<1>2. DlqTypeOK'
  BY <1>1, DlqAssumption DEF DlqInv, DlqTypeOK, RowIds, EnqueueDLQ
<1>3. RetryBudget'
  BY <1>1, DlqAssumption DEF DlqInv, DlqTypeOK, RetryBudget, RowIds, EnqueueDLQ
<1>4. \A k \in RowIds : dlqStatus'[k] = "unused" => dlqTries'[k] = 0
  BY <1>1 DEF DlqInv, DlqTypeOK, EnqueueDLQ
<1>5. VerdictStep
  BY <1>1, DlqAssumption DEF DlqInv, DlqTypeOK, VerdictStep, EnqueueDLQ
<1> QED
  BY <1>2, <1>3, <1>4, <1>5 DEF DlqInv

\* The outcome of a retry changes one pending row.
LEMMA OutcomeKeeps ==
  ASSUME DlqInv, NEW n \in RowIds, DlqRetryOutcome(n)
  PROVE  DlqInv' /\ VerdictStep
<1>1. dlqStatus[n] = "pending" /\ dlqTries[n] < MaxRetries
  BY DEF DlqRetryOutcome, Retryable
<1>2. CASE MarkDLQResolved(n)
  BY <1>1, <1>2, DlqAssumption
  DEF DlqInv, DlqTypeOK, RetryBudget, VerdictStep, MarkDLQResolved, RowIds
<1>3. CASE UpdateDLQRetry(n, dlqTries[n] + 1)
  <2>1. dlqTries[n] + 1 \in 0..MaxRetries /\ dlqTries[n] \in Nat
    BY <1>1, DlqAssumption DEF DlqInv, DlqTypeOK
  <2>2. DlqTypeOK'
    BY <1>3, <2>1 DEF DlqInv, DlqTypeOK, UpdateDLQRetry
  <2>3. RetryBudget'
    BY <1>1, <1>3, <2>1, DlqAssumption
    DEF DlqInv, DlqTypeOK, RetryBudget, UpdateDLQRetry, RowIds
  <2>4. \A k \in RowIds : dlqStatus'[k] = "unused" => dlqTries'[k] = 0
    BY <1>1, <1>3 DEF DlqInv, DlqTypeOK, UpdateDLQRetry
  <2>5. VerdictStep
    BY <1>1, <1>3, <2>1, DlqAssumption DEF DlqInv, DlqTypeOK, VerdictStep, UpdateDLQRetry
  <2> QED
    BY <2>2, <2>3, <2>4, <2>5 DEF DlqInv
<1> QED
  BY <1>2, <1>3 DEF DlqRetryOutcome

\* The cleanup takes only rows that have their verdict.
LEMMA CleanupKeeps ==
  ASSUME DlqInv, NEW old \in SUBSET RowIds, CleanupOldDLQ(old)
  PROVE  DlqInv' /\ VerdictStep
<1>1. DlqTypeOK'
  BY DEF DlqInv, DlqTypeOK, CleanupOldDLQ
<1>2. RetryBudget'
  BY DlqAssumption DEF DlqInv, DlqTypeOK, RetryBudget, CleanupOldDLQ, RowIds
<1>3. \A k \in RowIds : dlqStatus'[k] = "unused" => dlqTries'[k] = 0
  BY DEF DlqInv, CleanupOldDLQ
<1>4. VerdictStep
  BY DlqAssumption DEF DlqInv, DlqTypeOK, VerdictStep, CleanupOldDLQ
<1> QED
  BY <1>1, <1>2, <1>3, <1>4 DEF DlqInv

LEMMA DlqInvStep ==
  DlqInv /\ [DlqNext]_dlqVars => DlqInv' /\ (VerdictStep \/ UNCHANGED dlqVars)
<1> SUFFICES ASSUME DlqInv, [DlqNext]_dlqVars
             PROVE  DlqInv' /\ (VerdictStep \/ UNCHANGED dlqVars)
  OBVIOUS
<1>1. CASE \E item \in DlqItems : EnqueueDLQ(item)
  BY <1>1, EnqueueKeeps
<1>2. CASE \E n \in RowIds : DlqRetryOutcome(n)
  BY <1>2, OutcomeKeeps
<1>3. CASE \E old \in SUBSET RowIds : CleanupOldDLQ(old)
  BY <1>3, CleanupKeeps
<1>4. CASE UNCHANGED dlqVars
  BY <1>4 DEF dlqVars, DlqInv, DlqTypeOK, RetryBudget
<1> QED
  BY <1>1, <1>2, <1>3, <1>4 DEF DlqNext

LEMMA DlqInvariant == DlqSpec => []DlqInv
<1>1. DlqInit => DlqInv
  BY DlqAssumption DEF DlqInit, DlqInv, DlqTypeOK, RetryBudget, RowIds
<1> QED
  BY <1>1, DlqInvStep, PTL DEF DlqSpec

\* A failed row has had every retry it was promised and a pending row can always
\* be retried (repository.go:383, repository.go:432).
THEOREM RetryBudgetKept == DlqSpec => []RetryBudget
<1>1. DlqInv => RetryBudget
  BY DEF DlqInv
<1> QED
  BY <1>1, DlqInvariant, PTL

\* resolved and failed are final, and no row loses its content.
THEOREM VerdictsAreFinal == DlqSpec => VerdictFinal
<1>1. DlqInv /\ [DlqNext]_dlqVars =>
        [\A n \in RowIds :
           /\ (dlqStatus[n] \in {"resolved", "failed"}
                 => dlqStatus'[n] \in {dlqStatus[n], "deleted"})
           /\ (dlqStatus[n] = "deleted" => dlqStatus'[n] = "deleted")
           /\ (dlqStatus[n] # "unused" => dlqItem'[n] = dlqItem[n])
           /\ dlqTries'[n] >= dlqTries[n]]_dlqVars
  BY DlqInvStep DEF VerdictStep
<1> QED
  BY <1>1, DlqInvariant, PTL DEF DlqSpec, VerdictFinal
=============================================================================
