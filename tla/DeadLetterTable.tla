--------------------------- MODULE DeadLetterTable ---------------------------
(***************************************************************************)
(* The table dead_letter_queue of internal/storage/repository.go: calls to *)
(* the Tracker that failed and are to be retried.  A row goes from pending *)
(* to resolved, or to failed once its retry budget is used, and is deleted *)
(* some time after that.  This is the abstract view, without the clock:    *)
(* when a pending row is retried is left open.  DeadLetterQueue adds the   *)
(* clock, the batches and the back-off and implements it.                  *)
(***************************************************************************)
EXTENDS Integers

CONSTANTS
  DlqItems,     \* what a row holds: issue key, assignee and group of the call
  NoItem,       \* the content of an unused row
  MaxDlqRows,   \* most rows ever inserted (bound)
  MaxRetries    \* the column max_retries (5 at every call site)

ASSUME DlqAssumption ==
  /\ NoItem \notin DlqItems
  /\ MaxDlqRows \in Nat
  /\ MaxRetries \in Nat \ {0}

VARIABLES
  dlqStatus,    \* per row: unused, pending, resolved, failed or deleted
  dlqTries,     \* retry_count
  dlqItem,      \* issue_key and payload
  dlqLast       \* the AUTOINCREMENT counter

dlqVars == <<dlqStatus, dlqTries, dlqItem, dlqLast>>

RowIds == 1..MaxDlqRows

DlqInit ==
  /\ dlqStatus = [n \in RowIds |-> "unused"]
  /\ dlqTries = [n \in RowIds |-> 0]
  /\ dlqItem = [n \in RowIds |-> NoItem]
  /\ dlqLast = 0

\* There is no uniqueness constraint: one issue may have several rows.
EnqueueDLQ(item) ==
  /\ dlqLast < MaxDlqRows
  /\ dlqLast' = dlqLast + 1
  /\ dlqStatus' = [dlqStatus EXCEPT ![dlqLast + 1] = "pending"]
  /\ dlqItem' = [dlqItem EXCEPT ![dlqLast + 1] = item]
  /\ UNCHANGED dlqTries

\* Mutated form of Retryable: the last retry is never made.
RetryableOneShort(n) ==
  /\ dlqStatus[n] = "pending"
  /\ dlqTries[n] + 1 < MaxRetries

\* WHERE status = 'pending' AND retry_count < max_retries (the clock is below).
Retryable(n) ==
  /\ dlqStatus[n] = "pending"
  /\ dlqTries[n] < MaxRetries

\* Mutated forms of UpdateDLQRetry: > for >=; a count that is never written.
UpdateOnePastMax(n, count) ==
  /\ dlqTries' = [dlqTries EXCEPT ![n] = count]
  /\ dlqStatus' = [dlqStatus EXCEPT ![n] = IF count > MaxRetries THEN "failed" ELSE "pending"]
  /\ UNCHANGED <<dlqItem, dlqLast>>

UpdateUncounted(n, count) ==
  /\ dlqStatus' = [dlqStatus EXCEPT ![n] = IF count >= MaxRetries THEN "failed" ELSE "pending"]
  /\ UNCHANGED <<dlqTries, dlqItem, dlqLast>>

\* SET retry_count = ?, status = CASE WHEN ? >= max_retries THEN 'failed' ...
UpdateDLQRetry(n, count) ==
  /\ dlqTries' = [dlqTries EXCEPT ![n] = count]
  /\ dlqStatus' = [dlqStatus EXCEPT ![n] =
                     IF count >= MaxRetries THEN "failed" ELSE "pending"]
  /\ UNCHANGED <<dlqItem, dlqLast>>

\* Mutated form of MarkDLQResolved: a status no query knows.
MarkDLQDone(n) ==
  /\ dlqStatus' = [dlqStatus EXCEPT ![n] = "done"]
  /\ UNCHANGED <<dlqTries, dlqItem, dlqLast>>

MarkDLQResolved(n) ==
  /\ dlqStatus' = [dlqStatus EXCEPT ![n] = "resolved"]
  /\ UNCHANGED <<dlqTries, dlqItem, dlqLast>>

\* CleanupOldDLQ deletes the terminal rows that are old enough (14 days).
CleanupOldDLQ(old) ==
  /\ \A n \in old : dlqStatus[n] \in {"resolved", "failed"}
  /\ dlqStatus' = [n \in RowIds |-> IF n \in old THEN "deleted" ELSE dlqStatus[n]]
  /\ UNCHANGED <<dlqTries, dlqItem, dlqLast>>

-----------------------------------------------------------------------------
\* What the life of the rows promises, whoever drives it.
DlqRetryOutcome(n) ==
  /\ Retryable(n)
  /\ \/ MarkDLQResolved(n)
     \/ UpdateDLQRetry(n, dlqTries[n] + 1)

DlqNext ==
  \/ \E item \in DlqItems : EnqueueDLQ(item)
  \/ \E n \in RowIds : DlqRetryOutcome(n)
  \/ \E old \in SUBSET RowIds : CleanupOldDLQ(old)

DlqSpec == DlqInit /\ [][DlqNext]_dlqVars

-----------------------------------------------------------------------------
DlqTypeOK ==
  /\ dlqStatus \in [RowIds -> {"unused", "pending", "resolved", "failed", "deleted"}]
  /\ dlqTries \in [RowIds -> 0..MaxRetries]
  /\ dlqItem \in [RowIds -> DlqItems \cup {NoItem}]
  /\ dlqLast \in 0..MaxDlqRows

\* The retry budget: a row is failed exactly when its budget is used up, so a
\* pending row can always be retried (the query of repository.go:383 never
\* leaves one behind) and a failed one has had every retry it was promised.
RetryBudget ==
  \A n \in RowIds :
    /\ (dlqStatus[n] = "failed" => dlqTries[n] = MaxRetries)
    /\ (dlqStatus[n] \in {"pending", "resolved"} => dlqTries[n] < MaxRetries)
    /\ (dlqStatus[n] = "unused" <=> n > dlqLast)

\* resolved and failed are final: such a row is never retried again, never
\* changes its verdict, and no row loses or changes its content.
VerdictFinal ==
  [][\A n \in RowIds :
       /\ (dlqStatus[n] \in {"resolved", "failed"}
             => dlqStatus'[n] \in {dlqStatus[n], "deleted"})
       /\ (dlqStatus[n] = "deleted" => dlqStatus'[n] = "deleted")
       /\ (dlqStatus[n] # "unused" => dlqItem'[n] = dlqItem[n])
       /\ dlqTries'[n] >= dlqTries[n]]_dlqVars
=============================================================================
