---------------------------- MODULE PendingQueue ----------------------------
(***************************************************************************)
(* The table pending_queue of internal/storage/repository.go: tickets that *)
(* wait for a free assignee.  Every operation is one SQL statement, hence  *)
(* one atomic action.  The columns payload, queue_key and attempts are     *)
(* carried along by the code and decide nothing, so they are left out.     *)
(*                                                                         *)
(* The queue is ordered by created_at, not by the id.  The stamp is taken  *)
(* before the one connection is waited for (repository.go:213) and kept in *)
(* whole seconds, so rows inserted soon after each other may have the same *)
(* stamp, or stamps in the other order.  Time is counted in inserts here:  *)
(* the stamp of a row is at most MaxStampLag inserts older than its id.    *)
(***************************************************************************)
EXTENDS Domain

CONSTANTS
  MaxStampLag,   \* most inserts a row's created_at may be behind its turn (bound)
  MaxPendingId   \* most rows the client of PendingNext ever inserts (bound)

ASSUME PendingAssumption == MaxStampLag \in Nat /\ MaxPendingId \in Nat

VARIABLES
  pending,       \* the rows: [id, key, group, at]; at is created_at
  lastPendingId  \* the AUTOINCREMENT counter; ids are never used again

pendingVars == <<pending, lastPendingId>>

PendingRow == [id : Nat, key : Issues, group : Groups, at : Int]

IsPending(i) == \E r \in pending : r.key = i

PendingInit == pending = {} /\ lastPendingId = 0

\* The rows an INSERT of ticket i for group g may add.
NewRows(i, g) ==
  {[id |-> lastPendingId + 1, key |-> i, group |-> g, at |-> lastPendingId + 1 - lag] :
     lag \in 0..MaxStampLag}

\* Mutated forms of EnqueuePending: key and group in the wrong order; no conflict
\* clause; a conflict clause that replaces the row.
EnqueueSwapped(i, g) ==
  /\ lastPendingId' = lastPendingId + 1
  /\ \E new \in NewRows(g, i) : pending' = pending \cup {new}

EnqueueTwice(i, g) ==
  /\ lastPendingId' = lastPendingId + 1
  /\ \E new \in NewRows(i, g) : pending' = pending \cup {new}

EnqueueReplacing(i, g) ==
  /\ lastPendingId' = lastPendingId + 1
  /\ \E new \in NewRows(i, g) : pending' = {r \in pending : r.key # i} \cup {new}

\* ON CONFLICT(issue_key): the row of an issue that already waits keeps its
\* id, its created_at and its group; the new group is ignored.
EnqueuePending(i, g) ==
  \/ /\ IsPending(i)
     /\ UNCHANGED pendingVars
  \/ /\ ~IsPending(i)
     /\ lastPendingId' = lastPendingId + 1
     /\ \E new \in NewRows(i, g) : pending' = pending \cup {new}

\* ORDER BY created_at ASC LIMIT 1, over the rows of every group; which of several
\* rows with the oldest stamp comes first is left to the storage engine.
IsNextPending(r) ==
  /\ r \in pending
  /\ \A q \in pending : r.at <= q.at

\* DELETE ... WHERE id = ?: no effect when the row is gone already.
MarkPendingAssigned(n) ==
  /\ pending' = {r \in pending : r.id # n}
  /\ UNCHANGED lastPendingId

\* DELETE ... WHERE issue_key = ?
RemovePendingByIssueKey(i) ==
  /\ pending' = {r \in pending : r.key # i}
  /\ UNCHANGED lastPendingId

-----------------------------------------------------------------------------
\* Any client: MarkPendingAssigned is called with any id read before, also one
\* whose row has been removed and enqueued again since.
PendingCall ==
  \/ \E i \in Issues, g \in Groups : EnqueuePending(i, g)
  \/ \E n \in 1..lastPendingId : MarkPendingAssigned(n)
  \/ \E i \in Issues : RemovePendingByIssueKey(i)

PendingSpec == PendingInit /\ [][PendingCall]_pendingVars

\* The same with bounded ids, for a run.
PendingNext == PendingCall /\ lastPendingId' <= MaxPendingId

-----------------------------------------------------------------------------
PendingTypeOK ==
  /\ pending \in SUBSET PendingRow
  /\ \A r \in pending : r.at \in (r.id - MaxStampLag)..r.id
  /\ lastPendingId \in Nat

\* A ticket waits at most once and an id names at most one row, so a delete by
\* id (pending_processor.go:264) never takes a row other than the one fetched.
PendingUnique ==
  /\ \A r \in pending : r.id \in 1..lastPendingId
  /\ \A r, q \in pending : (r.key = q.key \/ r.id = q.id) => r = q

\* First come, first served, as far as the stamps tell: a ticket that stays in the
\* queue keeps its row and with it its place, even when it is enqueued again
\* (repository.go:221), and a new row goes before a waiting one only if that was
\* inserted so shortly before that both were stamped together.
KeepsPlace ==
  [][/\ \A r \in pending : (\E q \in pending' : q.key = r.key) => r \in pending'
     /\ \A q \in pending' \ pending, r \in pending :
          r.id < q.id - MaxStampLag => r.at < q.at]_pendingVars
=============================================================================
