-------------------------- MODULE PendingProcessor --------------------------
(***************************************************************************)
(* PendingProcessor.ProcessOnce (pending_processor.go): one goroutine that *)
(* takes the oldest waiting ticket of all groups, and stops its pass at    *)
(* the first one nobody is free for.  The next tick starts again at the    *)
(* head of the queue, so where a pass begins and ends leaves no trace.     *)
(* The worker takes no part in the inFlight protocol of the webhooks.      *)
(***************************************************************************)
EXTENDS Service

VARIABLE pworker   \* [at, row, slot, err]: its next call, the row it fetched, why it failed

PIdle == [at |-> "idle"]

PAt(label) == pworker.at = label
PGoto(label) == pworker' = [pworker EXCEPT !.at = label]
PStop == pworker' = PIdle

PendingWorkerInit == pworker = PIdle

FetchPending ==
  /\ PAt("idle")
  /\ \E r \in pending :
       /\ IsNextPending(r)
       /\ pworker' = [at |-> "pick", row |-> r, slot |-> NoRow, err |-> "none"]
  /\ UNCHANGED serviceVars

\* An unknown group discards the ticket; nobody free, or any other error of the
\* balancer, ends the pass.
PickForPending ==
  LET g == pworker.row.group IN
  /\ PAt("pick")
  /\ \/ /\ g \notin groups
        /\ PGoto("discard")
        /\ UNCHANGED serviceVars
     \/ /\ g \in groups
        /\ Members[g] = {} \/ PickAssignee(g) = {}
        /\ PStop
        /\ UNCHANGED serviceVars
     \/ g \in groups /\ PStop /\ ReadFails
     \/ /\ g \in groups
        /\ \E a \in PickAssignee(g) :
             pworker' = [pworker EXCEPT !.at = "assign", !.slot = <<g, a>>]
        /\ UNCHANGED serviceVars

\* What strings.Contains(err.Error(), "404") may say: the text has the status, the
\* request with the issue key, the address of the Tracker and the body of its answer
\* or the words of the network, so that it may say yes to any error.
LooksLike404(i, outcome) == {yes \in BOOLEAN : outcome = "404" \/ i \in Has404 => yes}

AfterAssign(outcome, is404) ==
  CASE outcome = "ok" -> "record"
    [] outcome # "ok" /\ is404 -> "discard"
    [] outcome = "429" /\ ~is404 -> "stop"
    [] OTHER -> "bury"

AssignPending ==
  LET i == pworker.row.key IN
  /\ PAt("assign")
  /\ \E outcome \in Outcomes, is404 \in BOOLEAN :
       /\ is404 \in LooksLike404(i, outcome)
       /\ AssigneeCall(i, pworker.slot[2], outcome)
       /\ duty' = IF outcome = "ok" THEN duty \ {i} ELSE duty
       /\ IF AfterAssign(outcome, is404) = "stop" THEN PStop
          ELSE pworker' = [pworker EXCEPT !.at = AfterAssign(outcome, is404), !.err = outcome]
  /\ OnlyWorld

\* Mutated form of BuryPending: the row for the dead letter queue is not written.
BuryUnwritten ==
  /\ PAt("bury")
  /\ PGoto("buried")
  /\ UNCHANGED serviceVars

\* The ticket moves to the dead letter queue first, then leaves this one.  The error
\* of the insert is ignored; unburied is the same place in the code, told apart for
\* the ghost duty.
BuryPending ==
  /\ PAt("bury")
  /\ Write(EnqueueDLQ(<<pworker.row.key, pworker.slot>>), dlqVars)
  /\ PGoto(IF dbFaults' = dbFaults THEN "buried" ELSE "unburied")
  /\ OnlyDlq /\ UNCHANGED duty

RecordPending ==
  /\ PAt("record")
  /\ Write(IncrementLoadForIssue(pworker.slot, pworker.row.key), ledgerVars)
  /\ PGoto("recorded")
  /\ OnlyLedger /\ UNCHANGED duty

\* MarkPendingAssigned: assigned, moved to the dead letter queue (or lost on the way
\* there), or discarded.
DeletePending ==
  /\ pworker.at \in {"recorded", "buried", "unburied", "discard"}
  /\ Write(MarkPendingAssigned(pworker.row.id), pendingVars)
  /\ duty' = IF PAt("buried") \/ dbFaults' # dbFaults THEN duty ELSE duty \ {pworker.row.key}
  /\ PStop
  /\ OnlyPending

PendingWorkerStep ==
  \/ FetchPending \/ PickForPending \/ AssignPending
  \/ BuryPending \/ RecordPending \/ DeletePending

PendingWorkerLost == pworker' = PIdle

-----------------------------------------------------------------------------
Errands ==
  {w \in [at : {"pick", "discard", "assign", "record", "recorded", "bury", "buried", "unburied"},
          row : PendingRow, slot : Slots \cup {NoRow}, err : Outcomes \cup {"none"}] :
     w.at \notin {"pick", "discard"} => w.slot \in Slots}

PendingWorkerTypeOK == pworker \in {PIdle} \cup Errands
=============================================================================
