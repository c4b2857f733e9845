------------------------------ MODULE StateSync ------------------------------
(***************************************************************************)
(* StateSyncWorker.SyncOnce (state_sync.go): per group, one search for the *)
(* open issues of its assignees, then one transaction per assignee with    *)
(* the keys found.  The search result is a snapshot: tickets go on being   *)
(* assigned and closed while the transactions run.                         *)
(***************************************************************************)
EXTENDS Service

VARIABLE sworker   \* [at, rest, group, found, todo]: groups and assignees left

SIdle == [at |-> "idle"]

SyncWorkerInit == sworker = SIdle

\* A pass works on the groups configured when it began; a tick or a trigger
\* starts it.
StartPass ==
  /\ sworker.at = "idle"
  /\ groups # {}
  /\ sworker' = [at |-> "search", rest |-> groups]
  /\ UNCHANGED serviceVars

NextGroup(rest) == IF rest = {} THEN SIdle ELSE [at |-> "search", rest |-> rest]

\* The search returns the open issues of all members; an error skips the group.
SearchGroup ==
  /\ sworker.at = "search"
  /\ \E g \in sworker.rest :
       \/ /\ Members[g] # {}
          /\ sworker' = [at |-> "write", rest |-> sworker.rest \ {g}, group |-> g,
                         todo |-> Members[g],
                         found |-> [a \in Members[g] |-> OpenIssuesOf(a)]]
          /\ UNCHANGED <<issue, inbox, events, dups, faults>>
       \/ /\ sworker' = NextGroup(sworker.rest \ {g})
          /\ \/ Members[g] = {} /\ UNCHANGED faults
             \/ faults < MaxFaults /\ faults' = faults + 1
          /\ UNCHANGED <<issue, inbox, events, dups>>
  /\ OnlyWorld /\ UNCHANGED duty

\* Mutated form of SyncAssignee: it sets the counter and leaves the rows alone.
SyncCountOnly(a) ==
  LET s == <<sworker.group, a>> IN
  /\ sworker.at = "write"
  /\ a \in sworker.todo
  /\ load' = [load EXCEPT ![s] = Cardinality(sworker.found[a])]
  /\ sworker' = IF sworker.todo = {a} THEN NextGroup(sworker.rest)
                ELSE [sworker EXCEPT !.todo = @ \ {a}]
  /\ UNCHANGED <<owner, shadow, debt, dbFaults>>
  /\ OnlyLedger /\ UNCHANGED duty

\* A failed transaction leaves its assignee for the next pass.
SyncAssignee(a) ==
  /\ sworker.at = "write"
  /\ a \in sworker.todo
  /\ Write(SyncAssigneeIssues(<<sworker.group, a>>, sworker.found[a], 0), ledgerVars)
  /\ sworker' = IF sworker.todo = {a} THEN NextGroup(sworker.rest)
                ELSE [sworker EXCEPT !.todo = @ \ {a}]
  /\ OnlyLedger /\ UNCHANGED duty

SyncWorkerStep == StartPass \/ SearchGroup \/ \E a \in Assignees : SyncAssignee(a)

SyncWorkerLost == sworker' = SIdle

-----------------------------------------------------------------------------
Searching == [at : {"search"}, rest : SUBSET Groups]

Writing ==
  {w \in [at : {"write"}, rest : SUBSET Groups, group : Groups, todo : SUBSET Assignees,
          found : UNION {[A -> SUBSET Issues] : A \in SUBSET Assignees}] :
     w.todo \subseteq DOMAIN w.found}

SyncWorkerTypeOK == sworker \in {SIdle} \cup Searching \cup Writing
=============================================================================
