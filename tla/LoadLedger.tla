----------------------------- MODULE LoadLedger -----------------------------
(***************************************************************************)
(* The load accounting of internal/storage/repository.go: the tables       *)
(* assignee_load (one counter per group and assignee) and                  *)
(* issue_assignments (one row per tracked issue).  SQLite is opened with   *)
(* one connection (sqlite.go:33) and every operation is one statement or   *)
(* one transaction, so each operation is one atomic action; a transaction  *)
(* that fails is rolled back and is a stuttering step.                     *)
(*                                                                         *)
(* The module is used twice: alone, with the most general client (Spec),   *)
(* and through the actors of the service, whose steps conjoin the actions  *)
(* below with their own.                                                   *)
(***************************************************************************)
EXTENDS Domain

CONSTANTS
  NoRow,         \* an issue without a row in issue_assignments
  MaxPageDup     \* most issue keys a paged search may return twice (bound)

ASSUME LedgerAssumption ==
  /\ MaxPageDup \in Nat
  /\ NoRow \notin Slots

VARIABLES
  load,      \* assignee_load.current_load; a missing row counts as 0
  owner,     \* issue_assignments: the <<group, assignee>> of an issue, or NoRow
  shadow,    \* ghost: keys the last SyncAssigneeIssues counted but did not own
  debt       \* ghost: fallback decrements not yet repaid, since the last sync

ledgerVars == <<load, owner, shadow, debt>>

\* The issues tracked for a group and assignee.
Tracked(s) == {i \in Issues : owner[i] = s}

LedgerInit ==
  /\ load = [s \in Slots |-> 0]
  /\ owner = [i \in Issues |-> NoRow]
  /\ shadow = [s \in Slots |-> 0]
  /\ debt = [s \in Slots |-> 0]

-----------------------------------------------------------------------------
\* current_load = MAX(0, current_load - 1)
FloorDec(n) == IF n > 0 THEN n - 1 ELSE 0

\* A decrement that the floor swallows repays one unit of debt.
Repaid(s) == IF load[s] > 0 THEN debt[s] ELSE debt[s] - 1

\* Move the row of issue i to slot s: the old slot is decremented, the new one
\* incremented, inside one transaction.
MoveRow(s, i) ==
  LET old == owner[i] IN
  /\ owner' = [owner EXCEPT ![i] = s]
  /\ load' = [load EXCEPT ![old] = FloorDec(@), ![s] = @ + 1]
  /\ debt' = [debt EXCEPT ![old] = Repaid(old)]
  /\ UNCHANGED shadow

InsertRow(s, i) ==
  /\ owner' = [owner EXCEPT ![i] = s]
  /\ load' = [load EXCEPT ![s] = @ + 1]
  /\ UNCHANGED <<shadow, debt>>

\* Mutated forms of IncrementLoadForIssue: a repeated call counts again; a call
\* for another group of the same assignee moves the row.
IncrementAgain(s, i) == IF owner[i] \in {NoRow, s} THEN InsertRow(s, i) ELSE MoveRow(s, i)

IncrementPerSlot(s, i) ==
  \/ owner[i] = s /\ UNCHANGED ledgerVars
  \/ owner[i] \notin {NoRow, s} /\ MoveRow(s, i)
  \/ owner[i] = NoRow /\ InsertRow(s, i)

\* Idempotent per issue and assignee: a row of the same assignee, even one of
\* another group, makes the call a no-op.
IncrementLoadForIssue(s, i) ==
  \/ /\ owner[i] # NoRow
     /\ owner[i][2] = s[2]
     /\ UNCHANGED ledgerVars
  \/ /\ owner[i] # NoRow
     /\ owner[i][2] # s[2]
     /\ MoveRow(s, i)
  \/ /\ owner[i] = NoRow
     /\ InsertRow(s, i)

DecrementLoadForIssue(i) ==
  \/ /\ owner[i] = NoRow
     /\ UNCHANGED ledgerVars
  \/ /\ owner[i] # NoRow
     /\ LET old == owner[i] IN
        /\ owner' = [owner EXCEPT ![i] = NoRow]
        /\ load' = [load EXCEPT ![old] = FloorDec(@)]
        /\ debt' = [debt EXCEPT ![old] = Repaid(old)]
     /\ UNCHANGED shadow

\* Takes one unit from the slot of the assignee with the largest load,
\* whichever group it is in (a tie is broken by the storage engine).
DecrementAssigneeGlobalLoad(a) ==
  LET own == {g \in Groups : load[<<g, a>>] > 0} IN
  \/ /\ own = {}
     /\ UNCHANGED ledgerVars
  \/ \E g \in own :
       /\ \A h \in own : load[<<h, a>>] <= load[<<g, a>>]
       /\ load' = [load EXCEPT ![<<g, a>>] = @ - 1]
       /\ debt' = [debt EXCEPT ![<<g, a>>] = @ + 1]
       /\ UNCHANGED <<owner, shadow>>

\* Mutated form of SyncAssigneeIssues: the rows are replaced, the counter is not.
SyncRowsOnly(s, keys, dup) ==
  /\ owner' = [i \in Issues |->
                 IF i \in keys /\ owner[i] = NoRow THEN s
                 ELSE IF owner[i] = s /\ i \notin keys THEN NoRow ELSE owner[i]]
  /\ UNCHANGED <<load, shadow, debt>>

\* keys: the distinct issue keys a search found for the assignee; dup: how many
\* keys it returned a second time.  Rows of the slot outside keys are deleted,
\* keys nobody tracks are inserted (INSERT OR IGNORE skips those tracked for
\* another slot), and the counter becomes the length of the returned list.
SyncAssigneeIssues(s, keys, dup) ==
  LET foreign == {i \in keys : owner[i] \notin {NoRow, s}} IN
  /\ owner' = [i \in Issues |->
                 IF i \in keys \ foreign THEN s
                 ELSE IF owner[i] = s THEN NoRow ELSE owner[i]]
  /\ load' = [load EXCEPT ![s] = Cardinality(keys) + dup]
  /\ shadow' = [shadow EXCEPT ![s] = Cardinality(foreign) + dup]
  /\ debt' = [debt EXCEPT ![s] = 0]

-----------------------------------------------------------------------------
\* The most general client: any operation, any argument, any order.
LedgerNext ==
  \/ \E s \in Slots, i \in Issues : IncrementLoadForIssue(s, i)
  \/ \E i \in Issues : DecrementLoadForIssue(i)
  \/ \E a \in Assignees : DecrementAssigneeGlobalLoad(a)
  \/ \E s \in Slots, keys \in SUBSET Issues, dup \in 0..MaxPageDup :
       SyncAssigneeIssues(s, keys, dup)

LedgerSpec == LedgerInit /\ [][LedgerNext]_ledgerVars

-----------------------------------------------------------------------------
LedgerTypeOK ==
  /\ load \in [Slots -> Nat]
  /\ owner \in [Issues -> Slots \cup {NoRow}]
  /\ shadow \in [Slots -> Nat]
  /\ debt \in [Slots -> Nat]

\* Conservation: a counter is the number of issues tracked for its slot, plus
\* the foreign or repeated keys its last sync counted, minus the fallback
\* decrements since then that no floor repaid.  It ties the two tables, which
\* four different operations of repository.go update, to each other.  As neither
\* ghost is ever negative, a counter below the tracked work of its slot (which
\* the limit check at balancer.go:83 would not see) is due to such a decrement.
LoadAccounted ==
  \A s \in Slots : load[s] = Cardinality(Tracked(s)) + shadow[s] - debt[s]

\* "Repeated assignment calls never cause load counter to exceed real active
\* tickets" (production_bugs_test.go:128): outside a sync of that slot a
\* counter grows only together with the set of issues tracked for it.
LoadGrowsOnlyWithTracking ==
  [][\A s \in Slots :
       load'[s] > load[s] =>
         \/ \E keys \in SUBSET Issues, dup \in 0..MaxPageDup :
              SyncAssigneeIssues(s, keys, dup)
         \/ /\ load'[s] = load[s] + 1
            /\ \E i \in Issues : owner[i] # s /\ owner'[i] = s]_ledgerVars

\* A tracked issue changes hands only to another assignee: no operation moves a
\* row between two groups of one assignee (repository.go:537), so the group that
\* was charged for an issue is the group that is credited when it is closed.
GroupSticky ==
  [][\A i \in Issues :
       (owner[i] # NoRow /\ owner'[i] # NoRow /\ owner[i] # owner'[i])
         => owner[i][2] # owner'[i][2]]_ledgerVars
=============================================================================
