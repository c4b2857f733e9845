------------------------------- MODULE Service -------------------------------
(***************************************************************************)
(* What the actors of the service share: the three groups of tables, the   *)
(* configuration, the Tracker, and the choice of an assignee (balancer.go, *)
(* router.go).                                                             *)
(***************************************************************************)
EXTENDS LoadLedger, PendingQueue, DeadLetterTable, TrackerWorld

CONSTANTS
  Members,       \* per group: the assignees it lists
  Limit,         \* per group and assignee: max_load / max_load_per_user
  Route,         \* per issue: the group of the first rule that matches, or NoGroup
  NoGroup,
  LoadBased,     \* the groups with strategy load_based; the others round_robin
  Has404,        \* the issue keys that contain the digits 404
  MaxConfigs,    \* most shift changes and config reloads (bound)
  MaxDbFaults    \* most repository writes that fail (bound)

ASSUME ServiceAssumption ==
  /\ Members \in [Groups -> SUBSET Assignees]
  /\ Limit \in [Slots -> Nat]
  /\ Route \in [Issues -> Groups \cup {NoGroup}]
  /\ NoGroup \notin Groups
  /\ LoadBased \subseteq Groups
  /\ Has404 \subseteq Issues
  /\ DlqItems = Issues \X Slots
  /\ MaxConfigs \in Nat /\ MaxDbFaults \in Nat

VARIABLES
  groups,        \* the groups of the configuration in force
  onShift,       \* the slots whose schedule says the assignee works now
  configs,       \* number of shift changes and reloads so far
  dbFaults,      \* number of failed repository writes so far
  duty           \* ghost: tickets the service has promised to assign

confVars == <<groups, onShift, configs>>
serviceVars ==
  <<ledgerVars, pendingVars, dlqVars, worldVars, confVars, dbFaults, duty>>

MemberSlots == {s \in Slots : s[2] \in Members[s[1]]}

ServiceInit ==
  /\ LedgerInit /\ PendingInit /\ DlqInit /\ WorldInit
  /\ groups = Groups
  /\ onShift \in SUBSET MemberSlots
  /\ configs = 0
  /\ dbFaults = 0
  /\ duty = {}

-----------------------------------------------------------------------------
\* A shift begins or ends (config.go:473).
ShiftChanges ==
  /\ configs < MaxConfigs
  /\ configs' = configs + 1
  /\ \E s \in MemberSlots : onShift' = (onShift \ {s}) \cup ({s} \ onShift)
  /\ UNCHANGED <<groups, ledgerVars, pendingVars, dlqVars, worldVars, dbFaults, duty>>

\* A hot reload installs a configuration with other groups.
ConfigReloads ==
  /\ configs < MaxConfigs
  /\ configs' = configs + 1
  /\ \E g \in Groups : groups' = (groups \ {g}) \cup ({g} \ groups)
  /\ UNCHANGED <<onShift, ledgerVars, pendingVars, dlqVars, worldVars, dbFaults, duty>>

-----------------------------------------------------------------------------
\* Members of a group on shift and below their limit, as the tables say now.
Candidates(g) ==
  {a \in Members[g] : <<g, a>> \in onShift /\ load[<<g, a>>] < Limit[<<g, a>>]}

\* The candidate a group's strategy may select.  load_based takes a least loaded
\* one; ties, and the order of round_robin, go by last_assigned_at, which has a
\* resolution of one second and is left open here.
PickAssignee(g) ==
  {a \in Candidates(g) :
     g \in LoadBased => \A b \in Candidates(g) : load[<<g, a>>] <= load[<<g, b>>]}

\* The group a manual assignment is booked on: the routing rule's, else one that
\* lists the assignee; a reassignment falls back to any group (map order).
BookingGroups(i, a, fallback) ==
  LET listing == {g \in groups : a \in Members[g]} IN
  IF Route[i] \in groups THEN {Route[i]}
  ELSE IF listing # {} THEN listing
  ELSE fallback

\* A repository write: done, or failed and rolled back with the error logged.
Write(done, table) ==
  \/ done /\ UNCHANGED dbFaults
  \/ /\ dbFaults < MaxDbFaults
     /\ dbFaults' = dbFaults + 1
     /\ UNCHANGED table

\* A ticket in a queue is owed an assignee, unless it got one meanwhile.
TakeOn(i) ==
  duty' = IF dbFaults' = dbFaults /\ issue[i].who = NoOne THEN duty \cup {i} ELSE duty

\* A repository read that fails.
ReadFails ==
  /\ dbFaults < MaxDbFaults
  /\ dbFaults' = dbFaults + 1
  /\ UNCHANGED <<ledgerVars, pendingVars, dlqVars, worldVars, confVars, duty>>

\* Which tables a step leaves alone.
OnlyLedger == UNCHANGED <<pendingVars, dlqVars, worldVars, confVars>>
OnlyPending == UNCHANGED <<ledgerVars, dlqVars, worldVars, confVars>>
OnlyDlq == UNCHANGED <<ledgerVars, pendingVars, worldVars, confVars>>
OnlyWorld == UNCHANGED <<ledgerVars, pendingVars, dlqVars, confVars, dbFaults>>

HasDlqRow(i) == \E n \in RowIds : dlqStatus[n] = "pending" /\ dlqItem[n][1] = i

ServiceTypeOK ==
  /\ LedgerTypeOK /\ PendingTypeOK /\ DlqTypeOK /\ WorldTypeOK
  /\ groups \in SUBSET Groups
  /\ onShift \in SUBSET MemberSlots
  /\ configs \in 0..MaxConfigs
  /\ dbFaults \in 0..MaxDbFaults
  /\ duty \in SUBSET Issues
=============================================================================
