---------------------------- MODULE MCSelection -----------------------------
\* The two halves of choosing an assignee on small instances: who is on shift
\* (Schedule) and whose turn it is (Balancing).  They share no state, so one
\* behaviour runs one of them; the first state says which.
EXTENDS Schedule, Balancing, TLC

CONSTANT Nil   \* the value of both Missing and Nobody

VARIABLE part
selectionVars == <<scheduleVars, balancingVars, part>>

\* A day of four units: hours at both ends of the day, in the middle, over
\* midnight, and left out; zones on both sides of UTC; days that are none.
MCGroupSchedules ==
  [zone : {Nil, -1, 3}, days : {{}, {0}, {7}, {1, 3, 8}},
   start : {Nil, 0, 1, 3}, end : {Nil, 0, 2, 3}]

MCOwnSchedules ==
  {Nil} \cup [zone : {Nil, -3}, days : {{}, {8}, {1, 7}}, start : {Nil}, end : {Nil}]
        \cup [zone : {-3}, days : {{1, 7}}, start : {3}, end : {1}]

Date(d) == [dated |-> TRUE, at |-> d]
Instant(t) == [dated |-> FALSE, at |-> t]

MCAbsenceLists ==
  { {},
    {[from |-> Date(2), to |-> Date(4)]},
    {[from |-> Date(1), to |-> Nil]},
    {[from |-> Nil, to |-> Date(1)], [from |-> Date(2), to |-> Date(3)]},
    {[from |-> Instant(5), to |-> Instant(11)], [from |-> Nil, to |-> Nil]} }

MCMembers == 1..3

\* The third member is on leave: people and the sync may touch his figures, the
\* balancer only compares them.  Of the others the first goes off shift and comes
\* back, the queue of dead letters holds one row at most, and few tickets are open.
FewTickets ==
  part = "balancing" =>
    /\ working \cup {1} = {1, 2}
    /\ owed[1] + owed[2] <= 1
    /\ load[1] + load[2] + load[3] <= 4

SelectionSymmetry == Permutations(Dispatchers)

\* The half that does not run waits in one fixed state.
SelectionInit ==
  \/ /\ part = "schedule"
     /\ ScheduleInit
     /\ BalancingInit /\ strategy = "round_robin" /\ working = {}
  \/ /\ part = "balancing"
     /\ BalancingInit
     /\ ScheduleInit /\ own = Nil /\ absences = {}
     /\ group = CHOOSE g \in {Defaulted(s) : s \in GroupSchedules} : TRUE

ScheduleStep == part = "schedule" /\ ScheduleNext /\ UNCHANGED <<balancingVars, part>>
BalancingStep == part = "balancing" /\ BalancingNext /\ UNCHANGED <<scheduleVars, part>>

\* The clock of Schedule is at its bound.
Stopped == part = "schedule" /\ now = Horizon /\ UNCHANGED selectionVars

SelectionNext == ScheduleStep \/ BalancingStep \/ Stopped

SelectionSpec == SelectionInit /\ [][SelectionNext]_selectionVars
=============================================================================
