----------------------------- MODULE Balancing ------------------------------
(***************************************************************************)
(* Whose turn it is: internal/service/balancer.go over the columns         *)
(* current_load and last_assigned_at of one group.  A dispatcher is a      *)
(* webhook handler or the pending worker: it picks a member, spends its    *)
(* time in the Tracker, and only then books the ticket, so that picks made *)
(* on the same figures may be in flight together.  A pick the Tracker      *)
(* refused waits in the dead letter queue and is booked by the retry       *)
(* worker; people give tickets to members without any pick.                *)
(* last_assigned_at is CURRENT_TIMESTAMP, which counts whole seconds.      *)
(***************************************************************************)
EXTENDS Integers, FiniteSets

CONSTANTS
  Members,      \* the group's members, numbered in the order of their logins
  Dispatchers,  \* handlers and workers that assign tickets
  MaxLoad,      \* max_load of a member
  MaxDeferred,  \* rows of the dead letter queue that name one member (bound)
  MaxCount,     \* current_load that people and the sync can bring about (bound)
  MaxTime,      \* last second of the clock (bound)
  Nobody        \* a dispatcher without a pick

Never == -1     \* last_assigned_at of a member without a row (nil)
Strategies == {"round_robin", "load_based"}

ASSUME BalancingAssumption ==
  /\ Members \subseteq Int
  /\ IsFiniteSet(Members) /\ IsFiniteSet(Dispatchers)
  /\ MaxLoad \in Nat /\ MaxDeferred \in Nat /\ MaxCount \in Nat /\ MaxTime \in Nat
  /\ Nobody \notin Members

VARIABLES
  strategy,  \* GroupConfig.Strategy
  load,      \* current_load
  last,      \* last_assigned_at
  working,   \* members IsAssigneeWorking holds of
  clock,     \* the database's clock, in seconds
  pick,      \* the member a dispatcher is about to give a ticket, or Nobody
  owed,      \* rows of the dead letter queue that name a member and are not booked
  passed,    \* ghost: booked picks of b that passed over c, see PassesOver
  over       \* ghost: booked picks of m since m reached the limit

balancingVars == <<strategy, load, last, working, clock, pick, owed, passed, over>>

-----------------------------------------------------------------------------
(* selectCandidate *)

\* Mutated form of Candidates: the limit is not compared.
CandidatesUnlimited == working

Candidates == {m \in working : load[m] < MaxLoad}

\* Mutated form of Older: "not younger" instead of "older".
OlderOrSame(t1, t2) == t1 = Never \/ (t2 # Never /\ t1 <= t2)

\* isOldestAssignment: nil is older than any time.
Older(t1, t2) ==
  \/ t1 = Never /\ t2 # Never
  \/ t1 # Never /\ t2 # Never /\ t1 < t2

RoundRobinLess(a, b) ==
  \/ last[a] # last[b] /\ Older(last[a], last[b])
  \/ last[a] = last[b] /\ load[a] < load[b]
  \/ last[a] = last[b] /\ load[a] = load[b] /\ a < b

LoadBasedLess(a, b) ==
  \/ load[a] < load[b]
  \/ load[a] = load[b] /\ Older(last[a], last[b])

Less(a, b) ==
  \/ strategy = "round_robin" /\ RoundRobinLess(a, b)
  \/ strategy = "load_based" /\ LoadBasedLess(a, b)

\* The head of the sorted candidates; sort.Slice leaves the order of equals open.
Heads(C) == {a \in C : \A b \in C : ~Less(b, a)}

-----------------------------------------------------------------------------
(* The ghosts *)

\* A booking of b passes over c if it was c's turn: in round robin b is booked
\* at a later second than c was last, in load_based b already has more.
PassesOver(b, c) ==
  \/ strategy = "round_robin" /\ clock > last[c]
  \/ strategy = "load_based" /\ load[b] > load[c]

\* c stays in the running, unbooked, and behind nobody it was not behind.
StillWaiting(b, c) ==
  /\ c \in Candidates' /\ last'[c] = last[c]
  /\ strategy = "load_based" => load'[b] > load'[c]

CountPassed(booked) ==
  passed' = [b \in Members |-> [c \in Members |->
    IF ~StillWaiting(b, c) THEN 0
    ELSE IF b = booked /\ b # c /\ PassesOver(b, c) THEN passed[b][c] + 1
    ELSE passed[b][c]]]

CountOver(booked) ==
  over' = [m \in Members |->
    IF load'[m] < MaxLoad THEN 0
    ELSE IF m = booked /\ load[m] >= MaxLoad THEN over[m] + 1
    ELSE over[m]]

\* booked is the member whose pick is booked, Nobody when there is none.
Count(booked) == CountPassed(booked) /\ CountOver(booked)

-----------------------------------------------------------------------------
BalancingInit ==
  /\ strategy \in Strategies
  /\ load = [m \in Members |-> 0]
  /\ last = [m \in Members |-> Never]
  /\ working \in SUBSET Members
  /\ clock = 0
  /\ pick = [d \in Dispatchers |-> Nobody]
  /\ owed = [m \in Members |-> 0]
  /\ passed = [b \in Members |-> [c \in Members |-> 0]]
  /\ over = [m \in Members |-> 0]

\* PickAssignee; without candidates it fails and nothing changes.
PickAssignee(d) ==
  /\ pick[d] = Nobody
  /\ \E m \in Heads(Candidates) : pick' = [pick EXCEPT ![d] = m]
  /\ UNCHANGED <<strategy, load, last, working, clock, owed, passed, over>>

\* Mutated form of Book: the time of the assignment is not written.
BookUntimed(d) ==
  /\ pick[d] # Nobody
  /\ load' = [load EXCEPT ![pick[d]] = @ + 1]
  /\ pick' = [pick EXCEPT ![d] = Nobody]
  /\ UNCHANGED <<strategy, last, working, clock, owed>>
  /\ Count(pick[d])

\* The Tracker took the assignment; IncrementLoadForIssue books it.
Book(d) ==
  /\ pick[d] # Nobody
  /\ load' = [load EXCEPT ![pick[d]] = @ + 1]
  /\ last' = [last EXCEPT ![pick[d]] = clock]
  /\ pick' = [pick EXCEPT ![d] = Nobody]
  /\ UNCHANGED <<strategy, working, clock, owed>>
  /\ Count(pick[d])

\* The Tracker refused, and EnqueueDLQ keeps the member for the retries: after a
\* 5xx in a webhook, after most errors in the pending worker.
Defer(d) ==
  /\ pick[d] # Nobody /\ owed[pick[d]] < MaxDeferred
  /\ owed' = [owed EXCEPT ![pick[d]] = @ + 1]
  /\ pick' = [pick EXCEPT ![d] = Nobody]
  /\ UNCHANGED <<strategy, load, last, working, clock, passed, over>>

\* The Tracker refused for another reason, EnqueueDLQ failed, the ticket was
\* booked for this member already, or the process died.
Drop(d) ==
  /\ pick[d] # Nobody
  /\ pick' = [pick EXCEPT ![d] = Nobody]
  /\ UNCHANGED <<strategy, load, last, working, clock, owed, passed, over>>

\* retryItem: the Tracker takes the assignment of a row, which is booked for the
\* member named in it, whatever has become of the shift and of the load.
RetryBooks(m) ==
  /\ owed[m] > 0
  /\ load' = [load EXCEPT ![m] = @ + 1]
  /\ last' = [last EXCEPT ![m] = clock]
  /\ owed' = [owed EXCEPT ![m] = @ - 1]
  /\ UNCHANGED <<strategy, working, clock, pick>>
  /\ Count(m)

\* The retries of a row are used up, or its ticket is the member's already.
RetryEnds(m) ==
  /\ owed[m] > 0
  /\ owed' = [owed EXCEPT ![m] = @ - 1]
  /\ UNCHANGED <<strategy, load, last, working, clock, pick, passed, over>>

\* A booking no pick stands behind: a webhook tells that a person gave m a
\* ticket, or a row booked before is retried after its ticket has moved on.
BookUnpicked(m) ==
  /\ load[m] < MaxCount
  /\ load' = [load EXCEPT ![m] = @ + 1]
  /\ last' = [last EXCEPT ![m] = clock]
  /\ UNCHANGED <<strategy, working, clock, pick, owed>>
  /\ Count(Nobody)

\* Tickets are closed or move to others, or SyncAssigneeIssues sets the counter
\* to what the Tracker has; none of it touches last_assigned_at.
CorrectLoad(m, n) ==
  /\ n # load[m]
  /\ load' = [load EXCEPT ![m] = n]
  /\ UNCHANGED <<strategy, last, working, clock, pick, owed>>
  /\ Count(Nobody)

ShiftChange(m) ==
  /\ working' = IF m \in working THEN working \ {m} ELSE working \cup {m}
  /\ UNCHANGED <<strategy, load, last, clock, pick, owed>>
  /\ Count(Nobody)

Second ==
  /\ clock < MaxTime
  /\ clock' = clock + 1
  /\ UNCHANGED <<strategy, load, last, working, pick, owed, passed, over>>

BalancingNext ==
  \/ \E d \in Dispatchers : PickAssignee(d) \/ Book(d) \/ Defer(d) \/ Drop(d)
  \/ \E m \in Members : RetryBooks(m) \/ RetryEnds(m) \/ BookUnpicked(m) \/ ShiftChange(m)
  \/ \E m \in Members, n \in 0..MaxCount : CorrectLoad(m, n)
  \/ Second

BalancingSpec == BalancingInit /\ [][BalancingNext]_balancingVars

-----------------------------------------------------------------------------
(* Properties *)

BalancingTypeOK ==
  /\ strategy \in Strategies
  /\ load \in [Members -> Nat]
  /\ last \in [Members -> {Never} \cup Nat]
  /\ working \in SUBSET Members
  /\ clock \in 0..MaxTime
  /\ pick \in [Dispatchers -> Members \cup {Nobody}]
  /\ owed \in [Members -> 0..MaxDeferred]
  /\ passed \in [Members -> [Members -> Nat]]
  /\ over \in [Members -> Nat]

\* sort.Slice needs a strict weak order to put a least element first
\* (balancer.go:116, 129), with members never assigned and members of the same
\* second among them: whoever comes before another does not come after him, and
\* a third member stands behind the first or before the second (hence also the
\* transitivity).  round_robin leaves nobody equal to another.
OrderSound ==
  \A a, b \in Members :
    /\ Less(a, b) => ~Less(b, a) /\ \A c \in Members : Less(a, c) \/ Less(c, b)
    /\ strategy = "round_robin" /\ a # b => Less(a, b) \/ Less(b, a)

\* The picks of one member that can be outstanding: one in flight at each
\* dispatcher, and the rows that name the member.
Outstanding == Cardinality(Dispatchers) + MaxDeferred

\* A member who is on shift and below the limit is passed over in favour of the
\* same colleague by outstanding picks alone, in flight or deferred when it was
\* the colleague's turn, never by a pick made since (balancer.go:53 reads,
\* repository.go:577 and dlq_processor.go:166 book).  Bookings without a pick do
\* not count: they are people's own choice.
BypassBounded ==
  \A b, c \in Members : passed[b][c] <= Outstanding

\* max_load is compared when a member is picked, and the ticket booked after the
\* calls to the Tracker or, after an outage, by the retries (balancer.go:83,
\* assigner.go:478, dlq_processor.go:166).  A member at the limit, whoever
\* brought him there, is booked more of the service's picks, but only those
\* outstanding when he reached it.
OvershootBounded ==
  \A m \in Members : over[m] <= Outstanding

=============================================================================
