---------------------------- MODULE TrackerWorld ----------------------------
(***************************************************************************)
(* The Yandex Tracker and its users, as the service sees them: issues with *)
(* an assignee, the webhooks their changes cause, and the answers to the   *)
(* calls of tracker_client.go.  It is not part of the repository; it is    *)
(* modelled from the payload fields the service reads                      *)
(* (webhook_handler.go) and the calls it makes (tracker_client.go).        *)
(*                                                                         *)
(* Webhooks may arrive in any order, twice, or never.  The service's own   *)
(* updates of an assignee are echoed by webhooks too.  An installation     *)
(* whose configuration names the service's robot drops those before        *)
(* anything else (assigner.go:188-195), so there they are left out; in the *)
(* others (RobotKnown = FALSE) they look like the changes of a human.      *)
(***************************************************************************)
EXTENDS Domain

CONSTANTS
  NoOne,       \* no assignee
  RobotKnown,  \* the configuration names the robot the service acts as
  MaxEvents,   \* most things the users do (bound)
  MaxDups,     \* most webhooks that arrive a second time (bound)
  MaxFaults    \* most Tracker calls that fail and requests that break off (bound)

ASSUME WorldAssumption ==
  /\ NoOne \notin Assignees
  /\ RobotKnown \in BOOLEAN
  /\ MaxEvents \in Nat /\ MaxDups \in Nat /\ MaxFaults \in Nat

VARIABLES
  issue,       \* per key: [st, who], st one of "none", "open", "closed"
  inbox,       \* webhooks on their way
  events,      \* number of user events so far
  dups,        \* number of webhooks duplicated so far
  faults       \* number of failed Tracker calls and broken requests so far

worldVars == <<issue, inbox, events, dups, faults>>

People == Assignees \cup {NoOne}

\* What the service tells apart in a payload: "remove" when shouldRemoveAssignee
\* holds, "change" when Changes has an assignee entry, "plain" otherwise.  to is
\* the assignee in the payload (the new one for a change), from the old one.  n is
\* the user event it reports, or 0 for an echo.
Webhook ==
  [n : 0..MaxEvents, key : Issues, kind : {"plain", "change", "remove"},
   from : People, to : People]

WorldInit ==
  /\ issue = [i \in Issues |-> [st |-> "none", who |-> NoOne]]
  /\ inbox = {}
  /\ events = 0
  /\ dups = 0
  /\ faults = 0

-----------------------------------------------------------------------------
\* A user event updates the issue and sends a webhook with the fields as they
\* are at that moment.
UserEvent(i, after, kind) ==
  /\ events < MaxEvents
  /\ events' = events + 1
  /\ issue' = [issue EXCEPT ![i] = after]
  /\ inbox' = inbox \cup
       {[n |-> events + 1, key |-> i, kind |-> kind, from |-> issue[i].who, to |-> after.who]}
  /\ UNCHANGED <<dups, faults>>

UserCreates(i, a) ==
  /\ issue[i].st = "none"
  /\ UserEvent(i, [st |-> "open", who |-> a], "plain")

\* Manual assignment, reassignment or (a = NoOne) unassignment.
UserAssigns(i, a) ==
  /\ issue[i].st = "open"
  /\ issue[i].who # a
  /\ UserEvent(i, [st |-> "open", who |-> a], "change")

UserCloses(i) ==
  /\ issue[i].st = "open"
  /\ UserEvent(i, [st |-> "closed", who |-> issue[i].who], "remove")

\* A comment or an edit of an open issue, or the reopening of a closed one.
UserEdits(i) ==
  /\ issue[i].st # "none"
  /\ UserEvent(i, [st |-> "open", who |-> issue[i].who], "plain")

UsersNext ==
  \E i \in Issues :
    \/ \E a \in People : UserCreates(i, a) \/ UserAssigns(i, a)
    \/ UserCloses(i)
    \/ UserEdits(i)

\* The service takes a webhook; it may come again.
TakeWebhook(m) ==
  /\ m \in inbox
  /\ \/ inbox' = inbox \ {m} /\ UNCHANGED dups
     \/ dups < MaxDups /\ dups' = dups + 1 /\ UNCHANGED inbox

-----------------------------------------------------------------------------
\* What a call of tracker_client.go can come to, its own retries included: done,
\* or the last error.  "404" stands for a 404, "400" for every other 4xx but 429.
\* The change may have been made whatever the error says, by this attempt (a 5xx, a
\* lost answer) or by an earlier one of the same call (TrackerCall is that promise).
Errors == {"5xx", "net", "429", "404", "400"}
Outcomes == Errors \cup {"ok"}

\* The webhook of an update by the service that changed something; one of a closed
\* issue names the status as well.
Echo(i, a) ==
  [n |-> 0, key |-> i, kind |-> IF issue[i].st = "closed" THEN "remove" ELSE "change",
   from |-> issue[i].who, to |-> a]

SetAssignee(i, a) ==
  /\ issue' = [issue EXCEPT ![i].who = a]
  /\ inbox' = IF RobotKnown \/ issue[i].who = a THEN inbox ELSE inbox \cup {Echo(i, a)}

MayHaveSet(i, a) == SetAssignee(i, a) \/ UNCHANGED <<issue, inbox>>

AssigneeCall(i, a, outcome) ==
  /\ \/ outcome = "ok" /\ SetAssignee(i, a) /\ UNCHANGED faults
     \/ /\ outcome \in Errors
        /\ faults < MaxFaults
        /\ faults' = faults + 1
        /\ MayHaveSet(i, a)
  /\ UNCHANGED <<events, dups>>

\* The TQL search of state_sync.go: open issues of an assignee.
OpenIssuesOf(a) == {i \in Issues : issue[i] = [st |-> "open", who |-> a]}

WorldTypeOK ==
  /\ issue \in [Issues -> [st : {"none", "open", "closed"}, who : People]]
  /\ inbox \in SUBSET Webhook
  /\ events \in 0..MaxEvents
  /\ dups \in 0..MaxDups
  /\ faults \in 0..MaxFaults
=============================================================================
