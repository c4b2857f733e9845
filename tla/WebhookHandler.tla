--------------------------- MODULE WebhookHandler ---------------------------
(***************************************************************************)
(* AssignerService.ProcessWebhook and AssignOrEnqueue (assigner.go): HTTP  *)
(* requests handled concurrently, each a sequence of repository and        *)
(* Tracker calls.  A handler is at the label of the call it makes next.    *)
(***************************************************************************)
EXTENDS Service

CONSTANTS
  Handlers,    \* the HTTP requests served at the same time (bound)
  KnownAs      \* per person: what resolveCanonicalAssignee may make of a payload's
               \* words for them - the configured login, or, for somebody or some
               \* spelling no group lists, those words themselves

ASSUME HandlerAssumption ==
  /\ KnownAs \in [People -> (SUBSET People) \ {{}}]
  /\ \A p \in People : (NoOne \in KnownAs[p]) <=> (p = NoOne)
  /\ KnownAs[NoOne] = {NoOne}

VARIABLES
  handler,     \* per request: [at, m, slot, known, err]
  inFlight,    \* assigner.go:43, the keys being handled
  recent       \* assigner.go:44, the keys assigned less than 5 s ago

handlerVars == <<handler, inFlight, recent>>

Idle == [at |-> "idle"]

At(h, label) == handler[h].at = label
Key(h) == handler[h].m.key

Goto(h, label) == handler' = [handler EXCEPT ![h].at = label]

\* The deferred unlock of assigner.go:231-235: every return runs it.
Return(h) ==
  /\ handler' = [handler EXCEPT ![h] = Idle]
  /\ inFlight' = inFlight \ {Key(h)}
  /\ UNCHANGED recent

StillInFlight == UNCHANGED <<inFlight, recent>>

HandlerInit ==
  /\ handler = [h \in Handlers |-> Idle]
  /\ inFlight = {}
  /\ recent = {}

-----------------------------------------------------------------------------
\* The entry of time.Now() in recentlyAssigned is older than 5 seconds.
DedupExpires(i) ==
  /\ i \in recent
  /\ recent' = recent \ {i}
  /\ UNCHANGED <<handler, inFlight, serviceVars>>

\* Mutated form of Dropped: requests in flight are not looked at.
DroppedRecentOnly(m) == m.key \in recent /\ m.kind = "plain"

\* Dropped with 200: the key is in flight, or it was assigned just now and the
\* event neither removes nor changes an assignee.
Dropped(m) ==
  \/ m.key \in inFlight
  \/ m.key \in recent /\ m.kind = "plain"

DropWebhook(m) ==
  /\ Dropped(m)
  /\ TakeWebhook(m)
  /\ UNCHANGED <<issue, events, faults, handlerVars, ledgerVars, pendingVars,
                 dlqVars, confVars, dbFaults, duty>>

\* The first call of each branch of ProcessWebhook.
Branch(m) ==
  CASE m.kind = "remove" -> "release"
    [] m.kind = "change" /\ m.to = NoOne -> "unassign"
    [] m.kind = "change" /\ m.to # NoOne -> "read"
    [] m.kind = "plain" /\ m.to # NoOne -> "dequeue"
    [] OTHER -> "check"

\* The people of a payload as the service names them.
Resolved(m, from, to) == [m EXCEPT !.from = from, !.to = to]

ReceiveWebhook(h, m) ==
  /\ At(h, "idle")
  /\ ~Dropped(m)
  /\ TakeWebhook(m)
  /\ inFlight' = inFlight \cup {m.key}
  /\ \E from \in KnownAs[m.from], to \in KnownAs[m.to] :
       handler' = [handler EXCEPT ![h] =
                     [at |-> Branch(m), m |-> Resolved(m, from, to), slot |-> NoRow,
                      known |-> FALSE, err |-> "ok"]]
  \* a human took the ticket over, or it is closed or paused
  /\ duty' = IF Branch(m) = "check" THEN duty ELSE duty \ {m.key}
  /\ UNCHANGED <<issue, events, faults, recent, ledgerVars, pendingVars, dlqVars,
                 confVars, dbFaults>>

-----------------------------------------------------------------------------
\* 1. Closure or pause.  A tracked issue gives its unit back; for an untracked
\* one the payload's assignee pays.
Release(h) ==
  /\ At(h, "release")
  /\ Write(DecrementLoadForIssue(Key(h)), ledgerVars)
  /\ \/ owner[Key(h)] = NoRow /\ dbFaults' = dbFaults /\ handler[h].m.to # NoOne
        /\ Goto(h, "charge")
     \/ (owner[Key(h)] # NoRow \/ dbFaults' # dbFaults \/ handler[h].m.to = NoOne)
        /\ Goto(h, "clear")
  /\ StillInFlight /\ OnlyLedger /\ UNCHANGED duty

Charge(h) ==
  /\ At(h, "charge")
  /\ Write(DecrementAssigneeGlobalLoad(handler[h].m.to), ledgerVars)
  /\ Goto(h, "clear")
  /\ StillInFlight /\ OnlyLedger /\ UNCHANGED duty

\* The error of ClearAssignee is logged and forgotten.
Clear(h) ==
  /\ At(h, "clear")
  /\ \E outcome \in Outcomes : AssigneeCall(Key(h), NoOne, outcome)
  /\ Goto(h, "leave")
  /\ StillInFlight /\ OnlyWorld /\ UNCHANGED duty

\* RemovePendingByIssueKey, the last call of several branches.
Leave(h) ==
  /\ At(h, "leave")
  /\ Write(RemovePendingByIssueKey(Key(h)), pendingVars)
  /\ Return(h)
  /\ OnlyPending /\ UNCHANGED duty

-----------------------------------------------------------------------------
\* 2. A manual change of the assignee; first, the assignee was removed.
Unassign(h) ==
  /\ At(h, "unassign")
  /\ Write(DecrementLoadForIssue(Key(h)), ledgerVars)
  /\ \/ owner[Key(h)] = NoRow /\ dbFaults' = dbFaults /\ handler[h].m.from # NoOne
        /\ Goto(h, "refund")
     \/ (owner[Key(h)] # NoRow \/ dbFaults' # dbFaults \/ handler[h].m.from = NoOne)
        /\ Goto(h, "leave")
  /\ StillInFlight /\ OnlyLedger /\ UNCHANGED duty

\* Somebody was assigned: choose the group to book on and read the old row.
ReadAssignment(h) ==
  LET i == Key(h)
      a == handler[h].m.to
  IN
  /\ At(h, "read")
  /\ \/ /\ BookingGroups(i, a, groups) = {}
        /\ Goto(h, "leave")
        /\ UNCHANGED serviceVars
     \/ \E g \in BookingGroups(i, a, groups), known \in BOOLEAN :
          /\ handler' = [handler EXCEPT ![h].at = "book", ![h].slot = <<g, a>>,
                                        ![h].known = known]
          /\ \/ known = (owner[i] # NoRow) /\ UNCHANGED serviceVars
             \/ ~known /\ ReadFails
  /\ StillInFlight

Book(h) ==
  LET m == handler[h].m IN
  /\ At(h, "book")
  /\ Write(IncrementLoadForIssue(handler[h].slot, m.key), ledgerVars)
  /\ Goto(h, IF ~handler[h].known /\ m.from \notin {NoOne, m.to} THEN "refund" ELSE "leave")
  /\ StillInFlight /\ OnlyLedger /\ UNCHANGED duty

\* The previous assignee of an untracked issue pays for it.
Refund(h) ==
  /\ At(h, "refund")
  /\ Write(DecrementAssigneeGlobalLoad(handler[h].m.from), ledgerVars)
  /\ Goto(h, "leave")
  /\ StillInFlight /\ OnlyLedger /\ UNCHANGED duty

-----------------------------------------------------------------------------
\* 3. The ticket arrives with an assignee: adopt it.
Dequeue(h) ==
  LET m == handler[h].m IN
  /\ At(h, "dequeue")
  /\ Write(RemovePendingByIssueKey(m.key), pendingVars)
  /\ \/ BookingGroups(m.key, m.to, {}) = {} /\ Return(h)
     \/ \E g \in BookingGroups(m.key, m.to, {}) :
          /\ handler' = [handler EXCEPT ![h].at = "adopt", ![h].slot = <<g, m.to>>]
          /\ StillInFlight
  /\ OnlyPending /\ UNCHANGED duty

Adopt(h) ==
  /\ At(h, "adopt")
  /\ Write(IncrementLoadForIssue(handler[h].slot, Key(h)), ledgerVars)
  /\ Return(h)
  /\ OnlyLedger /\ UNCHANGED duty

-----------------------------------------------------------------------------
\* 4. Nobody is assigned: unless SQLite tracks it, route, balance and assign.
Check(h) ==
  /\ At(h, "check")
  /\ \/ owner[Key(h)] # NoRow /\ Return(h) /\ UNCHANGED serviceVars
     \/ /\ (owner[Key(h)] = NoRow /\ UNCHANGED serviceVars) \/ ReadFails
        /\ Goto(h, "pick") /\ StillInFlight

\* No rule, an unknown group, a group without members or a failed read of the
\* loads: the ticket is not taken (all but the first with an error).
Pick(h) ==
  LET g == Route[Key(h)] IN
  /\ At(h, "pick")
  /\ \/ /\ g \notin groups \/ Members[g] = {}
        /\ Return(h)
        /\ UNCHANGED serviceVars
     \/ Return(h) /\ ReadFails
     \/ /\ g \in groups /\ Members[g] # {}
        /\ \/ PickAssignee(g) = {} /\ Goto(h, "enqueue")
           \/ \E a \in PickAssignee(g) :
                handler' = [handler EXCEPT ![h].at = "assign", ![h].slot = <<g, a>>]
        /\ StillInFlight /\ UNCHANGED serviceVars

Enqueue(h) ==
  /\ At(h, "enqueue")
  /\ Write(EnqueuePending(Key(h), Route[Key(h)]), pendingVars)
  /\ TakeOn(Key(h))
  /\ Return(h)
  /\ OnlyPending

Assign(h) ==
  /\ At(h, "assign")
  /\ \E outcome \in Outcomes :
       /\ AssigneeCall(Key(h), handler[h].slot[2], outcome)
       /\ handler' = [handler EXCEPT ![h].at = IF outcome = "ok" THEN "record" ELSE "failed",
                                     ![h].err = outcome]
       /\ duty' = IF outcome = "ok" THEN duty \ {Key(h)} ELSE duty
  /\ StillInFlight /\ OnlyWorld

\* A 5xx goes to the dead letter queue; any other error is returned (HTTP 500).
AssignFailed(h) ==
  /\ At(h, "failed")
  /\ \/ /\ handler[h].err = "5xx"
        /\ Write(EnqueueDLQ(<<Key(h), handler[h].slot>>), dlqVars)
        /\ TakeOn(Key(h))
     \/ /\ handler[h].err # "5xx"
        /\ UNCHANGED <<dlqVars, dbFaults, duty>>
  /\ Return(h)
  /\ OnlyDlq

Record(h) ==
  /\ At(h, "record")
  /\ recent' = recent \cup {Key(h)}
  /\ Write(IncrementLoadForIssue(handler[h].slot, Key(h)), ledgerVars)
  /\ Goto(h, "leave")
  /\ OnlyLedger /\ UNCHANGED <<inFlight, duty>>

\* The sender hangs up and the context of its request is cancelled: every call the
\* handler still makes fails at once, and only the deferred unlock has an effect.
\* A Tracker call in flight may have been carried out; one that was answered is
\* remembered as recent.
HangUp(h) ==
  /\ ~At(h, "idle")
  /\ faults < MaxFaults
  /\ faults' = faults + 1
  /\ CASE At(h, "clear") -> MayHaveSet(Key(h), NoOne)
       [] At(h, "assign") -> MayHaveSet(Key(h), handler[h].slot[2])
       [] OTHER -> UNCHANGED <<issue, inbox>>
  /\ handler' = [handler EXCEPT ![h] = Idle]
  /\ inFlight' = inFlight \ {Key(h)}
  /\ recent' = IF At(h, "record") THEN recent \cup {Key(h)} ELSE recent
  /\ OnlyWorld /\ UNCHANGED <<events, dups, duty>>

-----------------------------------------------------------------------------
HandlerStep(h) ==
  \/ Release(h) \/ Charge(h) \/ Clear(h) \/ Leave(h)
  \/ Unassign(h) \/ ReadAssignment(h) \/ Book(h) \/ Refund(h)
  \/ Dequeue(h) \/ Adopt(h)
  \/ Check(h) \/ Pick(h) \/ Enqueue(h) \/ Assign(h) \/ AssignFailed(h) \/ Record(h)

HandlerNext ==
  \/ \E i \in Issues : DedupExpires(i)
  \/ \E m \in inbox : DropWebhook(m) \/ \E h \in Handlers : ReceiveWebhook(h, m)
  \/ \E h \in Handlers : HandlerStep(h) \/ HangUp(h)

\* The process dies: what it held in memory is gone, the tables stay.
HandlersLost ==
  /\ handler' = [h \in Handlers |-> Idle]
  /\ inFlight' = {}
  /\ recent' = {}

-----------------------------------------------------------------------------
\* A request being handled has what its next call needs.
Labels ==
  {"release", "charge", "clear", "leave", "unassign", "read", "book", "refund",
   "dequeue", "adopt", "check", "pick", "enqueue", "assign", "failed", "record"}

Requests ==
  {r \in [at : Labels, m : Webhook, slot : Slots \cup {NoRow}, known : BOOLEAN,
          err : Outcomes] :
     /\ r.at \in {"read", "dequeue", "charge"} => r.m.to # NoOne
     /\ r.at = "refund" => r.m.from # NoOne
     /\ r.at = "enqueue" => Route[r.m.key] \in Groups
     /\ r.at \in {"book", "adopt", "assign", "failed", "record"} => r.slot \in Slots}

HandlerTypeOK ==
  /\ handler \in [Handlers -> {Idle} \cup Requests]
  /\ inFlight \in SUBSET Issues
  /\ recent \in SUBSET Issues
=============================================================================
