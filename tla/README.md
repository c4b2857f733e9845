# tracker-assigner: verification project

tracker-assigner receives webhooks of a Yandex Tracker, routes a ticket to a group, picks a
free member of the group and assigns the ticket to them. What is hard about it is that four
kinds of actors (concurrent HTTP requests, the pending worker, the retry worker and the sync
worker) work on the same tickets and the same counters without a common lock, that every one
of them makes a slow remote call between reading and writing, and that the process may die at
any point. This directory models that: the tables as components with proved invariants, the
actors as sequences of calls on them, and their composition with crashes, failing calls and
writes, lost, repeated and reordered webhooks. Beside it stand models of what the actors rely
on: the retries inside a Tracker call, schedules and balancing, the hot reload, and the reporter
of the service's own errors.

## 1. Inventory

| Part (source) | State | Operations | Talks to | What makes it correct |
|---|---|---|---|---|
| Load ledger (`storage/repository.go`) | `assignee_load`, `issue_assignments` | increment / decrement per issue, fallback decrement, sync | all actors | counters and rows account for each other |
| Pending queue (same) | `pending_queue` | enqueue, next, delete by id, delete by key | handlers, pending worker | a ticket waits once, first come first served |
| Dead letter queue (same) | `dead_letter_queue` | enqueue, due rows, update, resolve, cleanup | handlers, pending and retry worker | exactly the promised retries, verdicts are final |
| Webhook handling (`service/assigner.go`) | `inFlight`, `recentlyAssigned` | `ProcessWebhook`, `AssignOrEnqueue` | all tables, router, balancer, Tracker | one handler per issue, no ticket lost |
| Pending worker (`worker/pending_processor.go`) | SLA alert times | `ProcessOnce`, `Trigger` | pending, ledger, DLQ, Tracker | no ticket lost, every ticket served |
| Retry worker (`worker/dlq_processor.go`) | a batch | `ProcessOnce` | DLQ, ledger, Tracker | budget, back-off, every row settles |
| Sync worker (`worker/state_sync.go`) | a search result | `SyncOnce`, `TriggerSync` | ledger, Tracker | counters converge to the Tracker |
| Balancer (`service/balancer.go`) | reads `current_load`, `last_assigned_at` | `PickAssignee` | ledger, schedules | a sound order, nobody starved |
| Router (`service/router.go`) | the configuration | `ResolveGroup`, `GetGroup` | handlers, pending worker | the first matching rule; its group exists |
| Schedules (`config/config.go`) | - | `IsAssigneeWorking`, absences | balancer | overnight shifts, weekdays, zones |
| Tracker client (`service/tracker_client.go`) | the attempts of a call | `Execute` with retries | Tracker | bounded retries, success means done |
| Reload (`config/watcher.go`, `provider.go`, `pkg/core/core.go`) | the configuration of each part | `Reload`, `ApplyConfig` | everything | the last good configuration everywhere |
| Bug reporter (`service/bug_reporter.go`, `pkg/logger/hook.go`) | marks of reported errors | `ReportError` | Tracker client | one open issue per error, none lost for good |
| Webhook transport (`transport/http/webhook_handler.go`) | - | parses, calls `ProcessWebhook` | handlers, bug reporter | the right branch; a sender that hangs up does no harm |
| API, metrics, notifier, logger | - | - | - | no state of their own |

Hard behaviour, in the order of its weight: check-then-act across a remote call (pick and book,
search and sync, fetch and assign); calls whose answer is lost; webhooks that are late, double
or lost; crashes between two writes; a queue that blocks at its head; writes whose error is
ignored; a configuration handed out part by part while requests read it. The full list, each at
its line, is `hazards` in `PROJECT.json`.

## 2. Plan

The project was built in this order, and all of it stands:

1. the tables with their most general clients and their theorems (`LoadLedger`,
   `PendingQueue`, `DeadLetterTable`);
2. the actors over them (`WebhookHandler`, `PendingProcessor`, `DlqWorker`, `StateSync`), the
   Tracker and its users (`TrackerWorld`), and the composition (`TicketFlow`);
3. the retry worker with its clock as an implementation of the abstract table
   (`DeadLetterQueue`);
4. what the documentation says and the code does otherwise (`Claims`);
5. proofs about the composition (`FlowProofs`): types, the lock, the refinement of all three
   tables, and that no ticket is lost;
6. the Tracker client as an implementation of what its callers may rely on (`TrackerClient`
   against `TrackerCall`), and the bug reporter on top of it (`BugReporter`);
7. who is on shift and whose turn it is (`Schedule`, `Balancing`);
8. the hot reload with the router (`HotReload`).

What is left out, and why, is section 7.

## 3. Modules

| Module | Models | Used by |
|---|---|---|
| `Domain` | issues, groups, assignees, slots (`<<group, assignee>>`) | the tables, `TrackerWorld` |
| `LoadLedger` | the two load tables; ghosts `shadow`, `debt` | `Service`, `MCRepository`, `RepositoryProofs` |
| `PendingQueue` | `pending_queue` | `Service`, `MCRepository`, `RepositoryProofs` |
| `DeadLetterTable` | the life of a row of `dead_letter_queue`, no clock | `Service`, `DeadLetterQueue`, `DeadLetterTableProofs` |
| `DeadLetterQueue` | the retry worker with clock, batches, failures, crashes; implements `DeadLetterTable` | `MCDeadLetterQueue`, `DeadLetterQueueProofs` |
| `TrackerWorld` | external: issues, users, webhooks, outcomes of calls | `Service` |
| `Service` | what the actors share: configuration, shifts, candidates, failing writes; ghost `duty` | the four actors |
| `WebhookHandler` | `ProcessWebhook`, `AssignOrEnqueue`, a sender that hangs up | `TicketFlow` |
| `PendingProcessor`, `DlqWorker`, `StateSync` | the three goroutines | `TicketFlow` |
| `TicketFlow` | the composition, crashes, fairness, the properties of the whole | `Claims`, `FlowProofs` |
| `Claims` | statements of the documentation the code does not keep | `MCTicketFlow` |
| `TrackerCall` | abstract: what a Tracker call promises its caller | `TrackerClient` |
| `TrackerClient` | `Execute`: attempts, pauses, Retry-After, cancellation; implements `TrackerCall` | `BugReporter`, `TrackerClientProofs`, `BugReporterProofs` |
| `BugReporter` | `ReportError`: mark, search, creation through `TrackerClient` | `MCBugReporter`, `BugReporterProofs` |
| `Schedule` | defaults, `IsAssigneeWorking`, absences, against a reference | `MCSelection`, `SelectionProofs` |
| `Balancing` | `PickAssignee` with both orders, and the dispatchers that book later | `MCSelection`, `SelectionProofs` |
| `HotReload` | editor, watcher, debouncing, `ApplyConfig`, router, requests | `MCHotReload`, `HotReloadProofs` |
| `MC*` | instances for TLC (`MCFlowTroubles` is `MCTicketFlow` with few troubles of any kind in one behaviour) | the cfg files |
| `RepositoryProofs`, `DeadLetterTableProofs` | theorems about the tables | `FlowProofs`, `DeadLetterQueueProofs` |
| `TrackerClientProofs` | theorems about the client | `BugReporterProofs` |
| `DeadLetterQueueProofs`, `BugReporterProofs`, `SelectionProofs`, `HotReloadProofs`, `FlowProofs` | theorems about the rest | - |

The abstract specifications are `LedgerSpec`, `PendingSpec` and `DlqSpec` (a table under its
most general client) and `TrackerCall`. `TicketFlow` implements the three tables
(`TablesImplemented`), `DeadLetterQueue` the third once more with its clock
(`DlqImplemented`), `TrackerClient` and hence `BugReporter` the fourth
(`CallImplemented`, an `INSTANCE ... WITH` that maps the stage of a call to what the caller sees).

### How state and steps correspond to the code

* **A repository operation is one atomic action.** SQLite is opened with one connection
  (`sqlite.go:33`), and every operation is one statement or one transaction. A write that fails
  is rolled back, its error is logged and forgotten: `Write` in `Service` is the done or the
  failed write, the latter at most `MaxDbFaults` times.
* **An actor is a sequence of calls.** A handler's record has a label for the call it makes
  next and the local variables that are used after it; between two calls everybody else may
  run. The labels are, in the order of `ProcessWebhook`: `release`, `charge`, `clear`, `leave`
  (closure), `unassign`, `read`, `book`, `refund` (manual change), `dequeue`, `adopt` (arrives
  assigned), `check`, `pick`, `enqueue`, `assign`, `failed`, `record` (auto-assignment). Steps that touch
  only local variables are merged with the call before or after them.
* **A sender that hangs up** ends the request's context (`webhook_handler.go:387`): what the
  handler has not yet written is not written, and it returns. It counts as one of the
  `MaxFaults` failures.
* **The configuration** of the composition is the set `groups` in force, the slots `onShift`, and
  the constants `Members`, `Limit`, `Route`. A rule and its group are removed together (`Validate`,
  `config.go:333`), so a route to a group that is not in force counts as no rule. How rules
  match and how the parts come to a new configuration is `HotReload`; who is on shift is `Schedule`.
* **Choice.** In the composition `load_based` takes a least loaded candidate; ties, and the order of
  `round_robin`, go by `last_assigned_at` and are left open: every candidate the code might pick
  in some history is allowed. `Balancing` has the column, in whole seconds.
* **The Tracker.** A call succeeds or comes back as 5xx, lost connection, 429, 404 or another
  4xx, and after any error the change may have been made: by this attempt, or by an earlier
  one of the same call. That is all `TrackerCall` promises, and `TrackerClient` implements it.
  `shouldRemoveAssignee` is the kind `remove` of a webhook, an assignee entry in `Changes` the
  kind `change`, everything else is `plain`. Updates by the service itself come back as webhooks, too.
  Where the robot's identity is configured (`RobotKnown`) they are dropped before anything else
  (assigner.go:188), and are not sent in the model; otherwise each change of the assignee sends an
  `Echo`, which may overtake the step that books it. Echoes of the transition and the comment after an
  assignment differ in nothing from a user's edit (`UserEdits`).
* **Names.** A payload names a person by login, uid or cloud uid. `resolveCanonicalAssignee`
  (assigner.go:783) makes a login of what the configuration knows and leaves anything else as it is: `KnownAs`
  is the set of names a payload's person may come out as, and `Resolved` the payload a handler works with.
* **Order of the pending queue.** `GetNextPending` orders by `created_at`, read in whole seconds before
  the connection is free (repository.go:213). A row has its stamp `at`, at most `MaxStampLag` inserts older than its id;
  which of equal stamps is first is open.
* **The 404 test** of the pending worker searches the whole text of the error, which has the status, the path with
  the key, for a lost connection the URL, and the answer's body. `LooksLike404` is the set of answers it may give: yes
  for a 404 and for a key with these digits, either for any other error.
* **Memory and crash.** `inFlight`, `recentlyAssigned`, the place of every actor and the batches
  are lost, the tables stay. Requests that die get no answer. A graceful shutdown is a crash that
  lets some actors get further, so it adds no behaviour.
* **Inside a call** (`TrackerClient`) a stage stands for each line of the loop at which something else
  may happen: look at the context, pause, send, wait. Pauses are in units of 100 ms. A request
  nobody waits for any more (`adrift`) may still be carried out, at any later time.
* **Balancing.** A dispatcher's pick is booked (`Book`), deferred to the dead letter queue (`Defer`; `owed` counts these
  rows per member) or dropped; the retry worker books a deferred one whatever the load is by then (`RetryBooks`).
  `BookUnpicked` is every booking no pick stands behind: adoption, a manual change, and the retry of a row that was
  booked before and whose ticket has moved on since. `CorrectLoad` is a closure, a move, or the
  sync, which sets any number.
* **Schedules.** Days are any integers, as in the file. The clock counts units from a Monday 00:00 UTC; a day has `DayLength` of them
  (1440 in the code). A zone is a fixed offset.
* **A reload** hands the configuration to nine parts in the order of `ApplyConfig`, one step each;
  a request reads the part it needs at the time it needs it.
* **Ghosts.** `shadow` (keys the last sync counted without owning their row) and `debt` (fallback
  decrements not repaid) make the accounting of the ledger exact; `duty` is the set of tickets
  the service has queued and still owes an assignee; `calls` of the retry worker, `effects` and `told`
  of a Tracker call, `stray` of a bug, `idle` of a member, `passed` and `over` of the balancer and `seen`,
  `overlapped`, `missed` of the reload record what the properties speak of. No guard reads a ghost.
* **Mutated forms.** Beside some definitions stands the same operation with a plausible bug (a
  dropped guard, a missing reset). Nothing uses them; replacing the operation by such a form
  makes the property that `mutants` in `PROJECT.json` names with it fail.

## 4. Runs

Instances that TLC checks; every bound is a constant of the module that uses it.

| Run | Instance | Shows |
|---|---|---|
| `repository` | 2 issues, 2 groups, 2 people, 1 repeated key; ids up to 8, stamps up to 2 inserts late | the accounting, uniqueness and order after any sequence of calls |
| `dead_letters` | 3 rows, batch 2, budget 2, 1 crash or failed write | the worker implements the table, keeps its budget, and every row settles |
| `flow_crash` | 2 issues, 2 requests, pending + retry worker, echoes of the service's own updates, and any 3 troubles (at most 2 of a kind: failed calls, failed writes, crashes) with 2 user events, or 3 events and one trouble that meets the workers only | no ticket lost, the lock exact |
| `flow_converge` | 2 issues, 1 request, all workers, 2 events, payloads with a name the configuration does not know, and one trouble: a repeated webhook, a failed call, a failed write or a crash | counters converge; every step is an operation of the tables |
| `flow_duty` | 2 issues, limit 2, 2 shifts or reloads, 2 failed calls, budget 1, stamps up to 1 insert late | every ticket is served or given up |
| `bug_reports` | 2 reporters, 1 error, 2 retries, 2 losses, 1 restart | a duplicate has a cause, a recurring error is filed, a call keeps its promise |
| `selection` | a day of 4 units over 10 days, group and own schedules in 4 zones, days 0 and 8 among them; 3 members, 2 dispatchers, limit 2, 1 deferred pick, counters up to 3, 2 seconds | shifts against the reader's expectation; the order, its fairness, and how far the limit is overshot |
| `reload` | 3 files, broken and empty ones, 3 edits, 1 request, 2 tickets | no bad configuration, no mixture without a reload, no change of the file overlooked, convergence |
| `claim_*` | the least instance in which the statement fails | see section 6 |

Why the bounds are enough. *Flow*: the races of this code are between two actors over one ticket or
over one slot, so two tickets, two people with a limit of one or two, and two requests beside
the workers contain every pair; a third ticket or request only repeats them, and what is
proved holds for any number. One or two failures reach every error branch, and two are needed for a
retry that fails; a retry budget of one reaches the exhausted row. Two user events are a creation and a
conflicting change, three add the late one. `MaxPendingId` is far above what the events allow.
`MaxDlqRows` bounds the rows: it is at least the number of failures in every run with liveness, so that
no step is disabled by it there. *dead_letters*: three rows against a batch of two are the least queue that
does not fit. *selection*: the balancer compares two members, and a third is what transitivity needs;
two seconds are before and after; with one deferred pick the bound of three outstanding picks is reached for both
ghosts (`FewTickets` keeps the third member on leave, who is then only compared against, one shift to change and few tickets open); a day of four units has both ends, the middle and a shift over
midnight, and ten days contain every weekday and every change between two. *reload*: three edits are
one that is being handed out, one waiting, and one that arrives in between; requests do not
interact, so one is enough. *bug_reports*: two goroutines over one error are the only race, two
losses let both the search and the creation fail, and two retries let a repetition be repeated.

`CHECK_DEADLOCK FALSE` is set in the instances of `MCTicketFlow`, where users, failures and
crashes are bounded and the system rests when they are used up and the queues are empty, and
in `bug_reports` for the same reason. Symmetry is used in runs of safety properties only.
The constraints of `flow_crash` and `flow_converge` bound the troubles. With liveness TLC takes no symmetry set, so
`FirstOnShift` and `FirstCreated` choose one of two equivalent behaviours in `flow_converge` and `flow_duty`. A
step without trouble is always among those fairness asks for, so the constraints do not
turn an unfair behaviour into a fair one. `OnlyNewTickets` keeps `claim_wip_race` to the case it is about: nobody but the
service assigns anything.

`TooYoung` in `TicketFlow` is the one assumption on time there: a row of the dead letter queue is due
after one minute (`repository.go:357`), so the retry worker does not take it before the
pending worker has made the delete that follows the insert. In `DeadLetterQueue`
time is counted in units of the base back-off (30 s) and a row overdue by `MaxLate` grows no older.
`Tick` of `BugReporter` waits for reports under way: the longest, with an hour's Retry-After, is
taken not to outlive the mark.

**Fairness.** `TicketFlow`: each request runs to its end (a goroutine), and each worker's loop gets its turn
again and again (a ticker; `Start` of each worker). `DeadLetterQueue`: the worker's loop
runs and time passes. Nothing obliges users, webhooks, shifts, reloads, failures or crashes: a webhook may
never be delivered. The premise of `DutyDischarged` (from some time on every group is in force
and has somebody free) is what the queue's head-of-line order needs; `FreeGroupServed` shows
that one group's having somebody is not enough. The sync worker is not part of `flow_duty`.
`HotReload`: the watcher's goroutine reads events, its timer fires, and it reloads; nothing makes an
editor finish. `BugReporter`: goroutines run, the time limit of net/http ends every request, what is on
the wire arrives or is lost, errors recur and time passes; that the Tracker at some time stops
refusing is the premise of `RecurringErrorFiled`.

## 5. Proofs

All proofs are for every value of the constants that satisfies the named assumptions
(`DomainAssumption`: the sets are finite; `LedgerAssumption`, `DlqAssumption`,
`QueueAssumption`, `WorldAssumption`, `ServiceAssumption`, `FlowAssumption`, `ClientAssumption`,
`ReporterAssumption`, `ScheduleAssumption`, `BalancingAssumption`, `ReloadAssumption`: bounds are numbers,
the values that stand for "nothing" are not data, configured functions have their types, a zone is less
than a day from UTC).

* **`RepositoryProofs`**, the ledger. `LedgerInv` is `LedgerTypeOK` and `LoadAccounted`. The two are
  inductive together: the counter of a slot changes with the cardinality of the set of its
  rows, and the lemmas do this per operation (`InsertRowPreserves`, `DeleteRowPreserves`,
  `MoveRowPreserves`, `FallbackPreserves`, `SyncPreserves`). From it follow `LedgerTyped`,
  `LedgerConserved`, and as action properties `LedgerGrowth` and
  `LedgerGroupSticky`. `debt` is never negative: only a fallback decrement that did lower a counter adds to it, and a
  decrement at the floor, which lowers nothing, repays one.
* **`RepositoryProofs`**, the queue. `PendingRowsUnique` needs that ids are below the counter;
  `PendingFirstComeFirstServed` and `PendingTyped` follow from it.
* **`DeadLetterTableProofs`.** `RetryBudget` is inductive only together with "an unused row has
  count 0" (`DlqInv`); `RetryBudgetKept` and `VerdictsAreFinal` follow.
* **`DeadLetterQueueProofs`.** The worker writes back a count it read when the pass began.
  `QueueInv` says that every row of the batch is pending with the count that was read and in the
  batch once; so each write is an operation the abstract table allows, and
  `QueueImplementsTable` is the refinement (the variables are shared, the mapping is the
  identity). `WorkerKeepsBudget` carries the table's theorems over. `TrackerNotHammered` counts
  calls instead of verdicts: `CallsInv` relates the calls of a row to its count, the one call whose
  verdict is still to be written, and the troubles that made a verdict forgotten. `QueueTyped`
  needs that the back-off stays in its range, a bounded power of two capped by the maximum: no
  induction over the exponent is available, so `PowersOrdered` reads `2^n` as the number of subsets of
  `1..n`, and inclusion orders the powers.
* **`FlowProofs`.** `FlowInv` is the types of every part, the exact lock (`OneHandlerPerIssue`), the tables'
  own invariants, and what an actor may still believe about a table after others have run: the id
  in the pending worker's hand is one the table has given out (`ErrandKnown`), the row in the retry
  worker's hand may still be retried (`RetryInHand`), a used row holds a call (`RowsHold`). One lemma per
  step of each actor shows that it keeps `FlowInv` and that on each table it is one operation or
  none. From it follow `ServiceTyped`, `IssuesLockedExactly` and the refinement
  `ServiceImplementsTables`; `TablesHoldInService` then carries the theorems about the tables over
  to the running service.
* **`TicketsNotLost`** (same module) proves `DutyKept`, through failed calls, failed writes and crashes.
  Being in a queue does not keep itself: whether a row may be deleted depends on where the actors
  are. `DutyInv` says that a ticket owed waits, or has a row of the dead letter queue whose call has
  not been made yet (`DutyHeld`), that a request that will take its ticket out of the queue owes
  nothing (`HandlersClear`), that the id in the pending worker's hand still means the ticket it
  was read for (`ErrandSame`), and that it deletes a row it has given up only after the dead letter
  queue has the ticket (`BuriedSafe`). The one write whose failure ends the promise is the pending
  worker's insert into that queue; the label `unburied` marks it, see section 6.
* **`PassRepairsCounters`** (same module) is the half of `CountersConverge` that is not about time. A pass is
  undisturbed (`Undisturbed`) when no search and no write of it fails and nobody else changes
  tickets, counters or groups meanwhile. From whatever reachable state it begins, at its end every counter of
  a configured member is the Tracker's figure, and later undisturbed passes leave it so. `RepairInv`:
  a counter is right already or its slot is still to be written (`Unwritten`), and what a search has found is
  what the Tracker has. The premise is a suffix of a behaviour and is met: it is what fairness
  leads to in `flow_converge`.
* **`TrackerClientProofs`.** `ExecuteKeepsPromise` is the refinement of `TrackerCall`: the invariant says
  that what a call has done and what is on the wire together never exceed the attempts made, at
  most `MaxRetries + 1`, and that a 2xx answer on its way means the change was made. `PausesAsAsked`
  follows from the same invariant. Any number of calls, any losses, cancellations and restarts.
* **`BugReporterProofs`.** `StepsOfClient` shows that the reporter uses `Execute` as a client may, so
  `ReporterCallsAsPromised` has the theorems of the client. `DuplicatesHaveCauses` needs what the mark is
  for: a reporter at work has its mark (`Marked`), no two work on one fingerprint (`Alone`), and what a
  search has found is still so when the issue is created (`Looked`). Together with the client's
  invariant they are `ReporterInv`. A mark must outlive its report for this, which is what `Tick` says
  (section 4).
* **`SelectionProofs`.** `SchedulesComplete`, `WeekdayAfterMidnight` and `HandoverWithoutGap` hold for any
  length of the day, any zone and any instant: the arithmetic of days is done once in lemmas.
  `AbsencesByWholeDays` and `AbsentOnLocalDays` are facts about every instant and every absence: the zone is less
  than a day, so a local day strictly inside the dates is inside them in UTC, too.
  `EveryWeekScheduled`, for any integers as days, goes from a state to the past: `IdleMeans` says that in each of the last `idle`
  units nobody was scheduled, `WeekdayComesRound` finds the wanted day in any seven, and
  `ScheduledInWeek` the hour in it.
  `OrdersSound` is a fact about the two comparisons. `BypassLimited` and `OvershootLimited` are budgets of open
  picks (`Open`: in flight or deferred). Once a colleague has been booked over a member it is the member's turn by
  the figure that counts first, so the colleague is not picked again, and every further booking over the member uses up an
  open pick (`PassedBudget`); a member at the limit is not picked either (`LimitBudget`). Bookings by people
  count for neither ghost, but change the figures at any time, and so does the sync, without a bound. The open
  picks of one member are at most the number of dispatchers and `MaxDeferred`, for every value of both: the load itself has no such
  bound in this code, since people and the sync may put any number there.
* **`HotReloadProofs`.** One invariant says which parts have the new configuration and which still the old
  one, and that what a request without an overlapping reload has read is the configuration in
  force. `OnlyGoodConfigs`, `OneReloadAtATime`, `ConsistentRequests` and `GroupsThere` follow.
  `NoChangeOverlooked` is the safety half of `ReloadConverges`; `OnItsWay` strengthens it: the last
  change is an event, in the timer, in the reload under way, or in every part.

Only model-checked:

* liveness (`RowSettles`, `CountersConverge`, `DutyDischarged`, `CallsReturn`, `RecurringErrorFiled`,
  `ReloadConverges`): the prover has neither fairness nor ENABLED.

Every invariant and every action property of the passing runs, and every refinement, has a theorem.

No module here declares a recursive operator, so none is closed to the prover.

## 6. Where the code departs from its documentation

Each is a run of one property that TLC refutes; `findings` in `PROJECT.json` has the quotations.

* `claim_wip_race` - the limit of README.md:12 is checked before the call and booked after it: two webhooks for
  two new tickets pick the same last slot. (A retry from the dead letter queue does not check it again either, and
  after an outage all deferred picks name the same member: `OvershootBounded` is what is left.)
* `claim_free_group` - README.md:13: a pass stops at the oldest ticket nobody is free for,
  whichever group it belongs to.
* `claim_transient` - README.md:14: on the webhook path a 429 or a lost connection does not reach
  the dead letter queue.
* `claim_404` - pending_processor.go:214: a key with the digits 404 makes every error a 404. (The digits may also
  be in the body of any other error, or in the URL.)

Worth knowing, and visible in the models without a run of their own:

* A day of work outside 1..7 loads and is never reached (`ScheduledEveryWeek`): with no other day the member is
  never on duty, and nothing says so.
* Without a configured robot identity the service reads the echo of its own assignment as a manual one, takes the ticket out of
  the queues and books it; `flow_crash` runs with these echoes.
* The pending worker ignores the error of `EnqueueDLQ` and deletes the row
  (pending_processor.go:229): the one failed write that loses a ticket. `DutyKept` lets the promise end there.
* A ticket that is taken on again between the pending worker's assignment and its delete counts as
  discharged by that assignment.
* The in-flight lock drops also events that are no duplicates (assigner.go:199); the next sync
  repairs the counters.
* After midnight an overnight shift goes by the weekday of the new day (`ShiftAgrees`); absences are
  read in UTC; equal start and end hours mean one minute; a member's own schedule that names no
  days never works, since only groups get default days.
* `round_robin` within one second goes by load and login; a pick made before a colleague's booking may
  prefer them once more (`BypassBounded` is the limit).
* An empty file is a valid configuration, so a file cut for writing may be loaded if the editor takes
  longer than the debouncing; an edit between the load (main.go:85) and the start of the watcher
  (main.go:205) is missed until the next one (`missed`).
* A request during a reload may use two configurations, and may find that the group it was
  routed to is gone.
* One failed webhook is reported twice under two fingerprints, by the hook of the logger and by the
  webhook handler.
* `pendingWorker.Trigger` has no caller: the pending queue moves by its ticker alone. The SLA alert
  is raised for the oldest ticket only.

## 7. Not modelled

* The actions after an assignment (transition, comment, card in a chat, hooks) and the SLA
  alerts: they write no table the properties are about and their errors are ignored. Which
  configuration they read is in `HotReload`.
* `IncrementLoad`, `DecrementLoad`, `SetAssigneeLoad` of the repository, and `SetProvider` of the core (which
  leaves the old provider's callback in place): no caller in the running service.
* The methods of the Tracker client above `Execute`: each is one call or a sequence of calls without
  state; what matters of them is in `TrackerWorld` (assign, fetch, search) and `BugReporter`.
* API and metrics (read only), notifier and logger (output only), migrations (run before
  everything else), defaults and environment variables that only fill in scalars.
* The hour a time zone skips or repeats: `Schedule` has fixed offsets.
* Repeated keys of a paged search are in `LoadLedger` only; the composition searches exactly.
* The texts of queries, payloads, issues, logs and messages.
