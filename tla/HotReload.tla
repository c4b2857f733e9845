------------------------------ MODULE HotReload ------------------------------
(***************************************************************************)
(* The configuration file, the watcher that follows it, and requests that  *)
(* read what it hands out: internal/config/watcher.go and provider.go, the *)
(* checks of config.go, router.go, and ApplyConfig of pkg/core/core.go.    *)
(* An editor rewrites the file in place or replaces it; fsnotify reports   *)
(* it; 150ms after the last report the watcher loads the file and gives it *)
(* to the parts of the service one after the other, without any lock over  *)
(* them, while requests read one part after the other.                     *)
(***************************************************************************)
EXTENDS Integers, Sequences, FiniteSets

CONSTANTS
  Contents,   \* what an editor may write: configurations, valid or not
  Tickets,    \* tickets to route: queue, components, tags
  Requests,   \* concurrent requests
  Any,        \* a rule without a queue
  None,       \* no configuration, no ticket, no edit under way
  MaxEdits    \* most edits (bound)

\* Content that is not YAML, or no file at all.
Broken == [yaml |-> FALSE, rules |-> <<>>, groups |-> {}]

\* A file cut to length 0 is valid YAML, and defaults fill in the rest.
Empty == [yaml |-> TRUE, rules |-> <<>>, groups |-> {}]

\* Mutated form of Loads: Validate forgets the groups the rules name.
LoadsUnchecked(c) == c.yaml

\* Load and Validate: the file parses and every rule names a group there is.
Loads(c) == c.yaml /\ \A i \in DOMAIN c.rules : c.rules[i].target \in c.groups

ASSUME ReloadAssumption ==
  /\ MaxEdits \in Nat
  /\ None \notin Contents \cup {Broken, Empty} \cup Tickets
  /\ \E c \in Contents : Loads(c)

VARIABLES
  file,       \* what is on disk
  writing,    \* what an editor is writing in place, or None
  edits,      \* edits made so far
  events,     \* reports of fsnotify the watcher has not read
  watching,   \* Watcher.Start has returned
  timer,      \* debounceTimer: off, armed or due
  loading,    \* the configuration being handed out, or None
  done,       \* parts that have it
  active,     \* the configuration each part works with
  missed,     \* ghost: the last change came before the watcher
  at,         \* where each request is
  ticket,     \* the ticket it routes
  target,     \* the group it found for it, or None
  seen,       \* ghost: the configurations it has read
  overlapped  \* ghost: a configuration was handed out during the request

fileVars == <<file, writing, edits, missed>>
watchVars == <<events, watching, timer>>
applyVars == <<loading, done, active>>
requestVars == <<at, ticket, target, seen, overlapped>>
reloadVars == <<fileVars, watchVars, applyVars, requestVars>>

\* The order in which one configuration reaches the parts.
ApplyOrder == <<"watcher", "provider", "core", "router", "webhook", "sla",
                "assigner", "notifier", "alerts">>
Parts == {ApplyOrder[i] : i \in DOMAIN ApplyOrder}

\* The parts that come after the first d.
After(d) == {ApplyOrder[i] : i \in d + 1 .. Len(ApplyOrder)}

-----------------------------------------------------------------------------
(* Routing *)

\* RoutingRule.Matches: the queue, one of the components, all of the tags.
Matches(rule, t) ==
  /\ rule.queue \in {Any, t.queue}
  /\ rule.components = {} \/ rule.components \cap t.components # {}
  /\ rule.tags \subseteq t.tags

Matching(c, t) == {i \in DOMAIN c.rules : Matches(c.rules[i], t)}

\* ResolveGroup: rule i is the first that matches.
IsFirstMatch(c, t, i) ==
  i \in Matching(c, t) /\ \A j \in Matching(c, t) : i <= j

-----------------------------------------------------------------------------
(* The editor *)

\* A change nobody watches for is missed until the next.
Reported(n) ==
  /\ events' = IF watching THEN events + n ELSE events
  /\ missed' = ~watching

\* Written in place: the file is cut, and later filled again.
CutFile(c) ==
  /\ writing = None /\ edits < MaxEdits
  /\ file' = Empty
  /\ writing' = c
  /\ edits' = edits + 1
  /\ Reported(1)
  /\ UNCHANGED <<watching, timer, applyVars, requestVars>>

FillFile ==
  /\ writing # None
  /\ file' = writing
  /\ writing' = None
  /\ Reported(1)
  /\ UNCHANGED <<edits, watching, timer, applyVars, requestVars>>

\* Replaced by another file: one Create event.
ReplaceFile(c) ==
  /\ writing = None /\ edits < MaxEdits
  /\ file' = c
  /\ edits' = edits + 1
  /\ Reported(1)
  /\ UNCHANGED <<writing, watching, timer, applyVars, requestVars>>

\* Moved away: reported as an event the watcher does not look at.
MoveAway ==
  /\ writing = None /\ edits < MaxEdits
  /\ file' = Broken
  /\ edits' = edits + 1
  /\ UNCHANGED <<writing, missed, watchVars, applyVars, requestVars>>

-----------------------------------------------------------------------------
(* The watcher *)

\* The service has loaded the file; only now does it begin to watch it.
StartWatcher ==
  /\ ~watching
  /\ watching' = TRUE
  /\ UNCHANGED <<fileVars, events, timer, applyVars, requestVars>>

\* Mutated form of ReadEvent: the old timer is stopped, no new one is made.
ReadEventStopping ==
  /\ events > 0 /\ loading = None
  /\ events' = events - 1
  /\ timer' = IF timer = "off" THEN "armed" ELSE "off"
  /\ UNCHANGED <<fileVars, watching, applyVars, requestVars>>

\* Each event starts the wait anew, also one that was over.
ReadEvent ==
  /\ events > 0 /\ loading = None
  /\ events' = events - 1
  /\ timer' = "armed"
  /\ UNCHANGED <<fileVars, watching, applyVars, requestVars>>

TimerDue ==
  /\ timer = "armed"
  /\ timer' = "due"
  /\ UNCHANGED <<fileVars, events, watching, applyVars, requestVars>>

\* Mutated form of Reload: the error of Load is ignored.
ReloadAnyway ==
  /\ timer = "due" /\ loading = None
  /\ timer' = "off"
  /\ loading' = file
  /\ done' = 0
  /\ UNCHANGED <<fileVars, events, watching, active, requestVars>>

\* Reload: what does not load leaves everything as it is.
Reload ==
  /\ timer = "due" /\ loading = None
  /\ timer' = "off"
  /\ loading' = IF Loads(file) THEN file ELSE None
  /\ done' = 0
  /\ UNCHANGED <<fileVars, events, watching, active, requestVars>>

\* Mutated form of TakeConfig: the assigner is left out.
TakeConfigPartly(part) ==
  active' = IF part = "assigner" THEN active ELSE [active EXCEPT ![part] = loading]

TakeConfig(part) == active' = [active EXCEPT ![part] = loading]

\* Mutated form of ApplyPart: it returns before the alerts are set.
ApplyPartEarlyReturn ==
  /\ loading # None
  /\ TakeConfig(ApplyOrder[done + 1])
  /\ done' = IF done + 2 = Len(ApplyOrder) THEN 0 ELSE done + 1
  /\ loading' = IF done + 2 = Len(ApplyOrder) THEN None ELSE loading
  /\ overlapped' = [r \in Requests |-> TRUE]
  /\ UNCHANGED <<fileVars, watchVars, at, ticket, target, seen>>

\* One assignment of ApplyConfig.
ApplyPart ==
  /\ loading # None
  /\ TakeConfig(ApplyOrder[done + 1])
  /\ done' = IF done + 1 = Len(ApplyOrder) THEN 0 ELSE done + 1
  /\ loading' = IF done + 1 = Len(ApplyOrder) THEN None ELSE loading
  /\ overlapped' = [r \in Requests |-> TRUE]
  /\ UNCHANGED <<fileVars, watchVars, at, ticket, target, seen>>

-----------------------------------------------------------------------------
(* A request *)

\* The request reads a configuration and moves on.
Reads(r, config, next) ==
  /\ at' = [at EXCEPT ![r] = next]
  /\ seen' = [seen EXCEPT ![r] = @ \cup {config}]
  /\ UNCHANGED <<fileVars, watchVars, applyVars, ticket, overlapped>>

\* ProcessWebhook asks the assigner's configuration for the robot.
Enter(r, t) ==
  /\ at[r] \in {"idle", "served", "unrouted", "lost"}
  /\ at' = [at EXCEPT ![r] = "entered"]
  /\ ticket' = [ticket EXCEPT ![r] = t]
  /\ target' = [target EXCEPT ![r] = None]
  /\ seen' = [seen EXCEPT ![r] = {active["assigner"]}]
  /\ overlapped' = [overlapped EXCEPT ![r] = loading # None]
  /\ UNCHANGED <<fileVars, watchVars, applyVars>>

\* ResolveGroup, when no rule matches
Unrouted(r) ==
  /\ at[r] = "entered"
  /\ Matching(active["router"], ticket[r]) = {}
  /\ Reads(r, active["router"], "unrouted")
  /\ UNCHANGED target

\* ResolveGroup
Route(r) ==
  LET c == active["router"]
  IN  /\ at[r] = "entered"
      /\ \E i \in DOMAIN c.rules :
           /\ IsFirstMatch(c, ticket[r], i)
           /\ target' = [target EXCEPT ![r] = c.rules[i].target]
           /\ Reads(r, c, IF c.rules[i].target \in c.groups THEN "routed" ELSE "lost")

\* GetGroup, under another lock than ResolveGroup
FetchGroup(r) ==
  /\ at[r] = "routed"
  /\ Reads(r, active["router"],
           IF target[r] \in active["router"].groups THEN "fetched" ELSE "lost")
  /\ UNCHANGED target

\* PostAssignActions: transition and comment, then the notification.
PostAssign(r) ==
  /\ at[r] = "fetched"
  /\ Reads(r, active["assigner"], "posted")
  /\ UNCHANGED target

Notify(r) ==
  /\ at[r] = "posted"
  /\ Reads(r, active["notifier"], "served")
  /\ UNCHANGED target

-----------------------------------------------------------------------------
ReloadInit ==
  /\ file \in {c \in Contents : Loads(c)}
  /\ writing = None /\ edits = 0 /\ missed = FALSE
  /\ events = 0 /\ watching = FALSE /\ timer = "off"
  /\ loading = None /\ done = 0
  /\ active = [p \in Parts |-> file]
  /\ at = [r \in Requests |-> "idle"] /\ seen = [r \in Requests |-> {}]
  /\ ticket = [r \in Requests |-> None] /\ target = [r \in Requests |-> None]
  /\ overlapped = [r \in Requests |-> FALSE]

Editing ==
  \/ \E c \in Contents \cup {Broken} : CutFile(c) \/ ReplaceFile(c)
  \/ FillFile
  \/ MoveAway

Watching == ReadEvent \/ TimerDue \/ Reload \/ ApplyPart

Requesting(r) ==
  \/ \E t \in Tickets : Enter(r, t)
  \/ Unrouted(r) \/ Route(r) \/ FetchGroup(r) \/ PostAssign(r) \/ Notify(r)

ReloadNext ==
  \/ Editing
  \/ StartWatcher
  \/ Watching
  \/ \E r \in Requests : Requesting(r)

\* The watcher's goroutine runs, its timer fires, and select takes each of the
\* cases that stay ready.  Nothing makes an editor finish, or a request come.
ReloadSpec ==
  /\ ReloadInit /\ [][ReloadNext]_reloadVars
  /\ WF_reloadVars(ReadEvent) /\ WF_reloadVars(TimerDue)
  /\ WF_reloadVars(Reload) /\ WF_reloadVars(ApplyPart)

-----------------------------------------------------------------------------
(* Properties *)

\* No part ever works with a configuration that would not have loaded, however
\* an edit and a reload interleave (watcher.go:57, "retaining previous config").
LastGood == \A p \in Parts : Loads(active[p])

\* Between reloads all parts have the same configuration, and during one there
\* are two at most, the new one in the parts that come first (core.go:235): two
\* reloads never mix.
ReloadsDoNotMix ==
  /\ \A p, q \in After(done) : active[p] = active[q]
  /\ \A p \in Parts \ After(done) : active[p] = loading

\* A request during which nothing is handed out reads one configuration,
\* whatever it asks and in whatever order (assigner.go:188, 355, 366, 529).
OneConfigPerRequest ==
  \A r \in Requests : ~overlapped[r] => Cardinality(seen[r]) <= 1

\* "target group not found" is only ever the doing of a reload that overlaps
\* the request (router.go:55, 69): a loaded file has every group its rules name.
GroupLostOnlyByReload ==
  \A r \in Requests : at[r] = "lost" => overlapped[r]

Settled == loading = None /\ \A p \in Parts : active[p] = file

\* A watcher with nothing left to do has not overlooked the file: each part works
\* with what is on disk, if that loads and did not come before the watcher -
\* also when events, the debounce timer and a reload crossed (watcher.go:121).
NothingOverlooked ==
  (events = 0 /\ timer = "off" /\ loading = None) =>
    Settled \/ missed \/ writing # None \/ ~Loads(file)

\* Once the edits end in a file that loads, every part comes to work with that
\* file for good, unless the last edit came before the watcher (main.go:205):
\* no event is lost between the timer, the reload and the parts.
ReloadConverges == <>[](Settled \/ missed \/ writing # None \/ ~Loads(file))

=============================================================================
