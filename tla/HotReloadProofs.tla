--------------------------- MODULE HotReloadProofs ---------------------------
(***************************************************************************)
(* What a reload may do to the parts and to the requests, for any files,   *)
(* any rules, any number of edits and any number of requests.              *)
(***************************************************************************)
EXTENDS HotReload, FiniteSetTheorems, TLAPS

Written == Contents \cup {Broken, Empty}

\* What is on disk is a content, and what is handed out loads.
FilesOK ==
  /\ file \in Written
  /\ writing \in Contents \cup {Broken, None}
  /\ loading # None => Loads(loading)

HandedOut == done \in 0..8 /\ (loading = None => done = 0)

ActiveOK == active = [p \in Parts |-> active[p]]

\* A request that nothing has overlapped has read what all parts now have.
Undisturbed(r) ==
  ~overlapped[r] =>
    /\ at[r] # "idle" => done = 0
    /\ seen[r] \subseteq {active["router"]}
    /\ at[r] # "lost"
    /\ at[r] = "routed" => target[r] \in active["router"].groups

RequestsOK ==
  /\ at \in [Requests -> {"idle", "entered", "unrouted", "routed", "fetched", "posted",
                          "served", "lost"}]
  /\ ticket = [r \in Requests |-> ticket[r]]
  /\ target = [r \in Requests |-> target[r]]
  /\ seen = [r \in Requests |-> seen[r]]
  /\ overlapped \in [Requests -> BOOLEAN]

IInv ==
  /\ FilesOK /\ HandedOut /\ ActiveOK /\ RequestsOK
  /\ LastGood /\ ReloadsDoNotMix
  /\ \A r \in Requests : Undisturbed(r)

-----------------------------------------------------------------------------
LEMMA OrderFacts ==
  /\ DOMAIN ApplyOrder = 1..9 /\ Len(ApplyOrder) = 9
  /\ \A i \in 1..9 : ApplyOrder[i] \in Parts
  /\ \A p \in Parts : \E i \in 1..9 : p = ApplyOrder[i]
  /\ \A i, j \in 1..9 : ApplyOrder[i] = ApplyOrder[j] => i = j
  /\ "router" \in Parts /\ "assigner" \in Parts /\ "notifier" \in Parts
<1>1. DOMAIN ApplyOrder = 1..9 /\ Len(ApplyOrder) = 9
  BY DEF ApplyOrder
<1>2. \A i \in 1..9 : ApplyOrder[i] \in Parts
  BY <1>1 DEF Parts
<1>3. \A p \in Parts : \E i \in 1..9 : p = ApplyOrder[i]
  BY <1>1 DEF Parts
<1>4. \A i, j \in 1..9 : ApplyOrder[i] = ApplyOrder[j] => i = j
  BY DEF ApplyOrder
<1>5. ApplyOrder[4] = "router" /\ ApplyOrder[7] = "assigner" /\ ApplyOrder[8] = "notifier"
  BY DEF ApplyOrder
<1> QED BY <1>1, <1>2, <1>3, <1>4, <1>5

\* One part after the other, until none is left.
LEMMA AfterFacts ==
  /\ After(0) = Parts /\ After(9) = {}
  /\ \A d \in 0..8 : /\ ApplyOrder[d + 1] \in After(d) /\ After(d) \subseteq Parts
                     /\ After(d + 1) = After(d) \ {ApplyOrder[d + 1]}
<1>1. After(0) = Parts /\ After(9) = {}
  BY OrderFacts DEF After, Parts
<1>2. ASSUME NEW d \in 0..8
      PROVE  /\ ApplyOrder[d + 1] \in After(d) /\ After(d) \subseteq Parts
             /\ After(d + 1) = After(d) \ {ApplyOrder[d + 1]}
  <2>1. \A i \in d + 1 .. 9 : i \in 1..9 /\ (i = d + 1 \/ i \in d + 2 .. 9)
    OBVIOUS
  <2>2. \A i \in d + 2 .. 9 : i \in 1..9 /\ i \in d + 1 .. 9 /\ i # d + 1
    OBVIOUS
  <2>3. d + 1 \in 1..9 /\ d + 1 \in d + 1 .. 9 /\ (d + 1) + 1 = d + 2
    OBVIOUS
  <2>4. After(d) = {ApplyOrder[i] : i \in d + 1 .. 9} /\ After(d + 1) = {ApplyOrder[i] : i \in d + 2 .. 9}
    BY OrderFacts, <2>3 DEF After
  <2> QED BY OrderFacts, <2>1, <2>2, <2>3, <2>4
<1> QED BY <1>1, <1>2

-----------------------------------------------------------------------------
LEMMA InitInv == ReloadInit => IInv
<1> SUFFICES ASSUME ReloadInit PROVE IInv
  OBVIOUS
<1>1. FilesOK
  BY DEF ReloadInit, FilesOK, Written
<1>2. HandedOut /\ ActiveOK /\ RequestsOK
  BY DEF ReloadInit, HandedOut, ActiveOK, RequestsOK
<1>3. LastGood
  BY DEF ReloadInit, LastGood
<1>4. ReloadsDoNotMix
  BY AfterFacts DEF ReloadInit, ReloadsDoNotMix
<1>5. \A r \in Requests : Undisturbed(r)
  BY DEF ReloadInit, Undisturbed
<1> QED BY <1>1, <1>2, <1>3, <1>4, <1>5 DEF IInv

\* The editor touches neither parts nor requests.
LEMMA EditStep ==
  ASSUME IInv, Editing PROVE IInv'
<1> USE DEF IInv
<1>1. UNCHANGED <<applyVars, requestVars>>
  BY DEF Editing, CutFile, FillFile, ReplaceFile, MoveAway
<1>2. FilesOK'
  BY <1>1 DEF Editing, CutFile, FillFile, ReplaceFile, MoveAway, FilesOK, Written, applyVars
<1>3. (HandedOut /\ ActiveOK /\ RequestsOK /\ LastGood /\ ReloadsDoNotMix)'
  BY <1>1 DEF HandedOut, ActiveOK, RequestsOK, LastGood, ReloadsDoNotMix, applyVars, requestVars
<1>4. \A r \in Requests : Undisturbed(r)'
  BY <1>1 DEF Undisturbed, applyVars, requestVars
<1> QED BY <1>2, <1>3, <1>4

\* Watching, and deciding to load, hand nothing out yet.
LEMMA WatchStep ==
  ASSUME IInv, StartWatcher \/ ReadEvent \/ TimerDue \/ Reload PROVE IInv'
<1> USE DEF IInv
<1>1. UNCHANGED <<fileVars, active, requestVars>> /\ done' = done
  BY DEF StartWatcher, ReadEvent, TimerDue, Reload, applyVars, HandedOut
<1>2. FilesOK'
  BY <1>1 DEF StartWatcher, ReadEvent, TimerDue, Reload, applyVars, FilesOK, fileVars
<1>3. HandedOut'
  BY <1>1 DEF StartWatcher, ReadEvent, TimerDue, Reload, applyVars, HandedOut
<1>4. (ActiveOK /\ RequestsOK /\ LastGood)'
  BY <1>1 DEF ActiveOK, RequestsOK, LastGood, requestVars
<1>5. ReloadsDoNotMix'
  <2>1. CASE loading' = loading
    BY <1>1, <2>1 DEF ReloadsDoNotMix
  <2>2. CASE Reload
    <3>1. done = 0
      BY <2>2 DEF Reload, HandedOut
    <3> QED BY <1>1, <3>1, AfterFacts DEF ReloadsDoNotMix
  <2> QED BY <2>1, <2>2 DEF StartWatcher, ReadEvent, TimerDue, applyVars
<1>6. \A r \in Requests : Undisturbed(r)'
  BY <1>1 DEF Undisturbed, requestVars
<1> QED BY <1>2, <1>3, <1>4, <1>5, <1>6

LEMMA ApplyStep ==
  ASSUME IInv, ApplyPart PROVE IInv'
<1> USE DEF IInv
<1> DEFINE x == ApplyOrder[done + 1]
<1>1. /\ loading # None /\ Loads(loading) /\ done \in 0..8 /\ x \in Parts
      /\ active' = [active EXCEPT ![x] = loading]
      /\ UNCHANGED <<fileVars, at, ticket, target, seen>> /\ overlapped' = [r \in Requests |-> TRUE]
  BY AfterFacts DEF ApplyPart, TakeConfig, FilesOK, HandedOut
<1>2. /\ active'[x] = loading
      /\ \A p \in Parts \ {x} : active'[p] = active[p]
  BY <1>1 DEF ActiveOK
<1>3. CASE done = 8
  <2>1. done' = 0 /\ loading' = None
    BY <1>3, OrderFacts DEF ApplyPart
  <2>2. After(8) = {x}
    <3>1. After(9) = After(8) \ {x} /\ x \in After(8)
      BY <1>3, AfterFacts
    <3> QED BY <3>1, AfterFacts
  <2>3. \A p \in Parts : active'[p] = loading
    BY <1>2, <1>3, <2>2 DEF ReloadsDoNotMix
  <2>4. ReloadsDoNotMix'
    BY <2>1, <2>3, AfterFacts DEF ReloadsDoNotMix
  <2>5. FilesOK' /\ HandedOut'
    BY <1>1, <2>1 DEF FilesOK, HandedOut, fileVars
  <2> QED BY <1>1, <1>2, <2>4, <2>5 DEF ActiveOK, RequestsOK, LastGood, Undisturbed
<1>4. CASE done # 8
  <2>1. done' = done + 1 /\ loading' = loading
    BY <1>1, <1>4, OrderFacts DEF ApplyPart
  <2>2. After(done') = After(done) \ {x} /\ After(done) \subseteq Parts
    BY <1>1, <2>1, AfterFacts
  <2>3. ReloadsDoNotMix'
    <3>1. \A p, q \in After(done') : active'[p] = active'[q]
      BY <1>2, <2>2 DEF ReloadsDoNotMix
    <3>2. \A p \in Parts \ After(done') : active'[p] = loading'
      BY <1>2, <2>1, <2>2 DEF ReloadsDoNotMix
    <3> QED BY <3>1, <3>2 DEF ReloadsDoNotMix
  <2>4. FilesOK' /\ HandedOut'
    BY <1>1, <1>4, <2>1 DEF FilesOK, HandedOut, fileVars
  <2> QED BY <1>1, <1>2, <2>3, <2>4 DEF ActiveOK, RequestsOK, LastGood, Undisturbed
<1> QED BY <1>3, <1>4

\* What a request asks while nothing is handed out, all parts answer alike.
LEMMA PartsAlike ==
  ASSUME IInv, done = 0
  PROVE  active["assigner"] = active["router"] /\ active["notifier"] = active["router"]
BY AfterFacts, OrderFacts DEF IInv, ReloadsDoNotMix

LEMMA RequestStep ==
  ASSUME IInv, NEW r \in Requests, Requesting(r) PROVE IInv'
<1> USE DEF IInv
<1>1. UNCHANGED <<fileVars, watchVars, applyVars>>
  BY DEF Requesting, Enter, Unrouted, Route, FetchGroup, PostAssign, Notify, Reads
<1>2. (FilesOK /\ HandedOut /\ ActiveOK /\ LastGood /\ ReloadsDoNotMix)'
  BY <1>1 DEF FilesOK, HandedOut, ActiveOK, LastGood, ReloadsDoNotMix, fileVars, applyVars
<1>3. RequestsOK'
  <2>1. CASE \E t \in Tickets : Enter(r, t)
    BY <2>1 DEF Enter, RequestsOK
  <2>2. CASE Route(r)
    BY <2>2 DEF Route, Reads, RequestsOK
  <2>3. CASE Unrouted(r) \/ FetchGroup(r) \/ PostAssign(r) \/ Notify(r)
    BY <2>3 DEF Unrouted, FetchGroup, PostAssign, Notify, Reads, RequestsOK
  <2> QED BY <2>1, <2>2, <2>3 DEF Requesting
<1>5. ASSUME NEW q \in Requests \ {r}
      PROVE  Undisturbed(q)'
  <2>1. /\ at'[q] = at[q] /\ seen'[q] = seen[q] /\ target'[q] = target[q]
        /\ overlapped'[q] = overlapped[q]
    BY <1>5 DEF Requesting, Enter, Unrouted, Route, FetchGroup, PostAssign, Notify, Reads, RequestsOK
  <2> QED BY <1>1, <1>5, <2>1 DEF Undisturbed, applyVars
<1>6. Undisturbed(r)'
  <2>0. active' = active /\ done' = done
    BY <1>1 DEF applyVars
  <2>1. ASSUME NEW t \in Tickets, Enter(r, t)
        PROVE  Undisturbed(r)'
    <3>1. at'[r] = "entered" /\ seen'[r] = {active["assigner"]} /\ overlapped'[r] = (loading # None)
      BY <2>1 DEF Enter, RequestsOK
    <3>2. ~overlapped'[r] => done = 0 /\ active["assigner"] = active["router"]
      BY <3>1, PartsAlike DEF HandedOut
    <3> QED BY <2>0, <3>1, <3>2 DEF Undisturbed
  <2>2. CASE Unrouted(r)
    <3>1. /\ overlapped' = overlapped /\ at[r] = "entered" /\ at'[r] = "unrouted"
          /\ seen'[r] = seen[r] \cup {active["router"]}
      BY <2>2 DEF Unrouted, Reads, RequestsOK
    <3> QED BY <2>0, <3>1 DEF Undisturbed
  <2>3. CASE Route(r)
    <3>1. PICK i \in DOMAIN active["router"].rules :
            /\ target' = [target EXCEPT ![r] = active["router"].rules[i].target]
            /\ Reads(r, active["router"],
                     IF active["router"].rules[i].target \in active["router"].groups
                     THEN "routed" ELSE "lost")
      BY <2>3 DEF Route
    <3>2. active["router"].rules[i].target \in active["router"].groups
      BY OrderFacts DEF LastGood, Loads
    <3>3. /\ overlapped' = overlapped /\ at[r] = "entered" /\ at'[r] = "routed"
          /\ target'[r] \in active["router"].groups
          /\ seen'[r] = seen[r] \cup {active["router"]}
      BY <2>3, <3>1, <3>2 DEF Route, Reads, RequestsOK
    <3> QED BY <2>0, <3>3 DEF Undisturbed
  <2>4. CASE FetchGroup(r)
    <3>1. /\ overlapped' = overlapped /\ at[r] = "routed"
          /\ at'[r] = IF target[r] \in active["router"].groups THEN "fetched" ELSE "lost"
          /\ seen'[r] = seen[r] \cup {active["router"]}
      BY <2>4 DEF FetchGroup, Reads, RequestsOK
    <3> QED BY <2>0, <3>1 DEF Undisturbed
  <2>5. CASE PostAssign(r)
    <3>1. /\ overlapped' = overlapped /\ at[r] = "fetched" /\ at'[r] = "posted"
          /\ seen'[r] = seen[r] \cup {active["assigner"]}
      BY <2>5 DEF PostAssign, Reads, RequestsOK
    <3> QED BY <2>0, <3>1, PartsAlike DEF Undisturbed
  <2>6. CASE Notify(r)
    <3>1. /\ overlapped' = overlapped /\ at[r] = "posted" /\ at'[r] = "served"
          /\ seen'[r] = seen[r] \cup {active["notifier"]}
      BY <2>6 DEF Notify, Reads, RequestsOK
    <3> QED BY <2>0, <3>1, PartsAlike DEF Undisturbed
  <2> QED BY <2>1, <2>2, <2>3, <2>4, <2>5, <2>6 DEF Requesting
<1> QED BY <1>2, <1>3, <1>5, <1>6

LEMMA Inductive == ReloadSpec => []IInv
<1>1. IInv /\ [ReloadNext]_reloadVars => IInv'
  <2> SUFFICES ASSUME IInv, [ReloadNext]_reloadVars PROVE IInv'
    OBVIOUS
  <2>1. CASE UNCHANGED reloadVars
    BY <2>1 DEF reloadVars, fileVars, applyVars, requestVars, IInv, FilesOK, HandedOut,
                ActiveOK, RequestsOK, LastGood, ReloadsDoNotMix, Undisturbed
  <2> QED BY <2>1, EditStep, WatchStep, ApplyStep, RequestStep DEF ReloadNext, Watching
<1> QED BY <1>1, InitInv, PTL DEF ReloadSpec

\* No part ever has a configuration that would not load, whatever is written.
THEOREM OnlyGoodConfigs == ReloadSpec => []LastGood
<1>1. IInv => LastGood
  BY DEF IInv
<1> QED BY <1>1, Inductive, PTL

\* Two reloads never mix, whatever the number of edits.
THEOREM OneReloadAtATime == ReloadSpec => []ReloadsDoNotMix
<1>1. IInv => ReloadsDoNotMix
  BY DEF IInv
<1> QED BY <1>1, Inductive, PTL

\* A request that no reload overlaps has one configuration for all it asks.
THEOREM ConsistentRequests == ReloadSpec => []OneConfigPerRequest
<1>1. IInv => OneConfigPerRequest
  <2> SUFFICES ASSUME IInv, NEW r \in Requests, ~overlapped[r]
               PROVE  Cardinality(seen[r]) <= 1
    BY DEF OneConfigPerRequest
  <2>1. seen[r] \subseteq {active["router"]}
    BY DEF IInv, Undisturbed
  <2>2. seen[r] = {} \/ seen[r] = {active["router"]}
    BY <2>1
  <2>3. Cardinality({}) = 0 /\ Cardinality({active["router"]}) = 1
    BY FS_EmptySet, FS_Singleton
  <2> QED BY <2>2, <2>3
<1> QED BY <1>1, Inductive, PTL

\* A group is not found only when a reload overlaps the request.
THEOREM GroupsThere == ReloadSpec => []GroupLostOnlyByReload
<1>1. IInv => GroupLostOnlyByReload
  BY DEF IInv, Undisturbed, GroupLostOnlyByReload, RequestsOK
<1> QED BY <1>1, Inductive, PTL

-----------------------------------------------------------------------------
\* The last change of the file is on its way to the parts, or has reached them.
OnItsWay ==
  \/ events > 0 \/ timer # "off"
  \/ loading = file
  \/ loading = None /\ \A p \in Parts : active[p] = file
  \/ missed \/ writing # None \/ ~Loads(file)

WatchInv ==
  /\ events \in Nat /\ missed \in BOOLEAN /\ watching \in BOOLEAN
  /\ OnItsWay

LEMMA OnItsWayKept ==
  ASSUME IInv, IInv', WatchInv, [ReloadNext]_reloadVars
  PROVE  WatchInv'
<1> USE DEF WatchInv
<1>1. ASSUME Reported(1)
      PROVE  events' \in Nat /\ missed' \in BOOLEAN /\ (events' > 0 \/ missed')
  <2>1. missed' = ~watching /\ missed' \in BOOLEAN
    BY <1>1, Zenon DEF Reported
  <2>2. CASE watching
    BY <1>1, <2>1, <2>2 DEF Reported
  <2>3. CASE ~watching
    <3>1. events' = events
      BY <1>1, <2>3 DEF Reported
    <3> QED BY <2>1, <2>3, <3>1, Zenon
  <2> QED BY <2>2, <2>3
<1>2. ASSUME NEW c \in Contents \cup {Broken}, CutFile(c) \/ ReplaceFile(c)
      PROVE  WatchInv'
  BY <1>1, <1>2 DEF CutFile, ReplaceFile, OnItsWay
<1>3. CASE FillFile
  BY <1>1, <1>3 DEF FillFile, OnItsWay
<1>4. CASE MoveAway
  BY <1>4 DEF MoveAway, OnItsWay, Loads, Broken, watchVars
<1>5. CASE StartWatcher
  BY <1>5 DEF StartWatcher, OnItsWay, fileVars, applyVars
<1>6. CASE ReadEvent \/ TimerDue
  BY <1>6 DEF ReadEvent, TimerDue, OnItsWay, fileVars
<1>7. CASE Reload
  BY <1>7 DEF Reload, OnItsWay, fileVars
<1>8. CASE ApplyPart
  <2>1. UNCHANGED <<events, watching, timer, file, missed, writing>> /\ loading # None
    BY <1>8 DEF ApplyPart, fileVars, watchVars
  <2>2. CASE loading' = loading
    BY <2>1, <2>2 DEF OnItsWay
  <2>3. CASE loading' # loading
    <3>1. done' = 0 /\ loading' = None
      BY <1>8, <2>3 DEF ApplyPart
    <3>2. PICK x \in Parts : active' = [active EXCEPT ![x] = loading]
      BY <1>8, AfterFacts DEF ApplyPart, TakeConfig, IInv, HandedOut
    <3>3. active'[x] = loading
      BY <3>2 DEF IInv, ActiveOK
    <3>4. \A p \in Parts : active'[p] = loading
      BY <3>1, <3>3, AfterFacts DEF IInv, ReloadsDoNotMix
    <3> QED BY <2>1, <3>1, <3>4 DEF OnItsWay
  <2> QED BY <2>2, <2>3
<1>9. CASE UNCHANGED reloadVars \/ \E r \in Requests : Requesting(r)
  <2>1. UNCHANGED <<fileVars, watchVars, applyVars>>
    BY <1>9 DEF reloadVars, Requesting, Enter, Unrouted, Route, FetchGroup, PostAssign,
                Notify, Reads
  <2> QED BY <2>1 DEF fileVars, watchVars, applyVars, OnItsWay
<1> QED BY <1>2, <1>3, <1>4, <1>5, <1>6, <1>7, <1>8, <1>9 DEF ReloadNext, Editing, Watching

\* The watcher never rests with a change it was told of, whatever the order of
\* edits, events, timers and reloads, and however many there are.
THEOREM NoChangeOverlooked == ReloadSpec => []NothingOverlooked
<1>1. ReloadInit => WatchInv
  <2>1. ReloadInit => events \in Nat
    BY DEF ReloadInit
  <2>2. ReloadInit => missed \in BOOLEAN /\ watching \in BOOLEAN /\ OnItsWay
    BY Zenon DEF ReloadInit, OnItsWay
  <2> QED BY <2>1, <2>2 DEF WatchInv
<1>2. IInv /\ WatchInv => NothingOverlooked
  <2> SUFFICES ASSUME IInv, WatchInv, events = 0, timer = "off", loading = None
               PROVE  Settled \/ missed \/ writing # None \/ ~Loads(file)
    BY DEF NothingOverlooked
  <2>1. ~(events > 0)
    OBVIOUS
  <2>2. file # None
    BY ReloadAssumption DEF IInv, FilesOK, Written
  <2> QED BY <2>1, <2>2 DEF WatchInv, OnItsWay, Settled
<1> QED BY <1>1, <1>2, OnItsWayKept, Inductive, PTL DEF ReloadSpec

=============================================================================
