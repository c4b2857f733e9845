-------------------------- MODULE RepositoryProofs --------------------------
(***************************************************************************)
(* TLAPS proofs about LoadLedger and PendingQueue, for every set of        *)
(* issues, groups and assignees, every bound and every sequence of         *)
(* repository calls.  Of the ledger, the type invariant and the            *)
(* conservation law LoadAccounted are inductive together; of the queue,    *)
(* the type invariant and PendingUnique, from which the fairness of the    *)
(* queue (KeepsPlace) follows.                                             *)
(***************************************************************************)
EXTENDS LoadLedger, PendingQueue, FiniteSetTheorems, TLAPS

LedgerInv == LedgerTypeOK /\ LoadAccounted

-----------------------------------------------------------------------------
\* The issues tracked for a slot are finitely many.
LEMMA TrackedFinite ==
  ASSUME NEW s \in Slots
  PROVE  /\ IsFiniteSet(Tracked(s))
         /\ Cardinality(Tracked(s)) \in Nat
<1>1. Tracked(s) \in SUBSET Issues
  BY DEF Tracked
<1>2. IsFiniteSet(Tracked(s))
  BY <1>1, FS_Subset, DomainAssumption
<1> QED
  BY <1>2, FS_CardinalityType

\* The floored decrement and its repayment keep load + debt on course: the sum
\* drops by exactly one, which is what the deleted row accounts for.  A decrement
\* that the floor swallows has a debt to repay: the row was tracked.
LEMMA FloorDecRepays ==
  ASSUME LedgerInv, NEW i \in Issues, owner[i] # NoRow
  PROVE  /\ FloorDec(load[owner[i]]) \in Nat
         /\ Repaid(owner[i]) \in Nat
         /\ FloorDec(load[owner[i]]) + Repaid(owner[i])
              = load[owner[i]] + debt[owner[i]] - 1
<1> DEFINE s == owner[i]
<1>1. s \in Slots
  BY DEF LedgerInv, LedgerTypeOK
<1>2. Cardinality(Tracked(s)) \in Nat /\ Cardinality(Tracked(s)) # 0
  <2>1. i \in Tracked(s)
    BY DEF Tracked
  <2> QED
    BY <1>1, <2>1, TrackedFinite, FS_EmptySet
<1> HIDE DEF s
<1>3. /\ load[s] \in Nat /\ shadow[s] \in Nat /\ debt[s] \in Nat
      /\ load[s] = Cardinality(Tracked(s)) + shadow[s] - debt[s]
  BY <1>1 DEF LedgerInv, LedgerTypeOK, LoadAccounted
<1>4. /\ FloorDec(load[s]) \in Nat
      /\ Repaid(s) \in Nat
      /\ FloorDec(load[s]) + Repaid(s) = load[s] + debt[s] - 1
  BY <1>2, <1>3 DEF FloorDec, Repaid
<1> QED
  BY <1>4 DEF s

-----------------------------------------------------------------------------
\* INSERT of an untracked issue (repository.go:560) adds one row and one unit.
LEMMA InsertRowPreserves ==
  ASSUME LedgerInv, NEW s \in Slots, NEW i \in Issues,
         owner[i] = NoRow, InsertRow(s, i)
  PROVE  LedgerInv'
<1> USE DEF LedgerInv, Slots
<1>1. LedgerTypeOK'
  BY DEF LedgerTypeOK, InsertRow
<1>2. ASSUME NEW t \in Slots
      PROVE  Cardinality(Tracked(t)') =
               IF t = s THEN Cardinality(Tracked(t)) + 1 ELSE Cardinality(Tracked(t))
  <2>1. NoRow # t
    BY LedgerAssumption
  <2>2. Tracked(t)' = IF t = s THEN Tracked(t) \cup {i} ELSE Tracked(t)
    BY <2>1 DEF LedgerTypeOK, InsertRow, Tracked
  <2>3. i \notin Tracked(t)
    BY <2>1 DEF Tracked
  <2> QED
    BY <2>2, <2>3, TrackedFinite, FS_AddElement
<1>3. LoadAccounted'
  <2> SUFFICES ASSUME NEW t \in Slots
               PROVE  load'[t] = Cardinality(Tracked(t)') + shadow'[t] - debt'[t]
    BY DEF LoadAccounted
  <2>1. load'[t] = IF t = s THEN load[t] + 1 ELSE load[t]
    BY DEF LedgerTypeOK, InsertRow
  <2>2. Cardinality(Tracked(t)) \in Nat
    BY TrackedFinite
  <2> QED
    BY <1>2, <2>1, <2>2 DEF LoadAccounted, LedgerTypeOK, InsertRow
<1> QED
  BY <1>1, <1>3

\* DELETE of a row and the floored decrement of its slot (repository.go:618).
LEMMA DeleteRowPreserves ==
  ASSUME LedgerInv, NEW i \in Issues, owner[i] # NoRow, DecrementLoadForIssue(i)
  PROVE  LedgerInv'
<1> DEFINE old == owner[i]
<1> USE DEF LedgerInv
<1>1. /\ old \in Slots
      /\ owner' = [owner EXCEPT ![i] = NoRow]
      /\ load' = [load EXCEPT ![old] = FloorDec(@)]
      /\ debt' = [debt EXCEPT ![old] = Repaid(old)]
      /\ shadow' = shadow
  BY DEF DecrementLoadForIssue, LedgerTypeOK
<1> HIDE DEF old
<1>2. /\ FloorDec(load[old]) \in Nat /\ Repaid(old) \in Nat
      /\ FloorDec(load[old]) + Repaid(old) = load[old] + debt[old] - 1
  BY FloorDecRepays DEF old
<1>3. LedgerTypeOK'
  BY <1>1, <1>2 DEF LedgerTypeOK
<1>4. ASSUME NEW t \in Slots
      PROVE  Cardinality(Tracked(t)') =
               IF t = old THEN Cardinality(Tracked(t)) - 1 ELSE Cardinality(Tracked(t))
  <2>1. NoRow # t
    BY LedgerAssumption DEF Slots
  <2>2. Tracked(t)' = IF t = old THEN Tracked(t) \ {i} ELSE Tracked(t)
    BY <1>1, <2>1 DEF LedgerTypeOK, Tracked, old
  <2>3. t = old => i \in Tracked(t)
    BY DEF Tracked, old
  <2> QED
    BY <2>2, <2>3, TrackedFinite, FS_RemoveElement
<1>5. LoadAccounted'
  <2> SUFFICES ASSUME NEW t \in Slots
               PROVE  load'[t] = Cardinality(Tracked(t)') + shadow'[t] - debt'[t]
    BY DEF LoadAccounted
  <2>1. load'[t] = IF t = old THEN FloorDec(load[t]) ELSE load[t]
    BY <1>1 DEF LedgerTypeOK
  <2>2. debt'[t] = IF t = old THEN Repaid(t) ELSE debt[t]
    BY <1>1 DEF LedgerTypeOK
  <2>3. Cardinality(Tracked(t)) \in Nat
    BY TrackedFinite
  <2>4. t = old => /\ FloorDec(load[t]) \in Nat /\ Repaid(t) \in Nat
                   /\ FloorDec(load[t]) + Repaid(t) = load[t] + debt[t] - 1
    BY <1>2
  <2>5. load[t] \in Nat /\ shadow[t] \in Nat /\ debt[t] \in Nat
    BY DEF LedgerTypeOK
  <2>6. load[t] = Cardinality(Tracked(t)) + shadow[t] - debt[t]
    BY DEF LoadAccounted
  <2>7. shadow'[t] = shadow[t]
    BY <1>1
  <2>8. CASE t = old
    <3>1. Cardinality(Tracked(t)') = Cardinality(Tracked(t)) - 1
      BY <1>4, <2>8
    <3>2. load'[t] = FloorDec(load[t]) /\ debt'[t] = Repaid(t)
      BY <2>1, <2>2, <2>8
    <3> QED
      BY <2>3, <2>4, <2>5, <2>6, <2>7, <2>8, <3>1, <3>2
  <2>9. CASE t # old
    BY <1>4, <2>1, <2>2, <2>3, <2>5, <2>6, <2>7, <2>9
  <2> QED
    BY <2>8, <2>9
<1> QED
  BY <1>3, <1>5

\* Reassignment (repository.go:542-558): the old slot gives up a row and a unit,
\* the new slot gains both.
LEMMA MoveRowPreserves ==
  ASSUME LedgerInv, NEW s \in Slots, NEW i \in Issues,
         owner[i] # NoRow, owner[i][2] # s[2], MoveRow(s, i)
  PROVE  LedgerInv'
<1> DEFINE old == owner[i]
<1> USE DEF LedgerInv
<1>1. /\ old \in Slots
      /\ old # s
      /\ owner' = [owner EXCEPT ![i] = s]
      /\ load' = [load EXCEPT ![old] = FloorDec(@), ![s] = @ + 1]
      /\ debt' = [debt EXCEPT ![old] = Repaid(old)]
      /\ shadow' = shadow
  BY DEF MoveRow, LedgerTypeOK
<1> HIDE DEF old
<1>2. /\ FloorDec(load[old]) \in Nat /\ Repaid(old) \in Nat
      /\ FloorDec(load[old]) + Repaid(old) = load[old] + debt[old] - 1
  BY FloorDecRepays DEF old
<1>3. LedgerTypeOK'
  BY <1>1, <1>2 DEF LedgerTypeOK
<1>4. ASSUME NEW t \in Slots
      PROVE  Cardinality(Tracked(t)') =
               IF t = old THEN Cardinality(Tracked(t)) - 1
               ELSE IF t = s THEN Cardinality(Tracked(t)) + 1
               ELSE Cardinality(Tracked(t))
  <2>1. CASE t = old
    <3>1. Tracked(t)' = Tracked(t) \ {i} /\ i \in Tracked(t)
      BY <1>1, <2>1 DEF LedgerTypeOK, Tracked, old
    <3> QED
      BY <2>1, <3>1, TrackedFinite, FS_RemoveElement
  <2>2. CASE t = s
    <3>1. Tracked(t)' = Tracked(t) \cup {i} /\ i \notin Tracked(t)
      BY <1>1, <2>2 DEF LedgerTypeOK, Tracked, old
    <3> QED
      BY <1>1, <2>2, <3>1, TrackedFinite, FS_AddElement
  <2>3. CASE t # old /\ t # s
    <3>1. Tracked(t)' = Tracked(t)
      BY <1>1, <2>3 DEF LedgerTypeOK, Tracked, old
    <3> QED
      BY <2>3, <3>1
  <2> QED
    BY <2>1, <2>2, <2>3
<1>5. LoadAccounted'
  <2> SUFFICES ASSUME NEW t \in Slots
               PROVE  load'[t] = Cardinality(Tracked(t)') + shadow'[t] - debt'[t]
    BY DEF LoadAccounted
  <2>1. load'[t] = IF t = old THEN FloorDec(load[t])
                   ELSE IF t = s THEN load[t] + 1
                   ELSE load[t]
    BY <1>1 DEF LedgerTypeOK
  <2>2. debt'[t] = IF t = old THEN Repaid(t) ELSE debt[t]
    BY <1>1 DEF LedgerTypeOK
  <2>3. Cardinality(Tracked(t)) \in Nat
    BY TrackedFinite
  <2>4. t = old => /\ FloorDec(load[t]) \in Nat /\ Repaid(t) \in Nat
                   /\ FloorDec(load[t]) + Repaid(t) = load[t] + debt[t] - 1
    BY <1>2
  <2>5. load[t] \in Nat /\ shadow[t] \in Nat /\ debt[t] \in Nat
    BY DEF LedgerTypeOK
  <2>6. load[t] = Cardinality(Tracked(t)) + shadow[t] - debt[t]
    BY DEF LoadAccounted
  <2>7. shadow'[t] = shadow[t]
    BY <1>1
  <2>8. CASE t = old
    BY <1>1, <1>4, <2>1, <2>2, <2>3, <2>4, <2>5, <2>6, <2>7, <2>8
  <2>9. CASE t # old
    BY <1>4, <2>1, <2>2, <2>3, <2>5, <2>6, <2>7, <2>9
  <2> QED
    BY <2>8, <2>9
<1> QED
  BY <1>3, <1>5

\* The three branches of IncrementLoadForIssue (repository.go:519-593).
LEMMA IncrementPreserves ==
  ASSUME LedgerInv, NEW s \in Slots, NEW i \in Issues, IncrementLoadForIssue(s, i)
  PROVE  LedgerInv'
<1>1. CASE UNCHANGED ledgerVars
  BY <1>1 DEF ledgerVars, LedgerInv, LedgerTypeOK, LoadAccounted, Tracked
<1>2. CASE owner[i] # NoRow /\ owner[i][2] # s[2] /\ MoveRow(s, i)
  BY <1>2, MoveRowPreserves
<1>3. CASE owner[i] = NoRow /\ InsertRow(s, i)
  BY <1>3, InsertRowPreserves
<1> QED
  BY <1>1, <1>2, <1>3 DEF IncrementLoadForIssue

\* The two branches of DecrementLoadForIssue (repository.go:595-641).
LEMMA DecrementPreserves ==
  ASSUME LedgerInv, NEW i \in Issues, DecrementLoadForIssue(i)
  PROVE  LedgerInv'
<1>1. CASE UNCHANGED ledgerVars
  BY <1>1 DEF ledgerVars, LedgerInv, LedgerTypeOK, LoadAccounted, Tracked
<1>2. CASE owner[i] # NoRow
  BY <1>2, DeleteRowPreserves
<1> QED
  BY <1>1, <1>2 DEF DecrementLoadForIssue

\* The fallback decrement takes a unit without a row and books it as debt.
LEMMA FallbackPreserves ==
  ASSUME LedgerInv, NEW a \in Assignees, DecrementAssigneeGlobalLoad(a)
  PROVE  LedgerInv'
<1> USE DEF LedgerInv
<1>1. CASE UNCHANGED ledgerVars
  BY <1>1 DEF ledgerVars, LedgerTypeOK, LoadAccounted, Tracked
<1>2. CASE \E g \in Groups :
             /\ load[<<g, a>>] > 0
             /\ load' = [load EXCEPT ![<<g, a>>] = @ - 1]
             /\ debt' = [debt EXCEPT ![<<g, a>>] = @ + 1]
             /\ UNCHANGED <<owner, shadow>>
  <2>1. PICK g \in Groups :
             /\ load[<<g, a>>] > 0
             /\ load' = [load EXCEPT ![<<g, a>>] = @ - 1]
             /\ debt' = [debt EXCEPT ![<<g, a>>] = @ + 1]
             /\ UNCHANGED <<owner, shadow>>
    BY <1>2
  <2> DEFINE slot == <<g, a>>
  <2>2. slot \in Slots
    BY DEF Slots
  <2> HIDE DEF slot
  <2>3. /\ load[slot] > 0
        /\ load' = [load EXCEPT ![slot] = @ - 1]
        /\ debt' = [debt EXCEPT ![slot] = @ + 1]
        /\ owner' = owner
        /\ shadow' = shadow
    BY <2>1 DEF slot
  <2>4. LedgerTypeOK'
    BY <2>2, <2>3 DEF LedgerTypeOK
  <2>5. LoadAccounted'
    <3> SUFFICES ASSUME NEW t \in Slots
                 PROVE  load'[t] = Cardinality(Tracked(t)') + shadow'[t] - debt'[t]
      BY DEF LoadAccounted
    <3>1. Tracked(t)' = Tracked(t)
      BY <2>3 DEF Tracked
    <3>2. Cardinality(Tracked(t)) \in Nat
      BY TrackedFinite
    <3> QED
      BY <2>2, <2>3, <3>1, <3>2 DEF LoadAccounted, LedgerTypeOK
  <2> QED
    BY <2>4, <2>5
<1> QED
  BY <1>1, <1>2 DEF DecrementAssigneeGlobalLoad

\* A sync (repository.go:657-726) resets the equation of its slot and leaves the
\* rows of every other slot alone.
LEMMA SyncPreserves ==
  ASSUME LedgerInv, NEW s \in Slots, NEW keys \in SUBSET Issues,
         NEW dup \in 0..MaxPageDup, SyncAssigneeIssues(s, keys, dup)
  PROVE  LedgerInv'
<1> DEFINE foreign == {i \in keys : owner[i] \notin {NoRow, s}}
<1> USE DEF LedgerInv
<1>1. /\ owner' = [i \in Issues |->
                    IF i \in keys \ foreign THEN s
                    ELSE IF owner[i] = s THEN NoRow ELSE owner[i]]
      /\ load' = [load EXCEPT ![s] = Cardinality(keys) + dup]
      /\ shadow' = [shadow EXCEPT ![s] = Cardinality(foreign) + dup]
      /\ debt' = [debt EXCEPT ![s] = 0]
  BY DEF SyncAssigneeIssues
<1>2. dup \in Nat
  BY LedgerAssumption
<1>3. /\ IsFiniteSet(keys)
      /\ Cardinality(keys) \in Nat
  BY FS_Subset, FS_CardinalityType, DomainAssumption
<1>4. /\ IsFiniteSet(foreign)
      /\ Cardinality(foreign) \in Nat
  <2>1. foreign \in SUBSET keys
    OBVIOUS
  <2> QED
    BY <1>3, <2>1, FS_Subset, FS_CardinalityType
<1>5. LedgerTypeOK'
  BY <1>1, <1>2, <1>3, <1>4 DEF LedgerTypeOK
<1>6. Cardinality(Tracked(s)') = Cardinality(keys) - Cardinality(foreign)
  <2>1. NoRow # s
    BY LedgerAssumption DEF Slots
  <2>2. Tracked(s)' = keys \ foreign
    BY <1>1, <2>1 DEF Tracked
  <2>3. keys \cap foreign = foreign
    OBVIOUS
  <2> HIDE DEF foreign
  <2> QED
    BY <1>3, <2>2, <2>3, FS_Difference
<1>7. ASSUME NEW t \in Slots, t # s
      PROVE  Tracked(t)' = Tracked(t)
  <2>1. NoRow # t
    BY LedgerAssumption DEF Slots
  <2> QED
    BY <1>1, <1>7, <2>1 DEF Tracked
<1> HIDE DEF foreign
<1>8. LoadAccounted'
  <2> SUFFICES ASSUME NEW t \in Slots
               PROVE  load'[t] = Cardinality(Tracked(t)') + shadow'[t] - debt'[t]
    BY DEF LoadAccounted
  <2>1. CASE t = s
    BY <1>1, <1>2, <1>3, <1>4, <1>6, <2>1 DEF LedgerTypeOK
  <2>2. CASE t # s
    BY <1>1, <1>7, <2>2 DEF LoadAccounted, LedgerTypeOK
  <2> QED
    BY <2>1, <2>2
<1> QED
  BY <1>5, <1>8

-----------------------------------------------------------------------------
\* The invariant is inductive.
LEMMA LedgerInvInit == LedgerInit => LedgerInv
<1> SUFFICES ASSUME LedgerInit PROVE LedgerInv
  OBVIOUS
<1>1. LedgerTypeOK
  BY DEF LedgerInit, LedgerTypeOK
<1>2. ASSUME NEW s \in Slots
      PROVE  load[s] = Cardinality(Tracked(s)) + shadow[s] - debt[s]
  <2>1. Tracked(s) = {}
    BY LedgerAssumption DEF LedgerInit, Tracked, Slots
  <2> QED
    BY <2>1, FS_EmptySet DEF LedgerInit
<1> QED
  BY <1>1, <1>2 DEF LedgerInv, LoadAccounted

LEMMA LedgerInvStep == LedgerInv /\ [LedgerNext]_ledgerVars => LedgerInv'
<1> SUFFICES ASSUME LedgerInv, [LedgerNext]_ledgerVars PROVE LedgerInv'
  OBVIOUS
<1>1. ASSUME NEW s \in Slots, NEW i \in Issues, IncrementLoadForIssue(s, i)
      PROVE  LedgerInv'
  BY <1>1, IncrementPreserves
<1>2. ASSUME NEW i \in Issues, DecrementLoadForIssue(i)
      PROVE  LedgerInv'
  BY <1>2, DecrementPreserves
<1>3. ASSUME NEW a \in Assignees, DecrementAssigneeGlobalLoad(a)
      PROVE  LedgerInv'
  BY <1>3, FallbackPreserves
<1>4. ASSUME NEW s \in Slots, NEW keys \in SUBSET Issues, NEW dup \in 0..MaxPageDup,
             SyncAssigneeIssues(s, keys, dup)
      PROVE  LedgerInv'
  BY <1>4, SyncPreserves
<1>5. CASE UNCHANGED ledgerVars
  BY <1>5 DEF ledgerVars, LedgerInv, LedgerTypeOK, LoadAccounted, Tracked
<1> QED
  BY <1>1, <1>2, <1>3, <1>4, <1>5 DEF LedgerNext

LEMMA LedgerInvariant == LedgerSpec => []LedgerInv
BY LedgerInvInit, LedgerInvStep, PTL DEF LedgerSpec

\* Type correctness of the two tables and the ghosts.
THEOREM LedgerTyped == LedgerSpec => []LedgerTypeOK
<1>1. LedgerInv => LedgerTypeOK
  BY DEF LedgerInv
<1> QED
  BY <1>1, LedgerInvariant, PTL

\* The conservation law of repository.go holds after every sequence of calls.
THEOREM LedgerConserved == LedgerSpec => []LoadAccounted
<1>1. LedgerInv => LoadAccounted
  BY DEF LedgerInv
<1> QED
  BY <1>1, LedgerInvariant, PTL

\* Repeated calls for one issue never inflate a counter (the claim of
\* production_bugs_test.go:128): outside a sync a counter grows by one, with a
\* newly tracked issue.
THEOREM LedgerGrowth == LedgerSpec => LoadGrowsOnlyWithTracking
<1> DEFINE Grows == \A s \in Slots :
       load'[s] > load[s] =>
         \/ \E keys \in SUBSET Issues, dup \in 0..MaxPageDup :
              SyncAssigneeIssues(s, keys, dup)
         \/ /\ load'[s] = load[s] + 1
            /\ \E i \in Issues : owner[i] # s /\ owner'[i] = s
<1>1. LedgerTypeOK /\ [LedgerNext]_ledgerVars => [Grows]_ledgerVars
  <2> SUFFICES ASSUME LedgerTypeOK, LedgerNext, NEW s \in Slots, load'[s] > load[s]
               PROVE  \/ \E keys \in SUBSET Issues, dup \in 0..MaxPageDup :
                           SyncAssigneeIssues(s, keys, dup)
                      \/ /\ load'[s] = load[s] + 1
                         /\ \E i \in Issues : owner[i] # s /\ owner'[i] = s
    OBVIOUS
  <2>1. ASSUME NEW t \in Slots, NEW i \in Issues, IncrementLoadForIssue(t, i)
        PROVE  load'[s] = load[s] + 1 /\ owner[i] # s /\ owner'[i] = s
    <3>1. ~ UNCHANGED ledgerVars
      BY DEF ledgerVars, LedgerTypeOK
    <3>2. CASE owner[i] # NoRow /\ owner[i][2] # t[2] /\ MoveRow(t, i)
      <4>1. owner[i] \in Slots /\ owner[i] # t
        BY <3>2 DEF LedgerTypeOK
      <4>2. FloorDec(load[owner[i]]) \in Nat /\ FloorDec(load[owner[i]]) <= load[owner[i]]
        BY <4>1 DEF LedgerTypeOK, FloorDec
      <4>3. load' = [load EXCEPT ![owner[i]] = FloorDec(@), ![t] = @ + 1]
            /\ owner' = [owner EXCEPT ![i] = t]
        BY <3>2 DEF MoveRow
      <4>4. s = t
        BY <4>1, <4>2, <4>3 DEF LedgerTypeOK
      <4> QED
        BY <4>1, <4>3, <4>4 DEF LedgerTypeOK
    <3>3. CASE owner[i] = NoRow /\ InsertRow(t, i)
      <4>1. owner[i] # t
        BY <3>3, LedgerAssumption DEF Slots
      <4>2. s = t
        BY <3>3 DEF InsertRow, LedgerTypeOK
      <4> QED
        BY <3>3, <4>1, <4>2 DEF InsertRow, LedgerTypeOK
    <3> QED
      BY <2>1, <3>1, <3>2, <3>3 DEF IncrementLoadForIssue
  <2>2. ASSUME NEW i \in Issues, DecrementLoadForIssue(i)
        PROVE  FALSE
    <3>1. ~ UNCHANGED ledgerVars
      BY DEF ledgerVars, LedgerTypeOK
    <3>2. /\ owner[i] \in Slots
          /\ load' = [load EXCEPT ![owner[i]] = FloorDec(@)]
      BY <2>2, <3>1 DEF DecrementLoadForIssue, LedgerTypeOK
    <3>3. FloorDec(load[owner[i]]) \in Nat /\ FloorDec(load[owner[i]]) <= load[owner[i]]
      BY <3>2 DEF LedgerTypeOK, FloorDec
    <3> QED
      BY <3>2, <3>3 DEF LedgerTypeOK
  <2>3. ASSUME NEW a \in Assignees, DecrementAssigneeGlobalLoad(a)
        PROVE  FALSE
    <3>1. ~ UNCHANGED ledgerVars
      BY DEF ledgerVars, LedgerTypeOK
    <3>2. PICK g \in Groups : load' = [load EXCEPT ![<<g, a>>] = @ - 1]
      BY <2>3, <3>1 DEF DecrementAssigneeGlobalLoad
    <3>3. <<g, a>> \in Slots
      BY DEF Slots
    <3> QED
      BY <3>2, <3>3 DEF LedgerTypeOK
  <2>4. ASSUME NEW t \in Slots, NEW keys \in SUBSET Issues, NEW dup \in 0..MaxPageDup,
               SyncAssigneeIssues(t, keys, dup)
        PROVE  SyncAssigneeIssues(s, keys, dup)
    <3>1. s = t
      BY <2>4 DEF SyncAssigneeIssues, LedgerTypeOK
    <3> QED
      BY <2>4, <3>1
  <2> QED
    BY <2>1, <2>2, <2>3, <2>4 DEF LedgerNext
<1> QED
  BY <1>1, LedgerTyped, PTL DEF LedgerSpec, LoadGrowsOnlyWithTracking

\* The group charged for an issue is the group credited for it: a tracked issue
\* moves only to another assignee, never between two groups of one.
THEOREM LedgerGroupSticky == LedgerSpec => GroupSticky
<1> DEFINE Sticky == \A i \in Issues :
       (owner[i] # NoRow /\ owner'[i] # NoRow /\ owner[i] # owner'[i])
         => owner[i][2] # owner'[i][2]
<1>1. LedgerTypeOK /\ [LedgerNext]_ledgerVars => [Sticky]_ledgerVars
  <2> SUFFICES ASSUME LedgerTypeOK, LedgerNext, NEW i \in Issues,
                      owner[i] # NoRow, owner'[i] # NoRow, owner[i] # owner'[i]
               PROVE  owner[i][2] # owner'[i][2]
    OBVIOUS
  <2>1. ASSUME NEW s \in Slots, NEW j \in Issues, IncrementLoadForIssue(s, j)
        PROVE  owner[i][2] # owner'[i][2]
    <3>1. CASE UNCHANGED ledgerVars
      BY <3>1 DEF ledgerVars
    <3>2. CASE owner[j] # NoRow /\ owner[j][2] # s[2] /\ MoveRow(s, j)
      <4>1. owner' = [owner EXCEPT ![j] = s]
        BY <3>2 DEF MoveRow
      <4>2. i = j /\ owner'[i] = s
        BY <4>1 DEF LedgerTypeOK
      <4> QED
        BY <3>2, <4>2
    <3>3. CASE owner[j] = NoRow /\ InsertRow(s, j)
      BY <3>3 DEF InsertRow, LedgerTypeOK
    <3> QED
      BY <2>1, <3>1, <3>2, <3>3 DEF IncrementLoadForIssue
  <2>2. ASSUME NEW j \in Issues, DecrementLoadForIssue(j)
        PROVE  FALSE
    <3>1. owner' = owner \/ owner' = [owner EXCEPT ![j] = NoRow]
      BY <2>2 DEF DecrementLoadForIssue, ledgerVars
    <3> QED
      BY <3>1 DEF LedgerTypeOK
  <2>3. ASSUME NEW a \in Assignees, DecrementAssigneeGlobalLoad(a)
        PROVE  FALSE
    BY <2>3 DEF DecrementAssigneeGlobalLoad, ledgerVars
  <2>4. ASSUME NEW s \in Slots, NEW keys \in SUBSET Issues, NEW dup \in 0..MaxPageDup,
               SyncAssigneeIssues(s, keys, dup)
        PROVE  FALSE
    BY <2>4 DEF SyncAssigneeIssues
  <2> QED
    BY <2>1, <2>2, <2>3, <2>4 DEF LedgerNext
<1> QED
  BY <1>1, LedgerTyped, PTL DEF LedgerSpec, GroupSticky

-----------------------------------------------------------------------------
PendingInv == PendingTypeOK /\ PendingUnique

\* A delete keeps the invariant: it only removes rows.
LEMMA DeletePreserves ==
  ASSUME PendingInv, pending' \in SUBSET pending, lastPendingId' = lastPendingId
  PROVE  PendingInv'
BY DEF PendingInv, PendingTypeOK, PendingUnique

\* What an insert may add: the next id, and a stamp that is not much older.
LEMMA NewRowFits ==
  ASSUME lastPendingId \in Nat, NEW i \in Issues, NEW g \in Groups, NEW new \in NewRows(i, g)
  PROVE  /\ new \in PendingRow /\ new.id = lastPendingId + 1 /\ new.key = i /\ new.group = g
         /\ new.at \in (new.id - MaxStampLag)..new.id
BY PendingAssumption DEF NewRows, PendingRow

\* An insert takes an id above every id in the table, for an issue without a row.
LEMMA EnqueuePreserves ==
  ASSUME PendingInv, NEW i \in Issues, NEW g \in Groups, EnqueuePending(i, g)
  PROVE  PendingInv'
<1>1. CASE UNCHANGED pendingVars
  BY <1>1 DEF pendingVars, PendingInv, PendingTypeOK, PendingUnique
<1>2. ASSUME ~IsPending(i), lastPendingId' = lastPendingId + 1,
             NEW new \in NewRows(i, g), pending' = pending \cup {new}
      PROVE  PendingInv'
  <2>1. /\ lastPendingId \in Nat
        /\ new \in PendingRow /\ new.id = lastPendingId + 1 /\ new.key = i
        /\ new.at \in (new.id - MaxStampLag)..new.id
    BY NewRowFits DEF PendingInv, PendingTypeOK
  <2>2. PendingTypeOK'
    BY <1>2, <2>1 DEF PendingInv, PendingTypeOK
  <2>3. \A r \in pending : r.id \in 1..lastPendingId /\ r.key # i
    BY <1>2 DEF PendingInv, PendingUnique, IsPending
  <2>4. PendingUnique'
    BY <1>2, <2>1, <2>3 DEF PendingInv, PendingUnique
  <2> QED
    BY <2>2, <2>4 DEF PendingInv
<1> QED
  BY <1>1, <1>2 DEF EnqueuePending

LEMMA PendingInvStep == PendingInv /\ [PendingCall]_pendingVars => PendingInv'
<1> SUFFICES ASSUME PendingInv, [PendingCall]_pendingVars PROVE PendingInv'
  OBVIOUS
<1>1. ASSUME NEW i \in Issues, NEW g \in Groups, EnqueuePending(i, g)
      PROVE  PendingInv'
  BY <1>1, EnqueuePreserves
<1>2. ASSUME NEW n \in 1..lastPendingId, MarkPendingAssigned(n)
      PROVE  PendingInv'
  BY <1>2, DeletePreserves DEF MarkPendingAssigned
<1>3. ASSUME NEW i \in Issues, RemovePendingByIssueKey(i)
      PROVE  PendingInv'
  BY <1>3, DeletePreserves DEF RemovePendingByIssueKey
<1>4. CASE UNCHANGED pendingVars
  BY <1>4, DeletePreserves DEF pendingVars
<1> QED
  BY <1>1, <1>2, <1>3, <1>4 DEF PendingCall

LEMMA PendingInvariant == PendingSpec => []PendingInv
<1>1. PendingInit => PendingInv
  BY DEF PendingInit, PendingInv, PendingTypeOK, PendingUnique
<1> QED
  BY <1>1, PendingInvStep, PTL DEF PendingSpec

\* Type correctness of the table, whoever calls.
THEOREM PendingTyped == PendingSpec => []PendingTypeOK
<1>1. PendingInv => PendingTypeOK
  BY DEF PendingInv
<1> QED
  BY <1>1, PendingInvariant, PTL

\* An issue waits at most once, and an id names one row for ever: what makes the
\* worker's delete by a remembered id safe against a row enqueued meanwhile.
THEOREM PendingRowsUnique == PendingSpec => []PendingUnique
<1>1. PendingInv => PendingUnique
  BY DEF PendingInv
<1> QED
  BY <1>1, PendingInvariant, PTL

\* No operation lets a ticket overtake another or lose its place.
THEOREM PendingFirstComeFirstServed == PendingSpec => KeepsPlace
<1> DEFINE Keeps ==
      /\ \A r \in pending : (\E q \in pending' : q.key = r.key) => r \in pending'
      /\ \A q \in pending' \ pending, r \in pending :
           r.id < q.id - MaxStampLag => r.at < q.at
<1>1. PendingInv /\ [PendingCall]_pendingVars => [Keeps]_pendingVars
  <2> SUFFICES ASSUME PendingInv, PendingCall PROVE Keeps
    OBVIOUS
  <2>1. ASSUME pending' \in SUBSET pending
        PROVE  Keeps
    BY <2>1 DEF PendingInv, PendingUnique
  <2>2. ASSUME NEW i \in Issues, NEW g \in Groups, EnqueuePending(i, g)
        PROVE  Keeps
    <3>1. CASE UNCHANGED pendingVars
      BY <2>1, <3>1 DEF pendingVars
    <3>2. ASSUME NEW new \in NewRows(i, g), pending' = pending \cup {new}
          PROVE  Keeps
      <4>1. new.id \in Nat /\ new.at \in (new.id - MaxStampLag)..new.id
        BY NewRowFits DEF PendingInv, PendingTypeOK, PendingRow
      <4>2. \A r \in pending : r.id \in Nat /\ r.at \in (r.id - MaxStampLag)..r.id
        BY DEF PendingInv, PendingTypeOK, PendingRow
      <4>3. \A r \in pending : r.id < new.id - MaxStampLag => r.at < new.at
        BY <4>1, <4>2, PendingAssumption
      <4> QED
        BY <3>2, <4>3
    <3> QED
      BY <2>2, <3>1, <3>2 DEF EnqueuePending
  <2>3. ASSUME NEW n \in 1..lastPendingId, MarkPendingAssigned(n)
        PROVE  Keeps
    BY <2>1, <2>3 DEF MarkPendingAssigned
  <2>4. ASSUME NEW i \in Issues, RemovePendingByIssueKey(i)
        PROVE  Keeps
    BY <2>1, <2>4 DEF RemovePendingByIssueKey
  <2> QED
    BY <2>2, <2>3, <2>4 DEF PendingCall
<1> QED
  BY <1>1, PendingInvariant, PTL DEF PendingSpec, KeepsPlace
=============================================================================
