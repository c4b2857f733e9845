--------------------------- MODULE SelectionProofs ---------------------------
(***************************************************************************)
(* What Schedule and Balancing promise for every schedule, every number of *)
(* members and dispatchers, and every limit.                               *)
(***************************************************************************)
EXTENDS Schedule, Balancing, FiniteSetTheorems, TLAPS

-----------------------------------------------------------------------------
(* Schedule *)

\* The ghost never runs ahead of the clock.
ScheduleInv == ScheduleTypeOK /\ idle <= now

LEMMA DefaultedComplete ==
  ASSUME NEW s \in WrittenSchedule
  PROVE  Defaulted(s) \in [zone : Zones, days : (SUBSET Int) \ {{}},
                           start : Minutes, end : Minutes]
<1>1. DayLength \in Nat \ {0}
  BY ScheduleAssumption
<1>2. 0 \in Minutes /\ DayLength - 1 \in Minutes /\ 0 \in Zones
  BY <1>1 DEF Minutes, Zones
<1>3. 1..5 \in (SUBSET Int) \ {{}}
  <2>1. 1..5 \subseteq Int
    OBVIOUS
  <2>2. 1 \in 1..5
    OBVIOUS
  <2> QED BY <2>1, <2>2
<1> QED BY <1>2, <1>3 DEF Defaulted, WrittenSchedule

\* The schedule of the group is complete in every reachable state.
THEOREM SchedulesComplete == ScheduleSpec => []ScheduleTypeOK
<1>1. ScheduleInit => ScheduleInv
  <2>1. Horizon \in Nat /\ GroupSchedules \subseteq WrittenSchedule
    BY ScheduleAssumption
  <2> QED BY <2>1, DefaultedComplete DEF ScheduleInit, ScheduleInv, ScheduleTypeOK
<1>2. ScheduleInv /\ [ScheduleNext]_scheduleVars => ScheduleInv'
  <2> SUFFICES ASSUME ScheduleInv, [ScheduleNext]_scheduleVars
               PROVE  ScheduleInv'
    OBVIOUS
  <2> USE DEF ScheduleInv, ScheduleTypeOK
  <2>1. Horizon \in Nat
    BY ScheduleAssumption
  <2>2. CASE ScheduleNext
    <3>1. now' \in 0..Horizon /\ UNCHANGED <<group, own, absences>>
      BY <2>1, <2>2 DEF ScheduleNext, ClockTick
    <3>2. idle' \in 0..Horizon /\ idle' <= now'
      BY <2>1, <2>2 DEF ScheduleNext, ClockTick
    <3> QED BY <3>1, <3>2
  <2>3. CASE UNCHANGED scheduleVars
    BY <2>3 DEF scheduleVars
  <2> QED BY <2>2, <2>3
<1>3. ScheduleInv => ScheduleTypeOK
  BY DEF ScheduleInv
<1> QED BY <1>1, <1>2, <1>3, PTL DEF ScheduleSpec

LEMMA InForceTyped ==
  ASSUME ScheduleTypeOK
  PROVE  /\ InForce \in WrittenSchedule
         /\ InForce.zone \in Int \cup {Missing}
         /\ InForce.start # Missing =>
              InForce.start \in Minutes /\ InForce.end \in Minutes
<1> Zones \subseteq Int
  BY ScheduleAssumption DEF Zones
<1>1. CASE own = Missing
  BY <1>1 DEF InForce, ScheduleTypeOK, WrittenSchedule
<1>2. CASE own # Missing
  <2>1. own \in WrittenSchedule /\ HoursValid(own)
    BY <1>2, ScheduleAssumption DEF ScheduleTypeOK
  <2> QED BY <1>2, <2>1 DEF InForce, HoursValid, WrittenSchedule
<1> QED BY <1>1, <1>2

LEMMA LocalTyped ==
  ASSUME NEW s, NEW t \in Int, s.zone \in Int \cup {Missing}
  PROVE  MinuteOfDay(s, t) \in Minutes /\ LocalDay(s, t) \in Int
<1>1. DayLength \in Nat \ {0}
  BY ScheduleAssumption
<1>2. Local(s, t) \in Int
  BY DEF Local
<1>3. \A l \in Int : l % DayLength \in 0..DayLength - 1 /\ l \div DayLength \in Int
  BY <1>1
<1> QED BY <1>2, <1>3 DEF MinuteOfDay, LocalDay, Minutes

\* Hours and weekdays alone decide the comparison.
LEMMA HoursAgree ==
  ASSUME NEW s, NEW t, s.start # Missing,
         s.start \in Minutes, s.end \in Minutes,
         MinuteOfDay(s, t) \in Minutes, LocalDay(s, t) \in Int
  PROVE  ~(Scheduled(s, t) <=> OnShift(s, t)) =>
            /\ Overnight(s)
            /\ MinuteOfDay(s, t) <= s.end
            /\ ~(WorkDay(s, t, 0) <=> WorkDay(s, t, 1))
<1> DEFINE m == MinuteOfDay(s, t)
<1>0. DayLength \in Nat \ {0}
  BY ScheduleAssumption
<1>1. Scheduled(s, t) <=> (WorkDay(s, t, 0) /\ InHours(s, m))
  <2>1. LocalDay(s, t) - 0 = LocalDay(s, t)
    OBVIOUS
  <2> QED BY <2>1 DEF Scheduled, WorkDay
<1>2. OnShift(s, t) <=> \/ WorkDay(s, t, 0) /\ m \in Span(s)
                        \/ WorkDay(s, t, 1) /\ m + DayLength \in Span(s)
  <2>1. m + 0 * DayLength = m /\ m + 1 * DayLength = m + DayLength
    BY <1>0 DEF Minutes
  <2> QED BY <2>1 DEF OnShift, WorkDay
<1> HIDE DEF m
<1>3. m \in Minutes
  BY DEF m
<1>4. CASE ~Overnight(s)
  <2>1. m \in Span(s) <=> InHours(s, m)
    BY <1>3, <1>4 DEF Span, InHours, Overnight, Minutes
  <2>2. m + DayLength \notin Span(s)
    BY <1>0, <1>3, <1>4 DEF Span, Overnight, Minutes
  <2> QED BY <1>1, <1>2, <2>1, <2>2
<1>5. CASE Overnight(s)
  <2>1. m \in Span(s) <=> m >= s.start
    BY <1>0, <1>3, <1>5 DEF Span, Overnight, Minutes
  <2>2. m + DayLength \in Span(s) <=> m <= s.end
    BY <1>0, <1>3, <1>5 DEF Span, Overnight, Minutes
  <2>3. InHours(s, m) <=> m >= s.start \/ m <= s.end
    BY <1>5 DEF InHours
  <2> QED BY <1>1, <1>2, <1>5, <2>1, <2>2, <2>3 DEF m
<1> QED BY <1>4, <1>5

LEMMA TypedAgrees == ScheduleTypeOK => ShiftAgrees
<1> SUFFICES ASSUME ScheduleTypeOK, InForce.start # Missing
             PROVE  ~(Scheduled(InForce, now) <=> OnShift(InForce, now)) =>
                      /\ Overnight(InForce)
                      /\ MinuteOfDay(InForce, now) <= InForce.end
                      /\ ~(WorkDay(InForce, now, 0) <=> WorkDay(InForce, now, 1))
  BY DEF ShiftAgrees
<1>1. now \in Int
  BY ScheduleAssumption DEF ScheduleTypeOK
<1>2. InForce.zone \in Int \cup {Missing}
  BY InForceTyped
<1> QED BY <1>1, <1>2, InForceTyped, LocalTyped, HoursAgree

\* Looking up today's weekday and looking up the day a shift began on differ
\* only after midnight of an overnight shift next to a day off, whatever the
\* hours, the days, the zone and the length of a day.
THEOREM WeekdayAfterMidnight == ScheduleSpec => []ShiftAgrees
BY SchedulesComplete, TypedAgrees, PTL

\* The hours of a shift and of its relief divide the day.
LEMMA ReliefDivides ==
  ASSUME NEW s \in WrittenSchedule, s.start \in Minutes, s.end \in Minutes,
         Relief(s).start # s.start, NEW m \in Minutes
  PROVE  ~(InHours(s, m) <=> InHours(Relief(s), m))
<1>0. DayLength \in Nat \ {0} /\ Missing \notin Minutes
  BY ScheduleAssumption DEF Minutes
<1> DEFINE a == (s.end + 1) % DayLength
           b == (s.start - 1) % DayLength
<1>1. Relief(s).start = a /\ Relief(s).end = b
  BY DEF Relief, WrittenSchedule
<1>2. a = IF s.end = DayLength - 1 THEN 0 ELSE s.end + 1
  BY <1>0 DEF Minutes
<1>3. b = IF s.start = 0 THEN DayLength - 1 ELSE s.start - 1
  BY <1>0 DEF Minutes
<1>4. a \in Minutes /\ b \in Minutes /\ a # s.start
  BY <1>0, <1>1, <1>2, <1>3 DEF Minutes
<1> HIDE DEF a, b
<1>5. InHours(s, m) <=> \/ s.start <= s.end /\ s.start <= m /\ m <= s.end
                        \/ s.start > s.end /\ (m >= s.start \/ m <= s.end)
  BY <1>0 DEF InHours, Overnight, Minutes
<1>6. InHours(Relief(s), m) <=> \/ a <= b /\ a <= m /\ m <= b
                                \/ a > b /\ (m >= a \/ m <= b)
  BY <1>0, <1>1, <1>4 DEF InHours, Overnight, Minutes
<1> QED BY <1>0, <1>2, <1>3, <1>4, <1>5, <1>6 DEF Minutes

LEMMA TypedHandover == ScheduleTypeOK => HandoverComplete
<1> DEFINE s == InForce
<1> SUFFICES ASSUME ScheduleTypeOK, s.start # Missing,
                    Relief(s).start # s.start, WorkDay(s, now, 0)
             PROVE  ~(Scheduled(s, now) <=> Scheduled(Relief(s), now))
  BY DEF HandoverComplete
<1>1. now \in Int /\ s \in WrittenSchedule /\ s.zone \in Int \cup {Missing}
  BY ScheduleAssumption, InForceTyped DEF ScheduleTypeOK
<1>2. s.start \in Minutes /\ s.end \in Minutes
  BY InForceTyped
<1> HIDE DEF s
<1>3. Relief(s).zone = s.zone /\ Relief(s).days = s.days
  BY <1>1 DEF Relief, WrittenSchedule
<1>4. /\ MinuteOfDay(s, now) \in Minutes /\ LocalDay(s, now) \in Int
      /\ MinuteOfDay(Relief(s), now) = MinuteOfDay(s, now)
      /\ LocalDay(Relief(s), now) = LocalDay(s, now)
  BY <1>1, <1>3, LocalTyped DEF WrittenSchedule, MinuteOfDay, LocalDay, Local
<1>5. LocalDay(s, now) - 0 = LocalDay(s, now)
  BY <1>4
<1>6. Scheduled(s, now) <=> InHours(s, MinuteOfDay(s, now))
  BY <1>5 DEF Scheduled, WorkDay
<1>7. Scheduled(Relief(s), now) <=> InHours(Relief(s), MinuteOfDay(s, now))
  BY <1>3, <1>4, <1>5 DEF Scheduled, WorkDay
<1> QED BY <1>1, <1>2, <1>4, <1>6, <1>7, ReliefDivides

\* A shift and its relief divide every working day without gap or overlap.
THEOREM HandoverWithoutGap == ScheduleSpec => []HandoverComplete
BY SchedulesComplete, TypedHandover, PTL

-----------------------------------------------------------------------------
(* The calendar *)

LEMMA ProductsOrdered ==
  ASSUME NEW a \in Int, NEW b \in Int, a <= b, NEW n \in Nat
  PROVE  a * n <= b * n
<1>1. (b - a) * n >= 0
  OBVIOUS
<1> QED BY <1>1

\* A unit lies in the day whose first unit it has passed, and in no other.
LEMMA DayOfUnit ==
  ASSUME NEW t \in Int, NEW d \in Int
  PROVE  /\ t \div DayLength >= d <=> t >= d * DayLength
         /\ t \div DayLength <= d <=> t <= d * DayLength + DayLength - 1
<1> DEFINE q == t \div DayLength
<1>0. DayLength \in Nat \ {0}
  BY ScheduleAssumption
<1>1. q \in Int /\ q * DayLength <= t /\ t < q * DayLength + DayLength
  BY <1>0
<1> HIDE DEF q
<1>2. \A a, b \in Int : a <= b => a * DayLength <= b * DayLength
  BY <1>0, ProductsOrdered
<1>3. d * DayLength \in Int /\ (d + 1) * DayLength = d * DayLength + DayLength
  BY <1>0
<1>4. q * DayLength \in Int /\ (q + 1) * DayLength = q * DayLength + DayLength
  BY <1>0, <1>1
<1>5. q >= d => t >= d * DayLength
  <2>1. q >= d => d * DayLength <= q * DayLength
    BY <1>1, <1>2
  <2> QED BY <1>1, <1>3, <1>4, <2>1
<1>6. q < d => t < d * DayLength
  <2>1. q < d => (q + 1) * DayLength <= d * DayLength
    BY <1>1, <1>2
  <2> QED BY <1>0, <1>1, <1>3, <1>4, <2>1
<1>7. q <= d => t <= d * DayLength + DayLength - 1
  <2>1. q <= d => q * DayLength <= d * DayLength
    BY <1>1, <1>2
  <2> QED BY <1>0, <1>1, <1>3, <1>4, <2>1
<1>8. q > d => t > d * DayLength + DayLength - 1
  <2>1. q > d => (d + 1) * DayLength <= q * DayLength
    BY <1>1, <1>2
  <2> QED BY <1>0, <1>1, <1>2, <1>3, <1>4, <2>1
<1>9. (q >= d <=> t >= d * DayLength) /\ (q <= d <=> t <= d * DayLength + DayLength - 1)
  <2>1. q >= d <=> ~(q < d)
    BY <1>1
  <2>2. q <= d <=> ~(q > d)
    BY <1>1
  <2>3. ~(t >= d * DayLength /\ t < d * DayLength)
    BY <1>3
  <2>4. ~(t <= d * DayLength + DayLength - 1 /\ t > d * DayLength + DayLength - 1)
    BY <1>0, <1>3
  <2> QED BY <1>5, <1>6, <1>7, <1>8, <2>1, <2>2, <2>3, <2>4
<1> QED BY <1>9 DEF q

LEMMA UnitOfDay ==
  ASSUME NEW d \in Int, NEW m \in Minutes
  PROVE  (d * DayLength + m) \div DayLength = d /\ (d * DayLength + m) % DayLength = m
<1> DEFINE t == d * DayLength + m
<1>0. DayLength \in Nat \ {0} /\ t \in Int /\ m \in 0..DayLength - 1
  BY ScheduleAssumption DEF Minutes
<1>1. t >= d * DayLength /\ t <= d * DayLength + DayLength - 1
  BY <1>0
<1>2. t \div DayLength \in Int /\ t % DayLength = t - (t \div DayLength) * DayLength
  BY <1>0
<1> HIDE DEF t
<1>3. t \div DayLength = d
  BY <1>0, <1>1, <1>2, DayOfUnit
<1> QED BY <1>0, <1>2, <1>3 DEF t

-----------------------------------------------------------------------------
(* Absences *)

LEMMA AbsencesTyped ==
  ASSUME ScheduleTypeOK, NEW p \in absences
  PROVE  /\ p.from # Missing => p.from \in [dated : BOOLEAN, at : Int]
         /\ p.to # Missing => p.to \in [dated : BOOLEAN, at : Int]
BY ScheduleAssumption DEF ScheduleTypeOK, Absence, AbsenceEnd

\* The instants of one day are all inside a dated absence or all outside.
LEMMA DatedByDay ==
  ASSUME ScheduleTypeOK, NEW p \in absences, NEW t \in Int,
         \A e \in {p.from, p.to} : e = Missing \/ e.dated
  PROVE  InAbsence(t, p) <=>
           /\ p.from # Missing \/ p.to # Missing
           /\ p.from # Missing => t \div DayLength >= p.from.at
           /\ p.to # Missing => t \div DayLength <= p.to.at
<1>1. p.from # Missing => /\ p.from.at \in Int
                          /\ FirstInstant(p.from) = p.from.at * DayLength
  BY AbsencesTyped DEF FirstInstant
<1>2. p.to # Missing => /\ p.to.at \in Int
                        /\ LastInstant(p.to) = p.to.at * DayLength + DayLength - 1
  BY AbsencesTyped DEF LastInstant
<1> QED BY <1>1, <1>2, DayOfUnit DEF InAbsence

\* Nobody's absence given in dates begins or ends within a day, whatever the
\* length of a day and the dates.
THEOREM AbsencesByWholeDays == ScheduleSpec => AbsentByWholeDays
<1> DEFINE Dated == \A p \in absences : \A e \in {p.from, p.to} : e = Missing \/ e.dated
           SameDay == now \div DayLength = now' \div DayLength
<1>1. ScheduleTypeOK /\ ScheduleTypeOK' /\ [ScheduleNext]_scheduleVars =>
        [Dated /\ SameDay => (Absent(now) <=> Absent(now)')]_scheduleVars
  <2> SUFFICES ASSUME ScheduleTypeOK, ScheduleTypeOK', [ScheduleNext]_scheduleVars, Dated, SameDay
               PROVE  Absent(now) <=> Absent(now)'
    OBVIOUS
  <2>1. now \in Int /\ now' \in Int /\ absences' = absences
    BY ScheduleAssumption DEF ScheduleTypeOK, ScheduleNext, ClockTick, scheduleVars
  <2>2. \A p \in absences : InAbsence(now, p) <=> InAbsence(now', p)
    BY <2>1, DatedByDay
  <2> QED BY <2>1, <2>2 DEF Absent
<1> QED BY <1>1, SchedulesComplete, PTL DEF ScheduleSpec, AbsentByWholeDays

LEMMA TypedAbsent == ScheduleTypeOK => AbsentInsideDates
<1> DEFINE s == InForce
           z == IF s.zone = Missing THEN 0 ELSE s.zone
<1> SUFFICES ASSUME ScheduleTypeOK, NEW p \in absences, LocallyInside(s, now, p)
             PROVE  InAbsence(now, p)
  BY DEF AbsentInsideDates, Working, Absent
<1>0. DayLength \in Nat \ {0} /\ now \in Int
  BY ScheduleAssumption DEF ScheduleTypeOK
<1>1. z \in Int /\ -DayLength < z /\ z < DayLength
  BY <1>0, InForceTyped DEF WrittenSchedule, Zones
<1>2. LocalDay(s, now) = (now + z) \div DayLength
  BY DEF LocalDay, Local
<1> HIDE DEF s, z
<1>3. ASSUME p.from # Missing
      PROVE  now >= FirstInstant(p.from)
  <2>1. p.from.at \in Int /\ (now + z) \div DayLength >= p.from.at + 1
    BY <1>0, <1>1, <1>2, <1>3, AbsencesTyped DEF LocallyInside
  <2>2. now + z >= (p.from.at + 1) * DayLength
    <3>1. now + z \in Int /\ p.from.at + 1 \in Int
      BY <1>0, <1>1, <2>1
    <3> QED BY <2>1, <3>1, DayOfUnit
  <2>3. (p.from.at + 1) * DayLength = p.from.at * DayLength + DayLength
    BY <1>0, <2>1
  <2> QED BY <1>0, <1>1, <1>3, <2>1, <2>2, <2>3 DEF FirstInstant, LocallyInside
<1>4. ASSUME p.to # Missing
      PROVE  now <= LastInstant(p.to)
  <2>1. p.to.at \in Int /\ (now + z) \div DayLength <= p.to.at - 1
    BY <1>0, <1>1, <1>2, <1>4, AbsencesTyped DEF LocallyInside
  <2>2. now + z <= (p.to.at - 1) * DayLength + DayLength - 1
    <3>1. now + z \in Int /\ p.to.at - 1 \in Int
      BY <1>0, <1>1, <2>1
    <3> QED BY <2>1, <3>1, DayOfUnit
  <2>3. \A a \in Int : a * DayLength \in Int /\ (a - 1) * DayLength = a * DayLength - DayLength
    BY <1>0
  <2>4. now + z <= p.to.at * DayLength - 1
    BY <1>0, <2>1, <2>2, <2>3
  <2>5. now <= p.to.at * DayLength + DayLength - 1
    BY <1>0, <1>1, <2>1, <2>3, <2>4
  <2> QED BY <1>4, <2>5 DEF LastInstant, LocallyInside
<1> QED BY <1>3, <1>4 DEF InAbsence, LocallyInside

\* The UTC dates of an absence cover every local day strictly inside it, for any
\* zone less than a day away.
THEOREM AbsentOnLocalDays == ScheduleSpec => []AbsentInsideDates
BY SchedulesComplete, TypedAbsent, PTL

-----------------------------------------------------------------------------
(* Every day of a schedule comes round *)

\* The ghost counts units at none of which the member was scheduled.
IdleMeans == \A t \in Int : now - idle < t /\ t <= now => ~Scheduled(InForce, t)

LEMMA IdleInvariant == ScheduleSpec => []IdleMeans
<1>1. ScheduleTypeOK /\ ScheduleInit => IdleMeans
  BY DEF ScheduleInit, IdleMeans
<1>2. ScheduleTypeOK /\ IdleMeans /\ [ScheduleNext]_scheduleVars => IdleMeans'
  <2> SUFFICES ASSUME ScheduleTypeOK, IdleMeans, [ScheduleNext]_scheduleVars PROVE IdleMeans'
    OBVIOUS
  <2>1. now \in Int /\ idle \in Int
    BY ScheduleAssumption DEF ScheduleTypeOK
  <2>2. CASE UNCHANGED scheduleVars
    BY <2>2 DEF IdleMeans, Scheduled, InForce, scheduleVars
  <2>3. CASE ScheduleNext
    <3>1. /\ now' = now + 1 /\ InForce' = InForce
          /\ idle' = IF Scheduled(InForce, now') THEN 0 ELSE idle + 1
      BY <2>3 DEF ScheduleNext, ClockTick, InForce
    <3> SUFFICES ASSUME NEW t \in Int, now' - idle' < t, t <= now'
                 PROVE  ~Scheduled(InForce, t)
      BY <3>1 DEF IdleMeans, Scheduled
    <3>2. CASE Scheduled(InForce, now')
      BY <2>1, <3>1, <3>2
    <3>3. CASE ~Scheduled(InForce, now')
      <4>1. t = now' \/ (now - idle < t /\ t <= now)
        BY <2>1, <3>1, <3>3
      <4> QED BY <3>3, <4>1 DEF IdleMeans
    <3> QED BY <3>2, <3>3
  <2> QED BY <2>2, <2>3
<1> QED BY <1>1, <1>2, SchedulesComplete, PTL DEF ScheduleSpec

\* Of any seven days in a row one is a given weekday.
LEMMA WeekdayComesRound ==
  ASSUME NEW d \in Int, NEW w \in Weekdays
  PROVE  \E k \in 0..6 : Weekday(d - k) = w
<1> DEFINE k == (d + 1 - w) % 7
<1>1. k \in 0..6 /\ (d + 1 - w) \div 7 \in Int /\ d + 1 - w = 7 * ((d + 1 - w) \div 7) + k
  BY DEF Weekdays
<1>2. d - k + 1 = 7 * ((d + 1 - w) \div 7) + w
  BY <1>1 DEF Weekdays
<1>3. (d - k + 1) % 7 = IF w = 7 THEN 0 ELSE w
  BY <1>1, <1>2 DEF Weekdays
<1> QED BY <1>1, <1>3 DEF Weekday, GoWeekday, Weekdays

\* Of any seven days of units in a row the member is scheduled at one at least.
LEMMA ScheduledInWeek ==
  ASSUME NEW s \in WrittenSchedule, s.zone \in Int \cup {Missing}, s.days \cap Weekdays # {},
         s.start # Missing => s.start \in Minutes /\ s.end \in Minutes, NEW t \in Int
  PROVE  \E u \in Int : t - 7 * DayLength < u /\ u <= t /\ Scheduled(s, u)
<1> DEFINE z == IF s.zone = Missing THEN 0 ELSE s.zone
           m == IF s.start = Missing THEN 0 ELSE s.start
           d == (t + z - m) \div DayLength
<1>0. DayLength \in Nat \ {0} /\ Missing \notin Minutes
  BY ScheduleAssumption DEF Minutes
<1>1. z \in Int /\ m \in Minutes /\ m \in Int /\ InHours(s, m)
  BY <1>0 DEF Minutes, InHours, Overnight
<1>2. \A u : MinuteOfDay(s, u) = (u + z) % DayLength /\ LocalDay(s, u) = (u + z) \div DayLength
  BY DEF MinuteOfDay, LocalDay, Local
<1> HIDE DEF z, m
<1>3. d \in Int /\ d * DayLength <= t + z - m /\ t + z - m < d * DayLength + DayLength
  BY <1>0, <1>1
<1> HIDE DEF d
<1>4. PICK w \in s.days : w \in Weekdays
  OBVIOUS
<1>5. PICK k \in 0..6 : Weekday(d - k) = w
  BY <1>3, <1>4, WeekdayComesRound
<1> DEFINE e == (d - k) * DayLength
           u == e + m - z
<1>6. d - k \in Int /\ e \in Int
  BY <1>0, <1>3
<1>7. e <= d * DayLength /\ d * DayLength - 6 * DayLength <= e
  <2>1. d - k <= d /\ d - 6 <= d - k /\ d - 6 \in Int
    BY <1>3
  <2>2. e <= d * DayLength /\ (d - 6) * DayLength <= e
    BY <1>0, <1>3, <1>6, <2>1, ProductsOrdered
  <2>3. (d - 6) * DayLength = d * DayLength - 6 * DayLength
    BY <1>0, <1>3
  <2> QED BY <2>2, <2>3
<1>8. e + m = u + z /\ u \in Int
  BY <1>1, <1>6
<1>9. (u + z) \div DayLength = d - k /\ (u + z) % DayLength = m
  BY <1>1, <1>6, <1>8, UnitOfDay
<1>10. Scheduled(s, u)
  BY <1>1, <1>2, <1>4, <1>5, <1>9 DEF Scheduled
<1> HIDE DEF e
<1>11. t - 7 * DayLength < u /\ u <= t
  <2>1. d * DayLength \in Int
    BY <1>0, <1>3
  <2> QED BY <1>0, <1>1, <1>3, <1>6, <1>7, <2>1
<1> QED BY <1>8, <1>10, <1>11

\* The code compares with numbers from 1 to 7 alone.
LEMMA WeekdayInWeek ==
  ASSUME NEW d \in Int
  PROVE  Weekday(d) \in Weekdays
<1>1. (d + 1) % 7 \in 0..6
  OBVIOUS
<1> QED BY <1>1 DEF Weekday, GoWeekday, Weekdays

LEMMA TypedWeek == ScheduleTypeOK /\ IdleMeans => ScheduledEveryWeek
<1> SUFFICES ASSUME ScheduleTypeOK, IdleMeans
             PROVE  ScheduledEveryWeek
  OBVIOUS
<1>1. now \in Int /\ idle \in Int /\ DayLength \in Int
  BY ScheduleAssumption DEF ScheduleTypeOK
<1>2. ASSUME InForce.days \cap Weekdays # {}
      PROVE  idle < 7 * DayLength
  <2>1. PICK u \in Int : now - 7 * DayLength < u /\ u <= now /\ Scheduled(InForce, u)
    BY <1>1, <1>2, InForceTyped, ScheduledInWeek
  <2>2. ~(now - idle < u)
    BY <2>1 DEF IdleMeans
  <2> QED BY <1>1, <2>1, <2>2
<1>3. ASSUME InForce.days \cap Weekdays = {}
      PROVE  ~Working(now)
  <2>1. LocalDay(InForce, now) \in Int
    BY <1>1, InForceTyped, LocalTyped
  <2> QED BY <1>3, <2>1, WeekdayInWeek DEF Working, Scheduled
<1> QED BY <1>2, <1>3 DEF ScheduledEveryWeek

\* Whoever has a day of the week to work on is scheduled in any seven days,
\* whatever the hours, the zone, the other numbers among the days and the length
\* of a day; whoever has none is never on duty.
THEOREM EveryWeekScheduled == ScheduleSpec => []ScheduledEveryWeek
BY SchedulesComplete, IdleInvariant, TypedWeek, PTL

-----------------------------------------------------------------------------
(* Balancing *)

LEMMA NumbersOlder ==
  ASSUME NEW t1 \in {Never} \cup Nat, NEW t2 \in {Never} \cup Nat
  PROVE  Older(t1, t2) <=> t1 < t2
BY DEF Older, Never

\* Both strategies order any figures soundly.
LEMMA TypedOrder == BalancingTypeOK => OrderSound
<1> SUFFICES ASSUME BalancingTypeOK, NEW a \in Members, NEW b \in Members,
                    NEW c \in Members
             PROVE  /\ Less(a, b) => ~Less(b, a) /\ (Less(a, c) \/ Less(c, b))
                    /\ strategy = "round_robin" /\ a # b => Less(a, b) \/ Less(b, a)
  BY DEF OrderSound
<1>1. \A m \in {a, b, c} : m \in Int /\ load[m] \in Nat /\ last[m] \in {Never} \cup Nat
  BY BalancingAssumption DEF BalancingTypeOK
<1>2. \A m, n \in {a, b, c} : Older(last[m], last[n]) <=> last[m] < last[n]
  BY <1>1, NumbersOlder
<1>3. CASE strategy = "round_robin"
  <2>1. \A m, n \in {a, b, c} : Less(m, n) <=>
          \/ last[m] < last[n]
          \/ last[m] = last[n] /\ load[m] < load[n]
          \/ last[m] = last[n] /\ load[m] = load[n] /\ m < n
    BY <1>1, <1>2, <1>3 DEF Less, RoundRobinLess, Never
  <2> QED BY <1>1, <2>1 DEF Never
<1>4. CASE strategy = "load_based"
  <2>1. \A m, n \in {a, b, c} : Less(m, n) <=>
          \/ load[m] < load[n]
          \/ load[m] = load[n] /\ last[m] < last[n]
    BY <1>1, <1>2, <1>4 DEF Less, LoadBasedLess
  <2> QED BY <1>1, <1>4, <2>1 DEF Never
<1> QED BY <1>3, <1>4 DEF BalancingTypeOK, Strategies

\* It is c's turn before b's, by the figure that counts first.
InTurn(b, c) ==
  /\ c \in Candidates
  /\ strategy = "round_robin" => last[c] < last[b]
  /\ strategy = "load_based" => load[c] < load[b]

Aimed(b) == {d \in Dispatchers : pick[d] = b}

\* The picks of b that are not booked yet, in flight or deferred.
Open(b) == Cardinality(Aimed(b)) + owed[b]

\* Why the first ghost is bounded: once b has passed over c it is c's turn first,
\* so that b is not picked again, and only the open picks remain.
PassedBudget ==
  \A b, c \in Members : passed[b][c] > 0 =>
    b # c /\ InTurn(b, c) /\ passed[b][c] + Open(b) <= Outstanding

\* Why the second is: a member at the limit is not picked.
LimitBudget ==
  \A m \in Members :
    /\ load[m] < MaxLoad => over[m] = 0
    /\ load[m] >= MaxLoad => over[m] + Open(m) <= Outstanding

ClockAhead == \A m \in Members : last[m] <= clock

BalancingInv == BalancingTypeOK /\ ClockAhead /\ PassedBudget /\ LimitBudget

LEMMA AimedFinite ==
  ASSUME NEW b
  PROVE  /\ IsFiniteSet(Dispatchers) /\ Cardinality(Dispatchers) \in Nat
         /\ IsFiniteSet(Aimed(b)) /\ Cardinality(Aimed(b)) \in Nat
         /\ Cardinality(Aimed(b)) <= Cardinality(Dispatchers)
<1>1. Aimed(b) \subseteq Dispatchers /\ IsFiniteSet(Dispatchers)
  BY BalancingAssumption DEF Aimed
<1> QED BY <1>1, FS_Subset, FS_CardinalityType

\* No member has more open picks than there is room for.
LEMMA OpenBounded ==
  ASSUME BalancingTypeOK, NEW b \in Members
  PROVE  Outstanding \in Nat /\ Open(b) \in Nat /\ Open(b) <= Outstanding
<1>1. owed[b] \in 0..MaxDeferred /\ MaxDeferred \in Nat
  BY BalancingAssumption DEF BalancingTypeOK
<1> QED BY <1>1, AimedFinite DEF Open, Outstanding

LEMMA OpenStaysBounded ==
  ASSUME BalancingTypeOK', NEW b \in Members
  PROVE  Open(b)' \in Nat /\ Open(b)' <= Outstanding
<1>1. owed'[b] \in 0..MaxDeferred /\ MaxDeferred \in Nat
  BY BalancingAssumption DEF BalancingTypeOK
<1>2. Aimed(b)' \subseteq Dispatchers /\ IsFiniteSet(Dispatchers)
  BY BalancingAssumption DEF Aimed
<1>3. /\ Cardinality(Aimed(b)') \in Nat /\ Cardinality(Dispatchers) \in Nat
      /\ Cardinality(Aimed(b)') <= Cardinality(Dispatchers)
  BY <1>2, FS_Subset, FS_CardinalityType
<1> QED BY <1>1, <1>3 DEF Open, Outstanding

\* A dispatcher that lets go of its pick leaves one pick less of that member.
LEMMA PickReleased ==
  ASSUME BalancingTypeOK, NEW d \in Dispatchers, pick[d] # Nobody,
         pick' = [pick EXCEPT ![d] = Nobody], NEW b \in Members
  PROVE  Cardinality(Aimed(b)') =
           IF b = pick[d] THEN Cardinality(Aimed(b)) - 1 ELSE Cardinality(Aimed(b))
<1>1. pick \in [Dispatchers -> Members \cup {Nobody}] /\ Nobody \notin Members
  BY BalancingAssumption DEF BalancingTypeOK
<1>2. Aimed(b)' = Aimed(b) \ {d}
  BY <1>1 DEF Aimed
<1>3. CASE b = pick[d]
  <2>1. d \in Aimed(b)
    BY <1>3 DEF Aimed
  <2> QED BY <1>2, <1>3, <2>1, AimedFinite, FS_RemoveElement
<1>4. CASE b # pick[d]
  <2>1. Aimed(b)' = Aimed(b)
    BY <1>2, <1>4 DEF Aimed
  <2> QED BY <1>4, <2>1
<1> QED BY <1>3, <1>4

\* What Count does, member by member.
LEMMA CountTyped ==
  ASSUME BalancingTypeOK, NEW booked, Count(booked)
  PROVE  /\ passed' \in [Members -> [Members -> Nat]]
         /\ \A b, c \in Members : passed'[b][c] > 0 =>
              /\ StillWaiting(b, c)
              /\ \/ b = booked /\ b # c /\ PassesOver(b, c) /\ passed'[b][c] = passed[b][c] + 1
                 \/ ~(b = booked /\ b # c /\ PassesOver(b, c)) /\ passed'[b][c] = passed[b][c]
         /\ over' \in [Members -> Nat]
         /\ \A m \in Members : over'[m] =
              IF load'[m] < MaxLoad THEN 0
              ELSE IF m = booked /\ load[m] >= MaxLoad THEN over[m] + 1 ELSE over[m]
<1>1. \A b, c \in Members : passed[b][c] \in Nat
  BY DEF BalancingTypeOK
<1>2. \A b, c \in Members : passed'[b][c] =
        IF ~StillWaiting(b, c) THEN 0
        ELSE IF b = booked /\ b # c /\ PassesOver(b, c) THEN passed[b][c] + 1
        ELSE passed[b][c]
  BY DEF Count, CountPassed
<1>3. passed' = [b \in Members |-> [c \in Members |-> passed'[b][c]]]
  BY <1>2 DEF Count, CountPassed
<1>4. \A b, c \in Members : passed'[b][c] \in Nat
  BY <1>1, <1>2
<1>5. passed' \in [Members -> [Members -> Nat]]
  BY <1>3, <1>4
<1>6. over \in [Members -> Nat]
  BY DEF BalancingTypeOK
<1>7. \A m \in Members : over'[m] =
        IF load'[m] < MaxLoad THEN 0
        ELSE IF m = booked /\ load[m] >= MaxLoad THEN over[m] + 1 ELSE over[m]
  BY DEF Count, CountOver
<1>8. over' = [m \in Members |-> over'[m]]
  BY <1>7 DEF Count, CountOver
<1>9. over' \in [Members -> Nat]
  BY <1>6, <1>7, <1>8
<1> QED BY <1>2, <1>5, <1>7, <1>9

LEMMA BookingTyped ==
  ASSUME BalancingTypeOK, NEW m \in Members, NEW booked, Count(booked),
         load' = [load EXCEPT ![m] = @ + 1], last' = [last EXCEPT ![m] = clock],
         UNCHANGED <<strategy, working, clock>>,
         pick' \in [Dispatchers -> Members \cup {Nobody}],
         owed' \in [Members -> 0..MaxDeferred]
  PROVE  BalancingTypeOK'
<1>1. clock \in Nat
  BY BalancingAssumption DEF BalancingTypeOK
<1>2. load' \in [Members -> Nat] /\ last' \in [Members -> {Never} \cup Nat]
  BY <1>1 DEF BalancingTypeOK
<1> QED BY <1>2, CountTyped DEF BalancingTypeOK

LEMMA BalancingTypeStep ==
  ASSUME BalancingTypeOK, [BalancingNext]_balancingVars
  PROVE  BalancingTypeOK'
<1>1. ASSUME NEW d \in Dispatchers, PickAssignee(d)
      PROVE  BalancingTypeOK'
  BY <1>1 DEF PickAssignee, Heads, Candidates, BalancingTypeOK
<1>2. ASSUME NEW d \in Dispatchers, Book(d)
      PROVE  BalancingTypeOK'
  <2>1. pick[d] \in Members
    BY <1>2 DEF Book, BalancingTypeOK
  <2>2. pick' \in [Dispatchers -> Members \cup {Nobody}] /\ owed' \in [Members -> 0..MaxDeferred]
    BY <1>2 DEF Book, BalancingTypeOK
  <2> QED BY <1>2, <2>1, <2>2, BookingTyped DEF Book
<1>3. ASSUME NEW d \in Dispatchers, Defer(d)
      PROVE  BalancingTypeOK'
  <2>1. pick[d] \in Members /\ owed[pick[d]] < MaxDeferred
    BY <1>3 DEF Defer, BalancingTypeOK
  <2>2. owed[pick[d]] \in 0..MaxDeferred
    BY <2>1 DEF BalancingTypeOK
  <2>3. owed[pick[d]] + 1 \in 0..MaxDeferred
    BY <2>1, <2>2, BalancingAssumption
  <2> QED BY <1>3, <2>1, <2>3 DEF Defer, BalancingTypeOK
<1>4. ASSUME NEW d \in Dispatchers, Drop(d)
      PROVE  BalancingTypeOK'
  BY <1>4 DEF Drop, BalancingTypeOK
<1>5. ASSUME NEW m \in Members, RetryBooks(m)
      PROVE  BalancingTypeOK'
  <2>1. owed' \in [Members -> 0..MaxDeferred]
    BY <1>5, BalancingAssumption DEF RetryBooks, BalancingTypeOK
  <2>2. pick' \in [Dispatchers -> Members \cup {Nobody}]
    BY <1>5 DEF RetryBooks, BalancingTypeOK
  <2> QED BY <1>5, <2>1, <2>2, BookingTyped DEF RetryBooks
<1>6. ASSUME NEW m \in Members, RetryEnds(m)
      PROVE  BalancingTypeOK'
  BY <1>6, BalancingAssumption DEF RetryEnds, BalancingTypeOK
<1>7. ASSUME NEW m \in Members, BookUnpicked(m)
      PROVE  BalancingTypeOK'
  <2>1. pick' \in [Dispatchers -> Members \cup {Nobody}] /\ owed' \in [Members -> 0..MaxDeferred]
    BY <1>7 DEF BookUnpicked, BalancingTypeOK
  <2> QED BY <1>7, <2>1, BookingTyped DEF BookUnpicked
<1>8. ASSUME NEW m \in Members, NEW n \in 0..MaxCount, CorrectLoad(m, n)
      PROVE  BalancingTypeOK'
  <2>1. load' \in [Members -> Nat]
    BY <1>8, BalancingAssumption DEF CorrectLoad, BalancingTypeOK
  <2> QED BY <1>8, <2>1, CountTyped DEF CorrectLoad, BalancingTypeOK
<1>9. ASSUME NEW m \in Members, ShiftChange(m)
      PROVE  BalancingTypeOK'
  BY <1>9, CountTyped DEF ShiftChange, BalancingTypeOK
<1>10. CASE Second
  BY <1>10, BalancingAssumption DEF Second, BalancingTypeOK
<1>11. CASE UNCHANGED balancingVars
  BY <1>11 DEF balancingVars, BalancingTypeOK
<1> QED BY <1>1, <1>2, <1>3, <1>4, <1>5, <1>6, <1>7, <1>8, <1>9, <1>10, <1>11
        DEF BalancingNext

LEMMA ClockStep ==
  ASSUME BalancingTypeOK, ClockAhead, [BalancingNext]_balancingVars
  PROVE  ClockAhead'
<1> USE BalancingAssumption DEF BalancingTypeOK, ClockAhead, Never
<1>1. ASSUME NEW m \in Members, last' = [last EXCEPT ![m] = clock], clock' = clock
      PROVE  ClockAhead'
  BY <1>1
<1>2. CASE Second
  BY <1>2 DEF Second
<1>3. CASE UNCHANGED <<last, clock>>
  BY <1>3
<1>4. \A d \in Dispatchers : Book(d) => pick[d] \in Members
  BY DEF Book
<1> QED BY <1>1, <1>2, <1>3, <1>4
        DEF BalancingNext, PickAssignee, Book, Defer, Drop, RetryBooks, RetryEnds,
            BookUnpicked, CorrectLoad, ShiftChange, balancingVars

\* Whoever is chosen has nobody in turn before.
LEMMA HeadHasNoTurn ==
  ASSUME BalancingTypeOK, NEW b \in Heads(Candidates), NEW c \in Members
  PROVE  ~InTurn(b, c)
<1> SUFFICES ASSUME InTurn(b, c) PROVE FALSE
  OBVIOUS
<1>1. c \in Candidates /\ b \in Members /\ ~Less(c, b)
  BY DEF InTurn, Heads, Candidates, BalancingTypeOK
<1>2. Older(last[c], last[b]) <=> last[c] < last[b]
  BY <1>1, NumbersOlder DEF BalancingTypeOK
<1>3. CASE strategy = "round_robin"
  BY <1>1, <1>2, <1>3 DEF InTurn, Less, RoundRobinLess, BalancingTypeOK, Never
<1>4. CASE strategy = "load_based"
  BY <1>1, <1>4 DEF InTurn, Less, LoadBasedLess
<1> QED BY <1>3, <1>4 DEF BalancingTypeOK, Strategies

\* A new pick goes to a member below the limit who passes over nobody.
LEMMA PickKeepsBudgets ==
  ASSUME BalancingInv, BalancingTypeOK', NEW d \in Dispatchers, PickAssignee(d)
  PROVE  PassedBudget' /\ LimitBudget'
<1>1. PICK m \in Heads(Candidates) : pick' = [pick EXCEPT ![d] = m]
  BY DEF PickAssignee
<1>2. UNCHANGED <<strategy, load, last, working, owed, passed, over>> /\ pick[d] = Nobody
  BY DEF PickAssignee
<1>3. m \in Members /\ load[m] < MaxLoad
  BY DEF Heads, Candidates, BalancingInv, BalancingTypeOK
<1>4. \A b \in Members : b # m => Open(b)' = Open(b)
  <2> SUFFICES ASSUME NEW b \in Members, b # m PROVE Aimed(b)' = Aimed(b)
    BY <1>2 DEF Open
  <2> QED BY <1>1, <1>2, BalancingAssumption DEF Aimed, BalancingInv, BalancingTypeOK
<1>5. PassedBudget'
  <2> SUFFICES ASSUME NEW b \in Members, NEW c \in Members, passed'[b][c] > 0
               PROVE  b # c /\ InTurn(b, c)' /\ passed'[b][c] + Open(b)' <= Outstanding
    BY DEF PassedBudget, Outstanding
  <2>1. b # c /\ InTurn(b, c) /\ passed[b][c] + Open(b) <= Outstanding
    BY <1>2 DEF BalancingInv, PassedBudget
  <2>2. m # b
    BY <2>1, HeadHasNoTurn DEF BalancingInv
  <2>3. InTurn(b, c)'
    BY <1>2, <2>1 DEF InTurn, Candidates
  <2> QED BY <1>2, <1>4, <2>1, <2>2, <2>3
<1>6. LimitBudget'
  <2> SUFFICES ASSUME NEW b \in Members
               PROVE  /\ load'[b] < MaxLoad => over'[b] = 0
                      /\ load'[b] >= MaxLoad => over'[b] + Open(b)' <= Outstanding
    BY DEF LimitBudget, Outstanding
  <2>1. /\ load[b] < MaxLoad => over[b] = 0
        /\ load[b] >= MaxLoad => over[b] + Open(b) <= Outstanding
    BY DEF BalancingInv, LimitBudget
  <2>2. load[b] \in Nat /\ MaxLoad \in Nat
    BY BalancingAssumption DEF BalancingInv, BalancingTypeOK
  <2> QED BY <1>2, <1>3, <1>4, <2>1, <2>2
<1> QED BY <1>5, <1>6

\* Steps that touch no figure and open no pick.
LEMMA QuietKeepsBudgets ==
  ASSUME BalancingInv, BalancingTypeOK',
         UNCHANGED <<strategy, load, last, working, passed, over>>,
         \A b \in Members : Open(b)' <= Open(b)
  PROVE  PassedBudget' /\ LimitBudget'
<1>1. \A b \in Members : Open(b) \in Nat /\ Open(b)' \in Nat /\ Outstanding \in Nat
  BY OpenBounded, OpenStaysBounded DEF BalancingInv
<1>2. /\ \A b, c \in Members : passed[b][c] \in Nat
      /\ \A b \in Members : over[b] \in Nat
  BY DEF BalancingInv, BalancingTypeOK
<1>3. PassedBudget'
  <2> SUFFICES ASSUME NEW b \in Members, NEW c \in Members, passed'[b][c] > 0
               PROVE  b # c /\ InTurn(b, c)' /\ passed'[b][c] + Open(b)' <= Outstanding
    BY DEF PassedBudget, Outstanding
  <2>1. b # c /\ InTurn(b, c) /\ passed[b][c] + Open(b) <= Outstanding
    BY DEF BalancingInv, PassedBudget
  <2>2. InTurn(b, c)'
    BY <2>1 DEF InTurn, Candidates
  <2> QED BY <1>1, <1>2, <2>1, <2>2
<1>4. LimitBudget'
  BY <1>1, <1>2 DEF BalancingInv, LimitBudget, Outstanding
<1> QED BY <1>3, <1>4

\* Steps that change figures or shifts: a member who is booked, drops out or falls
\* behind starts counting again, and booked counts only as one open pick less.
LEMMA FiguresKeepPassed ==
  ASSUME BalancingInv, BalancingTypeOK', NEW booked, CountPassed(booked), strategy' = strategy,
         \A b \in Members : last'[b] \in {last[b], clock},
         booked \in Members => last'[booked] = clock,
         \A b \in Members : Open(b)' <= IF b = booked THEN Open(b) - 1 ELSE Open(b)
  PROVE  PassedBudget'
<1> SUFFICES ASSUME NEW b \in Members, NEW c \in Members, passed'[b][c] > 0
             PROVE  b # c /\ InTurn(b, c)' /\ passed'[b][c] + Open(b)' <= Outstanding
  BY DEF PassedBudget, Outstanding
<1>1. /\ StillWaiting(b, c)
      /\ \/ b = booked /\ b # c /\ PassesOver(b, c) /\ passed'[b][c] = passed[b][c] + 1
         \/ ~(b = booked /\ b # c /\ PassesOver(b, c)) /\ passed'[b][c] = passed[b][c]
  <2>1. passed'[b][c] =
          IF ~StillWaiting(b, c) THEN 0
          ELSE IF b = booked /\ b # c /\ PassesOver(b, c) THEN passed[b][c] + 1
          ELSE passed[b][c]
    BY DEF CountPassed
  <2> QED BY <2>1
<1>2. /\ passed[b][c] \in Nat /\ Open(b) \in Nat /\ Open(b)' \in Nat
      /\ Outstanding \in Nat /\ Open(b) <= Outstanding
  BY OpenBounded, OpenStaysBounded DEF BalancingInv, BalancingTypeOK
<1>3. passed[b][c] > 0 =>
        b # c /\ InTurn(b, c) /\ passed[b][c] + Open(b) <= Outstanding
  BY DEF BalancingInv, PassedBudget
<1>4. Open(b)' <= (IF b = booked THEN Open(b) - 1 ELSE Open(b)) /\ last'[b] \in {last[b], clock}
  OBVIOUS
<1>5. /\ last[b] <= clock /\ last[c] <= clock /\ last'[c] = last[c]
      /\ last[b] \in Int /\ last[c] \in Int /\ clock \in Int
  BY <1>1, BalancingAssumption
     DEF BalancingInv, ClockAhead, BalancingTypeOK, StillWaiting, Never
<1>6. /\ c \in Candidates'
      /\ strategy = "load_based" => load'[c] < load'[b]
  <2>1. load'[b] \in Nat /\ load'[c] \in Nat
    BY DEF BalancingTypeOK
  <2> QED BY <1>1, <2>1 DEF StillWaiting
<1>7. CASE b = booked /\ b # c /\ PassesOver(b, c)
  <2>1. passed'[b][c] + Open(b)' <= Outstanding
    BY <1>1, <1>2, <1>3, <1>4, <1>7
  <2>2. strategy = "round_robin" => last'[c] < last'[b]
    BY <1>5, <1>7 DEF PassesOver
  <2> QED BY <1>6, <1>7, <2>1, <2>2 DEF InTurn
<1>8. CASE ~(b = booked /\ b # c /\ PassesOver(b, c))
  <2>1. /\ b # c /\ InTurn(b, c) /\ passed'[b][c] = passed[b][c]
        /\ passed[b][c] + Open(b) <= Outstanding
    BY <1>1, <1>3, <1>8
  <2>2. passed'[b][c] + Open(b)' <= Outstanding
    BY <1>2, <1>4, <2>1
  <2>3. strategy = "round_robin" => last'[c] < last'[b]
    BY <1>4, <1>5, <2>1 DEF InTurn
  <2> QED BY <1>6, <2>1, <2>2, <2>3 DEF InTurn
<1> QED BY <1>7, <1>8

LEMMA FiguresKeepLimit ==
  ASSUME BalancingInv, BalancingTypeOK', NEW booked, CountOver(booked),
         \A b \in Members : Open(b)' <= IF b = booked THEN Open(b) - 1 ELSE Open(b)
  PROVE  LimitBudget'
<1> SUFFICES ASSUME NEW b \in Members
             PROVE  /\ load'[b] < MaxLoad => over'[b] = 0
                    /\ load'[b] >= MaxLoad => over'[b] + Open(b)' <= Outstanding
  BY DEF LimitBudget, Outstanding
<1>1. over'[b] = IF load'[b] < MaxLoad THEN 0
                 ELSE IF b = booked /\ load[b] >= MaxLoad THEN over[b] + 1 ELSE over[b]
  BY DEF CountOver
<1>2. /\ load[b] < MaxLoad => over[b] = 0
      /\ load[b] >= MaxLoad => over[b] + Open(b) <= Outstanding
  BY DEF BalancingInv, LimitBudget
<1>3. /\ over[b] \in Nat /\ Open(b) \in Nat /\ Open(b)' \in Nat /\ Outstanding \in Nat
      /\ Open(b)' <= Outstanding /\ MaxLoad \in Nat /\ load[b] \in Nat /\ load'[b] \in Nat
  BY OpenBounded, OpenStaysBounded, BalancingAssumption DEF BalancingInv, BalancingTypeOK
<1>4. Open(b)' <= IF b = booked THEN Open(b) - 1 ELSE Open(b)
  OBVIOUS
<1> QED BY <1>1, <1>2, <1>3, <1>4

LEMMA FiguresKeepBudgets ==
  ASSUME BalancingInv, BalancingTypeOK', NEW booked, Count(booked), strategy' = strategy,
         \A b \in Members : last'[b] \in {last[b], clock},
         booked \in Members => last'[booked] = clock,
         \A b \in Members : Open(b)' <= IF b = booked THEN Open(b) - 1 ELSE Open(b)
  PROVE  PassedBudget' /\ LimitBudget'
BY FiguresKeepPassed, FiguresKeepLimit DEF Count

LEMMA BudgetStep ==
  ASSUME BalancingInv, BalancingTypeOK', [BalancingNext]_balancingVars
  PROVE  PassedBudget' /\ LimitBudget'
<1>0. /\ \A b \in Members : Cardinality(Aimed(b)) \in Nat /\ owed[b] \in Nat
      /\ \A b \in Members : Open(b) \in Nat
      /\ owed \in [Members -> Nat] /\ last \in [Members -> {Never} \cup Nat]
      /\ Nobody \notin Members /\ BalancingTypeOK
  BY AimedFinite, OpenBounded, BalancingAssumption DEF BalancingInv, BalancingTypeOK
<1>1. ASSUME NEW d \in Dispatchers, Book(d)
      PROVE  PassedBudget' /\ LimitBudget'
  <2>1. pick[d] \in Members /\ last' = [last EXCEPT ![pick[d]] = clock] /\ owed' = owed
        /\ Count(pick[d]) /\ strategy' = strategy
    BY <1>0, <1>1 DEF Book, BalancingTypeOK
  <2>2. \A b \in Members : Open(b)' <= IF b = pick[d] THEN Open(b) - 1 ELSE Open(b)
    <3> SUFFICES ASSUME NEW b \in Members
                 PROVE  Open(b)' <= IF b = pick[d] THEN Open(b) - 1 ELSE Open(b)
      OBVIOUS
    <3>1. Cardinality(Aimed(b)') =
            IF b = pick[d] THEN Cardinality(Aimed(b)) - 1 ELSE Cardinality(Aimed(b))
      BY <1>0, <1>1, PickReleased DEF Book
    <3> QED BY <1>0, <2>1, <3>1 DEF Open
  <2> QED BY <1>0, <2>1, <2>2, FiguresKeepBudgets
<1>2. ASSUME NEW d \in Dispatchers, Defer(d) \/ Drop(d)
      PROVE  PassedBudget' /\ LimitBudget'
  <2>1. \A b \in Members : Open(b)' <= Open(b)
    <3> SUFFICES ASSUME NEW b \in Members PROVE Open(b)' <= Open(b)
      OBVIOUS
    <3>1. Cardinality(Aimed(b)') =
            IF b = pick[d] THEN Cardinality(Aimed(b)) - 1 ELSE Cardinality(Aimed(b))
      BY <1>0, <1>2, PickReleased DEF Defer, Drop
    <3>2. owed'[b] <= IF b = pick[d] THEN owed[b] + 1 ELSE owed[b]
      BY <1>0, <1>2 DEF Defer, Drop
    <3>3. owed'[b] \in Nat
      BY BalancingAssumption DEF BalancingTypeOK
    <3> QED BY <1>0, <3>1, <3>2, <3>3 DEF Open
  <2> QED BY <1>2, <2>1, QuietKeepsBudgets DEF Defer, Drop
<1>3. ASSUME NEW m \in Members, RetryBooks(m)
      PROVE  PassedBudget' /\ LimitBudget'
  <2>1. /\ last' = [last EXCEPT ![m] = clock] /\ owed' = [owed EXCEPT ![m] = @ - 1]
        /\ pick' = pick /\ Count(m) /\ strategy' = strategy
    BY <1>3 DEF RetryBooks
  <2>2. \A b \in Members : Open(b)' <= IF b = m THEN Open(b) - 1 ELSE Open(b)
    BY <1>0, <2>1 DEF Open, Aimed
  <2> QED BY <1>0, <2>1, <2>2, FiguresKeepBudgets
<1>4. ASSUME NEW m \in Members, RetryEnds(m)
      PROVE  PassedBudget' /\ LimitBudget'
  <2>1. \A b \in Members : Open(b)' <= Open(b)
    BY <1>0, <1>4 DEF RetryEnds, Open, Aimed
  <2> QED BY <1>4, <2>1, QuietKeepsBudgets DEF RetryEnds
<1>5. ASSUME Count(Nobody), UNCHANGED <<strategy, pick, owed>>,
             \A b \in Members : last'[b] \in {last[b], clock}
      PROVE  PassedBudget' /\ LimitBudget'
  <2>1. \A b \in Members : Open(b)' <= IF b = Nobody THEN Open(b) - 1 ELSE Open(b)
    BY <1>0, <1>5 DEF Open, Aimed
  <2> QED BY <1>0, <1>5, <2>1, FiguresKeepBudgets
<1>6. ASSUME NEW m \in Members, BookUnpicked(m)
      PROVE  PassedBudget' /\ LimitBudget'
  BY <1>0, <1>5, <1>6 DEF BookUnpicked
<1>7. ASSUME NEW m \in Members, NEW n \in 0..MaxCount, CorrectLoad(m, n)
      PROVE  PassedBudget' /\ LimitBudget'
  BY <1>5, <1>7 DEF CorrectLoad
<1>8. ASSUME NEW m \in Members, ShiftChange(m)
      PROVE  PassedBudget' /\ LimitBudget'
  BY <1>5, <1>8 DEF ShiftChange
<1>9. CASE Second \/ UNCHANGED balancingVars
  <2>1. pick' = pick /\ owed' = owed
    BY <1>9 DEF Second, balancingVars
  <2>2. \A b \in Members : Open(b)' <= Open(b)
    BY <1>0, <2>1 DEF Open, Aimed
  <2> QED BY <1>9, <2>2, QuietKeepsBudgets DEF Second, balancingVars
<1> QED BY PickKeepsBudgets, <1>1, <1>2, <1>3, <1>4, <1>6, <1>7, <1>8, <1>9 DEF BalancingNext

LEMMA BalancingInductive == BalancingSpec => []BalancingInv
<1>1. BalancingInit => BalancingInv
  <2> SUFFICES ASSUME BalancingInit PROVE BalancingInv
    OBVIOUS
  <2>1. BalancingTypeOK
    BY BalancingAssumption DEF BalancingInit, BalancingTypeOK
  <2>2. ClockAhead
    BY DEF BalancingInit, ClockAhead, Never
  <2>3. PassedBudget
    BY DEF BalancingInit, PassedBudget
  <2>4. LimitBudget
    BY <2>1, OpenBounded DEF BalancingInit, LimitBudget
  <2> QED BY <2>1, <2>2, <2>3, <2>4 DEF BalancingInv
<1>2. BalancingInv /\ [BalancingNext]_balancingVars => BalancingInv'
  BY BalancingTypeStep, ClockStep, BudgetStep DEF BalancingInv
<1> QED BY <1>1, <1>2, PTL DEF BalancingSpec

\* The comparison handed to sort.Slice is a strict weak order, and total under
\* round_robin, for every group, every limit and every clock.
THEOREM OrdersSound == BalancingSpec => []OrderSound
<1>1. BalancingInv => OrderSound
  BY TypedOrder DEF BalancingInv
<1> QED BY <1>1, BalancingInductive, PTL

\* A colleague passes over a waiting member with the picks that were open when it
\* was the member's turn and with no others, deferred ones included, however many
\* members, dispatchers and rows of the dead letter queue there are, and whatever
\* people assign in between.
THEOREM BypassLimited == BalancingSpec => []BypassBounded
<1>1. BalancingInv => BypassBounded
  <2> SUFFICES ASSUME BalancingInv, NEW b \in Members, NEW c \in Members
               PROVE  passed[b][c] <= Outstanding
    BY DEF BypassBounded
  <2>1. passed[b][c] \in Nat /\ Outstanding \in Nat /\ Open(b) \in Nat
    BY OpenBounded DEF BalancingInv, BalancingTypeOK
  <2> QED BY <2>1 DEF BalancingInv, PassedBudget
<1> QED BY <1>1, BalancingInductive, PTL

\* However a member came to his limit, the service books him no more of its picks
\* than were open at that moment, after an outage as well.
THEOREM OvershootLimited == BalancingSpec => []OvershootBounded
<1>1. BalancingInv => OvershootBounded
  <2> SUFFICES ASSUME BalancingInv, NEW m \in Members
               PROVE  over[m] <= Outstanding
    BY DEF OvershootBounded
  <2>1. /\ over[m] \in Nat /\ Outstanding \in Nat /\ Open(m) \in Nat
        /\ load[m] \in Nat /\ MaxLoad \in Nat
    BY OpenBounded, BalancingAssumption DEF BalancingInv, BalancingTypeOK
  <2> QED BY <2>1 DEF BalancingInv, LimitBudget
<1> QED BY <1>1, BalancingInductive, PTL

=============================================================================
