------------------------------ MODULE Schedule ------------------------------
(***************************************************************************)
(* Who is on shift: internal/config/config.go, IsAssigneeWorking with the  *)
(* defaults, the checks and the absences it relies on.  One member of one  *)
(* group is watched while the clock runs.  The clock counts whole units    *)
(* (the code's minutes) from a Monday 00:00 UTC; DayLength of them make a  *)
(* day.  A time zone is a fixed offset in units.                           *)
(***************************************************************************)
EXTENDS Integers

CONSTANTS
  DayLength,       \* units in a day
  Horizon,         \* the last unit observed (bound)
  Missing,         \* a field the file leaves out
  GroupSchedules,  \* schedules a file may give the group
  OwnSchedules,    \* schedules a file may give the member, Missing for none
  AbsenceLists     \* lists of absences a file may give the member, as sets

Minutes == 0..DayLength - 1
Weekdays == 1..7

\* Zones are less than a day from UTC (-12h to +14h in the database of IANA).
Zones == 1 - DayLength..DayLength - 1

\* The days are any integers: Validate does not look at them.
WrittenSchedule == [zone : Zones \cup {Missing}, days : SUBSET Int,
                    start : Minutes \cup {Missing}, end : Minutes \cup {Missing}]

\* "YYYY-MM-DD" is a day number, RFC3339 an instant.
AbsenceEnd == [dated : BOOLEAN, at : Int] \cup {Missing}
Absence == [from : AbsenceEnd, to : AbsenceEnd]

\* validateHours: both hours or neither.
HoursValid(s) == (s.start = Missing) <=> (s.end = Missing)

ASSUME ScheduleAssumption ==
  /\ DayLength \in Nat \ {0}
  /\ Horizon \in Nat
  /\ Missing \notin Int /\ Missing \notin [dated : BOOLEAN, at : Int]
  /\ GroupSchedules \subseteq WrittenSchedule
  /\ Missing \notin WrittenSchedule
  /\ \A s \in OwnSchedules \ {Missing} : s \in WrittenSchedule /\ HoursValid(s)
  /\ AbsenceLists \subseteq SUBSET Absence

VARIABLES
  group,     \* GroupConfig.Schedule as loaded
  own,       \* AssigneeConfig.Schedule, or Missing
  absences,  \* AssigneeConfig.Absences
  now,       \* the instant IsAssigneeWorking is asked about
  idle       \* ghost: units since the member was last scheduled to work

scheduleVars == <<group, own, absences, now, idle>>

-----------------------------------------------------------------------------
(* Loading *)

\* Mutated form of Defaulted: the end of the day is not filled in.
DefaultedHalf(s) ==
  [zone  |-> IF s.zone = Missing THEN 0 ELSE s.zone,
   days  |-> IF s.days = {} THEN 1..5 ELSE s.days,
   start |-> IF s.start = Missing THEN 0 ELSE s.start,
   end   |-> s.end]

\* applyDefaultsAndEnv, for a group; a member's own schedule gets no defaults.
Defaulted(s) ==
  [zone  |-> IF s.zone = Missing THEN 0 ELSE s.zone,
   days  |-> IF s.days = {} THEN 1..5 ELSE s.days,
   start |-> IF s.start = Missing THEN 0 ELSE s.start,
   end   |-> IF s.end = Missing THEN DayLength - 1 ELSE s.end]

\* The member's own schedule replaces the group's as a whole.
InForce == IF own = Missing THEN group ELSE own

-----------------------------------------------------------------------------
(* IsAssigneeWorking *)

\* LoadLocation("") is UTC.
Local(s, t) == t + (IF s.zone = Missing THEN 0 ELSE s.zone)
LocalDay(s, t) == Local(s, t) \div DayLength
MinuteOfDay(s, t) == Local(s, t) % DayLength

\* time.Weekday of a local day, Sunday being 0.
GoWeekday(d) == (d + 1) % 7

\* Mutated form of Weekday: Sunday stays 0, where a file writes 7.
WeekdaySundayZero(d) == GoWeekday(d)

Weekday(d) == IF GoWeekday(d) = 0 THEN 7 ELSE GoWeekday(d)

Overnight(s) == s.start > s.end

\* Mutated form of InHours: a shift ends before the minute that is its end.
InHoursHalfOpen(s, m) ==
  \/ s.start = Missing
  \/ /\ s.start # Missing /\ ~Overnight(s)
     /\ s.start <= m /\ m < s.end
  \/ /\ s.start # Missing /\ Overnight(s)
     /\ (m >= s.start \/ m < s.end)

\* Both ends belong to the shift; without hours every minute does.
InHours(s, m) ==
  \/ s.start = Missing
  \/ /\ s.start # Missing /\ ~Overnight(s)
     /\ s.start <= m /\ m <= s.end
  \/ /\ s.start # Missing /\ Overnight(s)
     /\ (m >= s.start \/ m <= s.end)

\* Mutated form of Scheduled: the weekday of an overnight shift's morning is
\* looked up in UTC.
ScheduledByUTCDay(s, t) ==
  /\ Weekday(t \div DayLength) \in s.days
  /\ InHours(s, MinuteOfDay(s, t))

\* The weekday is that of the current local day, also after midnight.
Scheduled(s, t) ==
  /\ Weekday(LocalDay(s, t)) \in s.days
  /\ InHours(s, MinuteOfDay(s, t))

-----------------------------------------------------------------------------
(* isTimeInAbsence *)

FirstInstant(e) == IF e.dated THEN e.at * DayLength ELSE e.at

\* Mutated form of LastInstant: a date ends with its first instant.
LastInstantMidnight(e) == IF e.dated THEN e.at * DayLength ELSE e.at

\* A date lasts to its end (+24h-1ns), in UTC.
LastInstant(e) == IF e.dated THEN e.at * DayLength + DayLength - 1 ELSE e.at

\* Mutated form of InAbsence: a period without an end is ignored.
InAbsenceClosed(t, p) ==
  /\ p.from # Missing /\ p.to # Missing
  /\ t >= FirstInstant(p.from)
  /\ t <= LastInstant(p.to)

\* A side left out does not bound the period; a period without sides is none.
InAbsence(t, p) ==
  /\ p.from # Missing \/ p.to # Missing
  /\ p.from # Missing => t >= FirstInstant(p.from)
  /\ p.to # Missing => t <= LastInstant(p.to)

\* IsAssigneeAbsent
Absent(t) == \E p \in absences : InAbsence(t, p)

\* IsAssigneeWorking
Working(t) == ~Absent(t) /\ Scheduled(InForce, t)

-----------------------------------------------------------------------------
(* The clock *)

ScheduleInit ==
  /\ group \in {Defaulted(s) : s \in GroupSchedules}
  /\ own \in OwnSchedules
  /\ absences \in AbsenceLists
  /\ now = 0
  /\ idle = 0

ClockTick ==
  /\ now < Horizon
  /\ now' = now + 1
  /\ idle' = IF Scheduled(InForce, now') THEN 0 ELSE idle + 1
  /\ UNCHANGED <<group, own, absences>>

ScheduleNext == ClockTick

ScheduleSpec == ScheduleInit /\ [][ScheduleNext]_scheduleVars

-----------------------------------------------------------------------------
(* Properties *)

\* A group in force is complete, whatever the file left out, so that the hours
\* of config.go:508 are never read from a group that has only one of them.
ScheduleTypeOK ==
  /\ group \in [zone : Zones, days : (SUBSET Int) \ {{}},
                start : Minutes, end : Minutes]
  /\ own \in OwnSchedules
  /\ absences \in AbsenceLists
  /\ now \in 0..Horizon
  /\ idle \in 0..Horizon

\* What a reader of the file expects: a shift belongs to the day it begins on
\* and runs, over midnight if need be, to its last minute.
Span(s) == s.start .. (IF Overnight(s) THEN s.end + DayLength ELSE s.end)
OnShift(s, t) ==
  \E k \in {0, 1} : /\ Weekday(LocalDay(s, t) - k) \in s.days
                    /\ MinuteOfDay(s, t) + k * DayLength \in Span(s)

WorkDay(s, t, k) == Weekday(LocalDay(s, t) - k) \in s.days

\* The code's look at today's weekday and the shift as a reader means it
\* (OnShift) agree, in every zone, except after midnight in an overnight shift
\* between a working day and a day off (config.go:492).
ShiftAgrees ==
  LET s == InForce
  IN  (s.start # Missing /\ ~(Scheduled(s, now) <=> OnShift(s, now))) =>
         /\ Overnight(s)
         /\ MinuteOfDay(s, now) <= s.end
         /\ ~(WorkDay(s, now, 0) <=> WorkDay(s, now, 1))

\* A shift and its relief, from the minute after its end to the minute before
\* its start, divide every working day: at each minute exactly one of the two
\* is scheduled, over midnight as well (config.go:524-528).
Relief(s) == [s EXCEPT !.start = (s.end + 1) % DayLength,
                       !.end = (s.start - 1) % DayLength]

HandoverComplete ==
  LET s == InForce
  IN  (s.start # Missing /\ Relief(s).start # s.start /\ WorkDay(s, now, 0)) =>
         ~(Scheduled(s, now) <=> Scheduled(Relief(s), now))

\* A file may name any number as a day of work, and loads with it: Validate does
\* not compare days with 1..7 (config.go:119, 334).  Whoever has a day of the
\* week among them is scheduled at least once in any seven days, Sunday included
\* (config.go:492); whoever has only others, 0 or 8 say, is never on duty, and
\* nothing reports it.
ScheduledEveryWeek ==
  /\ InForce.days \cap Weekdays # {} => idle < 7 * DayLength
  /\ InForce.days \cap Weekdays = {} => ~Working(now)

LocallyInside(s, t, p) ==
  /\ p.from # Missing \/ p.to # Missing
  /\ p.from # Missing => p.from.dated /\ LocalDay(s, t) > p.from.at
  /\ p.to # Missing => p.to.dated /\ LocalDay(s, t) < p.to.at

\* Dates are read in UTC, the shift in the member's zone, which is less than a
\* day away: still nobody works on a local day strictly inside an absence given
\* in dates, open sides included (config.go:435).
AbsentInsideDates ==
  (\E p \in absences : LocallyInside(InForce, now, p)) => ~Working(now)

\* An absence given in dates never begins or ends within a day (config.go:443):
\* of two periods the second of which starts the day after the first, nobody
\* works in between.
AbsentByWholeDays ==
  [][ (/\ \A p \in absences : \A e \in {p.from, p.to} : e = Missing \/ e.dated
       /\ now \div DayLength = now' \div DayLength)
      => (Absent(now) <=> Absent(now)') ]_scheduleVars

=============================================================================
