CONSTANTS
  Nil = Nil
  DayLength = 4
  Horizon = 40
  Missing = Nil
  GroupSchedules <- MCGroupSchedules
  OwnSchedules <- MCOwnSchedules
  AbsenceLists <- MCAbsenceLists
  Members <- MCMembers
  Dispatchers = {d1, d2}
  MaxLoad = 2
  MaxDeferred = 1
  MaxCount = 2
  MaxTime = 1
  Nobody = Nil
SPECIFICATION SelectionSpec
SYMMETRY SelectionSymmetry
CONSTRAINT FewTickets
INVARIANTS
  ScheduleTypeOK
  ShiftAgrees
  HandoverComplete
  ScheduledEveryWeek
  AbsentInsideDates
  OrderSound
  BypassBounded
  OvershootBounded
PROPERTIES
  AbsentByWholeDays
