SPECIFICATION Spec
CONSTANTS
  Series = {s1}
  MaxValue = 1
  HourLen = 2
  HoursPerDay = 2
  DaysPerWeek = 2
  MaxRows = 2
  MaxWrites = 3
  Times <- MCTimes
  Windows <- MCWindows
INVARIANTS
  TypeOK
  QuerySplitExact
  HourlyAnswerIsScan
  QueryBracketed
CHECK_DEADLOCK FALSE
