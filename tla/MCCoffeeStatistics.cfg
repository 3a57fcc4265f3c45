\* Today is Sunday the 4th of January at first, Monday the 5th later; coffees of
\* two weeks ago, of one week ago, of the day after, of these two days.
SPECIFICATION StatisticsSpec
CONSTANTS
  Users = {1, 2}
  Machine = 2
  Groups = {1}
  NoGroup = 0
  Kinds = {2, 6, 7}
  Calendar <- MCCalendar
  WeekNo <- MCWeekNo
  CupDays = {28, 29, 35, 36}
  FirstDay = 35
  LastDay = 36
  WeekScopes <- MCWeekScopes
  Ranges <- MCRanges
  MaxCups = 2
  MaxChanges = 1
INVARIANTS
  StatisticsTypeOK
  WeekIsTrue
  ChartsAgree
  CountersAddUp
  DashboardIsTrue
