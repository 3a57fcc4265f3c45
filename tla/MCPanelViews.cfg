SPECIFICATION Spec
CONSTANTS
  Users = {1, 2}
  Admins = {1}
  NoUser = 0
  Names = {1, 2}
  Fresh = 1
  PageSize = 2
  MaxSteps = 4
  MaxOut = 1
  MaxEvents = 1
  Filters <- MCFilters
  FirstRows <- MCFirstRows
INVARIANTS
  TypeOK
  ListsAgree
  PageIsTrue
PROPERTIES
  LoadingEnds
CHECK_DEADLOCK FALSE
