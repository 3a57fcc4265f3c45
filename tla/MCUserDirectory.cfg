\* Three requests for one name; one fault and one thing that somebody else does.
SPECIFICATION FairSpec
CONSTANTS
  r1 = r1
  r2 = r2
  r3 = r3
  Requests = {r1, r2, r3}
  KindsOf <- MCKindsOf
  Names = {n1}
  Passwords = {p1, p2}
  None = None
  Types = {low, out}
  PoolSize = 2
  MaxFaults = 1
  MaxActs = 1
CHECK_DEADLOCK FALSE
INVARIANTS
  TypeOK
  OneWholeAccount
  AnswersAreTrue
PROPERTIES
  PasswordIsKnown
  EveryRequestEnds
