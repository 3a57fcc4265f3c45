\* Two connections for three requests.
SPECIFICATION FairSpec
CONSTANTS
  u1 = u1
  u2 = u2
  r1 = r1
  r2 = r2
  r3 = r3
  Users = {u1, u2}
  Requests = {r1, r2, r3}
  UserOf <- MCUserOf
  AmountOf <- MCAmountOf
  Quantity <- MCQuantity
  Nobody = Nobody
  PoolSize = 2
  MaxFaults = 2
INVARIANTS
  ReplyIsTrue
PROPERTIES
  EntersWhole
  EveryRequestEnds
CHECK_DEADLOCK FALSE
