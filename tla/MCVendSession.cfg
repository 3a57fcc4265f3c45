\* Two sessions back to back: the second may inherit what the first left.
SPECIFICATION FairSpec
CONSTANTS
  Items = {coffee, water}
  HotWater = water
  NoItem = NoItem
  NotEnough = NotEnough
  MaxSessions = 2
INVARIANTS
  EveryCupIsBooked
  NothingTwice
  GrantIsAllowed
PROPERTIES
  SessionEnds
