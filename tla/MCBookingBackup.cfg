\* Two good bookings and one the server refuses; every fault.
SPECIFICATION BusySpec
CONSTANTS
  Bookings = {b1, b2, bad}
  Poison = {bad}
  None = None
  FileFails = TRUE
  CreateFails = TRUE
  MaxFaults = 3
  MaxStops = 2
INVARIANTS
  BookedOnce
  NothingElseLost
PROPERTIES
  StoredIsBooked
