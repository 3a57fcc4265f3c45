\* No file fails and nothing stops; the server is unreachable twice.
SPECIFICATION Spec
CONSTANTS
  Bookings = {b1, b2}
  Poison = {}
  None = None
  FileFails = FALSE
  CreateFails = FALSE
  MaxFaults = 2
  MaxStops = 0
INVARIANT
  MoveLosesNothing
