\* Spurious wakeups, faults and a shutdown.
SPECIFICATION HandoverFairSpec
CONSTANTS
  Readings = {r1, r2}
  Zero = Zero
  Nobody = Nobody
  Spurious = TRUE
  MaxFaults = 2
  MaxStops = 1
CHECK_DEADLOCK FALSE
INVARIANTS
  HandoverTypeOK
  ServedOnce
PROPERTIES
  SessionKeyStays
  ShutdownReaches
