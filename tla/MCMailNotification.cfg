\* Two calls at a time, three bookings or settings, one fault.
SPECIFICATION Spec
CONSTANTS
  Calls = {c1, c2}
  Amounts = {1, 3}
  Limits = {2}
  MaxSteps = 3
  MaxFaults = 1
SYMMETRY CallSymmetry
CHECK_DEADLOCK FALSE
INVARIANTS
  TypeOK
  OneReminder
  ReminderComes
