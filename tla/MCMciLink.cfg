\* Every fault of the line, and other threads that open and close descriptors.
\* Two signals meet the thread in select.
SPECIFICATION LinkFairSpec
CONSTANTS
  MaxFd = 3
  Closed = Closed
  MaxOthers = 2
  MaxInterrupts = 2
INVARIANTS
  ErrorFlagAgrees
PROPERTIES
  LinkServes
