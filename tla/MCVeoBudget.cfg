SPECIFICATION Spec
CONSTANTS
  NoJob = NoJob
  NoSong = NoSong
  Jobs = {j1, j2}
  Songs = {s1, s2}
  Calls = {c1, c2}
  Listed = TRUE
  Cap = 1
  MaxAttempts = 3
  MaxRenames = 1
  MaxFaults = 2
SYMMETRY Symmetry
INVARIANTS
  CeilingHeld
  SpendIsKept
PROPERTIES
  ImplementsSpend
CHECK_DEADLOCK FALSE
