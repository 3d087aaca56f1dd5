SPECIFICATION BioSpec
CONSTANTS
  Hint = 2
  Source <- MCSource
  Lens = {0, 1, 3}
  MaxBytes = 4
  MaxFds = 2
INVARIANT Faithful
CHECK_DEADLOCK FALSE
