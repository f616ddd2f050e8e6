SPECIFICATION Spec
CONSTANTS
  c1 = c1
  c2 = c2
  Client = {c1}
  Nobody = Nobody
  MAX_DATA_LEN = 5
  BLOCK_SIZE = 2
  COPIED = 1
  MaxRepeats = 1
CHECK_DEADLOCK FALSE
INVARIANTS EndSignalled
