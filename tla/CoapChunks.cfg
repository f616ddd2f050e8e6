SPECIFICATION FairSpec
CONSTANTS
  CHUNKS_TOTAL = 18
  BlockSize <- MCBlockSize
  MAX_BLOCK_SIZE = 8
CHECK_DEADLOCK FALSE
INVARIANTS EndSignalled WholeTransferred
PROPERTIES TransferEnds
