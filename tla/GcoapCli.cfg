SPECIFICATION FairSpec
CONSTANTS
  small = small
  large = large
  long = long
  Path = {small, large, long}
  LongPath = {long}
  Empty = Empty
  Torn = Torn
  Blocks <- MCBlocks
  REQ_WAITING_MAX = 2
  RESEND_BUFS_MAX = 2
  MaxCommands = 3
CHECK_DEADLOCK FALSE
INVARIANTS OneRequestEach OutcomeTold
PROPERTIES ImplementsTransfer TransfersReported
