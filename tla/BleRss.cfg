SPECIFICATION FairSpec
CONSTANTS
  b1 = b1
  n1 = n1
  long = long
  d1 = d1
  bulky = bulky
  none = none
  alien = alien
  Board = {b1}
  Name = {n1, long}
  Data = {d1, bulky}
  None = none
  Beacon <- MCBeacon
  Size <- MCSize
  AD_SPACE = 3
  MAX_VENDOR_DATA_SIZE = 2
  Duration = {1}
  FOREVER = 9
  LIST_SIZE = 1
  MaxTime = 2
  CycleArg <- MCCycleArg
INVARIANTS OnAirIsCurrent ReportOfThisCycle
PROPERTIES OffAirIsAsked ScanEnds
