SPECIFICATION DiskSpec
CONSTANTS
  Devices <- MCDevices
  Related <- MCRelated
  MaxParts = 2
INVARIANTS OneRoot
CHECK_DEADLOCK FALSE
