CONSTANTS
  Values <- MCValues
  MaxBefore = 0
  MaxIn = 2
  MaxFaults = 0
  MaxOut = 1
SPECIFICATION FairSpec
PROPERTIES BothGoroutinesExit
CHECK_DEADLOCK FALSE
