CONSTANTS
  Values <- MCValues
  MaxBefore = 1
  MaxIn = 3
  MaxFaults = 1
  MaxOut = 1
SPECIFICATION FairSpec
INVARIANTS TypeOK NumberedInOrder NothingSkipped GapIsMadeGood NoFalseAlarm
PROPERTIES ClosedSessionStops
CHECK_DEADLOCK FALSE
