CONSTANTS
  Values <- MCValues
  MaxBefore = 0
  MaxIn = 4
  MaxFaults = 1
  MaxOut = 0
SPECIFICATION Spec
INVARIANTS ResentIsIgnored
CHECK_DEADLOCK FALSE
