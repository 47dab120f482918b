CONSTANTS
  Users = {u1, u2, u3}
  MaxCalls = 2
  MaxSessions = 3
SPECIFICATION FairSpec
INVARIANTS TypeOK NoneLeftBehind CloseEndsSessions
PROPERTIES HandedOutOpen CallsReturn
CHECK_DEADLOCK FALSE
