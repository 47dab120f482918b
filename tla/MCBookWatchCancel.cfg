CONSTANTS
  Cap = 1
  MaxPackets = 2
SPECIFICATION Spec
INVARIANTS OfferNeverFails
CHECK_DEADLOCK FALSE
