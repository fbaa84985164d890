CONSTANTS
  MaxSockets = 3
  MaxToggles = 2
SPECIFICATION Spec
INVARIANTS HoldsItsSocket
PROPERTIES EventuallyFollowing
CHECK_DEADLOCK FALSE
