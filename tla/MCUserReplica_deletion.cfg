SPECIFICATION Spec
CONSTANTS
  User = {u1, u2}
  NoRow = NoRow
  NoEvent = NoEvent
  MaxEvents = 3
  MaxInFlight = 2
  MaxFaults = 0
  MaxOutages = 0
SYMMETRY Symmetry
INVARIANT StatusMeansNotDeleted
CHECK_DEADLOCK FALSE
