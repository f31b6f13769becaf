SPECIFICATION Spec
CONSTANTS
  User = {u1, u2}
  NoRow = NoRow
  NoEvent = NoEvent
  MaxEvents = 4
  MaxInFlight = 2
  MaxFaults = 1
  MaxOutages = 1
SYMMETRY Symmetry
INVARIANTS TypeOK Converged Provenance
PROPERTIES MirrorSpec PasswordNeverClobbered PasswordsOnlyAdvance DeletionIsFinal
CHECK_DEADLOCK FALSE
