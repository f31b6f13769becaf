SPECIFICATION Spec
CONSTANTS
  Request = {r1, r2}
  User = {u1, u2}
  Header = {h1, h2}
  Trial = {u2}
  Place = {p1, p2}
  Known = {p1}
  Flaw = {"none", "expired", "invalid"}
  NoRequest = NoRequest
  MaxConnections = 1
  MaxListed = 1
  MaxFaults = 1
  MaxChanges = 2
  MaxCrashes = 1
CHECK_DEADLOCK FALSE
SYMMETRY Symmetry
INVARIANTS TypeOK DeletedUsersPublishNothing BlacklistedCreateNothing AnnouncedIsStored AnswerTellsOutcome 
