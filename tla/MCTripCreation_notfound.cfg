SPECIFICATION Spec
CONSTANTS
  Request = {r1}
  User = {u1, u2}
  Header = {h1}
  Trial = {u2}
  Place = {p1, p2}
  Known = {p1}
  Flaw = {"none", "expired", "invalid"}
  NoRequest = NoRequest
  MaxConnections = 1
  MaxListed = 1
  MaxFaults = 0
  MaxChanges = 1
  MaxCrashes = 0
CHECK_DEADLOCK FALSE
PROPERTY NotFoundIs400
