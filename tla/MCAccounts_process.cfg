SPECIFICATION AccountsFairSpec
CONSTANTS
  User = {u1}
  NoRow = NoRow
  NoEvent = NoEvent
  MaxEvents = 3
  MaxInFlight = 2
  MaxFaults = 0
  MaxOutages = 1
  Request = {r1}
  Header = {h1}
  Trial = {}
  Place = {p1}
  Ports = {p1}
  Flaw = {"none"}
  NoRequest = NoRequest
  MaxConnections = 1
  MaxListed = 0
INVARIANTS SettledDeletionsHold PublishersWereCreated
PROPERTIES TripsSpec Settles Answered
CHECK_DEADLOCK FALSE
