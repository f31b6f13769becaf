SPECIFICATION Spec
CONSTANTS
  u1 = u1
  u2 = u2
  u3 = u3
  t1 = t1
  t2 = t2
  p1 = p1
  p2 = p2
  p3 = p3
  Reader = {r1}
  User = {u1, u2, u3}
  Trial = {u3}
  Trip = {t1, t2}
  Owner <- OwnerOfTrip
  Post = {p1, p2, p3}
  About <- TripOfPost
  Malformed = Malformed
  NoRequest = NoRequest
  MaxFaults = 1
  MaxChanges = 2
CHECK_DEADLOCK FALSE
INVARIANTS TypeOK NothingGoesMissing DeletedUsersReadNothing
