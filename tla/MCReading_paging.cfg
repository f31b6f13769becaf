SPECIFICATION Spec
CONSTANTS
  u1 = u1
  u2 = u2
  w1 = w1
  w2 = w2
  w3 = w3
  Reader = {c1}
  User = {u1, u2}
  Row = {w1, w2, w3}
  Owner <- OwnerOfRow
  Arg <- Args
  Absent = Absent
  NaN = NaN
  NoQuery = NoQuery
  MaxTime = 3
CHECK_DEADLOCK FALSE
INVARIANTS TypeOK CountCoversPage NothingSkipped
