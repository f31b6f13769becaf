SPECIFICATION FairSpec
CONSTANTS
  p1 = p1
  p2 = p2
  p3 = p3
  c1 = c1
  c2 = c2
  c3 = c3
  Loader = {l1, l2}
  Size = 4
  Port = {p1, p2, p3}
  PortOf <- PortOfRecord
  Code = {c1, c2, c3}
  CodeOf <- CodeOfRecord
  Listed = {c1, c2}
  MaxFaults = 1
  MaxKills = 1
CHECK_DEADLOCK FALSE
INVARIANTS TypeOK Complete BeatenIsOvertaken
PROPERTIES RerunLoads StoredOnce
