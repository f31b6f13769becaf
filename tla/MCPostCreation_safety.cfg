SPECIFICATION Spec
CONSTANTS
  u1 = u1
  u2 = u2
  t1 = t1
  png = png
  jpg = jpg
  gif = gif
  Request = {r1, r2}
  User = {u1, u2}
  Trip = {t1}
  Owner <- OwnerOfTrip
  File = {png, gif}
  PublicId <- IdOfFile
  NoRequest = NoRequest
  NoFile = NoFile
  MaxConnections = 1
  MaxDescriptors = 3
  MaxFaults = 1
  MaxChanges = 1
  MaxCrashes = 0
CHECK_DEADLOCK FALSE
SYMMETRY Symmetry
INVARIANTS TypeOK OnlyOwnersLeaveTraces OnlyStoredIsTold DirectoryKillsOnce UnsharedImagesAreTheirs
PROPERTY DeliverySpec
