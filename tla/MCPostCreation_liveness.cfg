SPECIFICATION FairSpec
CONSTANTS
  u1 = u1
  u2 = u2
  t1 = t1
  png = png
  jpg = jpg
  gif = gif
  Request = {r1, r2}
  User = {u1}
  Trip = {t1}
  Owner <- OwnerOfTrip
  File = {png, gif}
  PublicId <- IdOfFile
  NoRequest = NoRequest
  NoFile = NoFile
  MaxConnections = 0
  MaxDescriptors = 3
  MaxFaults = 0
  MaxChanges = 0
  MaxCrashes = 1
CHECK_DEADLOCK FALSE
PROPERTY UploadsEnd
