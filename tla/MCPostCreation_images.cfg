SPECIFICATION Spec
CONSTANTS
  u1 = u1
  u2 = u2
  t1 = t1
  png = png
  jpg = jpg
  gif = gif
  Request = {r1, r2}
  User = {u1, u2}
  Trip = {t1}
  Owner <- OwnerOfTrip
  File = {png, jpg}
  PublicId <- IdOfFile
  NoRequest = NoRequest
  NoFile = NoFile
  MaxConnections = 1
  MaxDescriptors = 3
  MaxFaults = 0
  MaxChanges = 0
  MaxCrashes = 0
CHECK_DEADLOCK FALSE
SYMMETRY Symmetry
INVARIANT StoredUrlsLeadToImages
