SPECIFICATION Spec
CONSTANTS
  Uploads = {u1, u2}
  Takes = {t1}
  MaxObject = 2
  MaxRecord = 2
  MaxUploads = 2
  Lease = 1
  PutTime = 1
  MaxStops = 1
  None = none
INVARIANT TakesHaveBytes
SYMMETRY MediaSymmetry
CHECK_DEADLOCK FALSE
