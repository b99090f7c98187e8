SPECIFICATION Spec
CONSTANTS
  Uploads = {u1, u2}
  Takes = {t1}
  Workers = {w1, w2}
  MaxObject = 2
  MaxRecord = 3
  MaxUploads = 2
  MaxTransfers = 1
  Lease = 2
  Quiet = 1
  PutTime = 1
  MaxStops = 1
  MaxRefers = 1
  None = none
INVARIANTS
  TakesAreServed
  AttachedIsReferenced
  LimitsHold
SYMMETRY MediaSymmetry
CHECK_DEADLOCK FALSE
