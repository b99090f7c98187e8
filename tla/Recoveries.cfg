SPECIFICATION Spec
CONSTANTS
  Ids = {r1}
  System = system
  NoRecord = norecord
  Gone = gone
  Keep = keep
  BackupIds = {b1}
  MaxOps = 3
  MaxRestarts = 2
  Uploads = {u1, u2}
  Takes = {t1}
  Workers = {w1}
  MaxObject = 1
  MaxRecord = 2
  MaxUploads = 1
  MaxTransfers = 1
  Lease = 1
  Quiet = 1
  PutTime = 1
  MaxDeaths = 1
  MaxRefers = 0
  Accounts = {a1, a2}
  Sources = {s1}
  Requests = {q1, q2}
  Leases = {l1, l2}
  AccountLimit = 1
  SourceLimit = 2
  Window = 2
  MaxTracked = 2
  MaxLag = 1
  Shared = TRUE
  None = none
PROPERTIES
  RecoveryCompletes
  EndsServedOrClean
  LockoutsEnd
CHECK_DEADLOCK FALSE
