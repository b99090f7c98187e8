SPECIFICATION RecordsSpec
CONSTANTS
  stu = stu
  fac = fac
  r1 = r1
  r2 = r2
  Users <- MCUsers
  AccountRole <- MCAccountRole
  Commands <- AccessCommands
  Requests = {r1, r2}
  MaxChanges = 3
  NoRevision = NoRevision
  i1 = i1
  i2 = i2
  Ids = {i1, i2}
  Calls <- MCCalls
  Transactions = {1, 2, 3}
  System = System
  PoolMax = 3
SYMMETRY Symm
INVARIANTS ChangesAreExact ExportIsFresh RowsAreSound
PROPERTIES ImplementsCommands CommitsAreLogged
CHECK_DEADLOCK FALSE
