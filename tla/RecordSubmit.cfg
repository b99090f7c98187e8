SPECIFICATION Spec
CONSTANTS
  fac = fac
  Users <- MCUsers
  AccountRole <- MCAccountRole
  Commands <- SubmitCommands
  MaxChanges = 4
INVARIANT SubmitCreatesVersion
CHECK_DEADLOCK FALSE
