SPECIFICATION Spec
CONSTANTS
  Accounts = {a1, a2, a3}
  Sources = {s1}
  Requests = {q1, q2}
  Leases = {l1, l2, l3, l4}
  AccountLimit = 2
  SourceLimit = 3
  Window = 2
  MaxTracked = 2
  MaxLag = 1
  Shared = TRUE
  None = none
INVARIANTS
  TypeOK
  AdmissionBound
PROPERTIES
  WindowsStand
  WrongAnswerIsCharged
SYMMETRY LoginSymmetry
