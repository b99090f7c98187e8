SPECIFICATION Spec
CONSTANTS
  Accounts = {a1}
  Sources = {s1}
  Requests = {q1, q2}
  Leases = {l1, l2, l3}
  AccountLimit = 2
  SourceLimit = 3
  Window = 2
  MaxTracked = 1
  MaxLag = 0
  Shared = FALSE
  None = none
PROPERTIES
  WrongAnswerIsCharged
SYMMETRY LoginSymmetry
