SPECIFICATION Spec
CONSTANTS
  u1 = u1
  u2 = u2
  Records = {r1, r2}
  n1 = n1
  n2 = n2
  None = none
  Origins = {1, 2, 3}
  MaxRev = 2
  MaxEdits = 2
  Restored = {1}
  Intents = {i1, i2}
  Limit = 2
  MaxDraftEdits = 2
  MaxItems = 3
  Garbage = garbage
  Typed = {0}
  MaxTyped = 3
  MaxTurns = 5
  Columns = {"body", "head"}
  MeasureIds = {0, 1}
  SymbolIds = {1, 2}
  MaxSymbols = 3
  MaxMeasures = 2
  MaxStaffEdits = 2
INVARIANTS
  TabsAreSound
  TabsConverge
  WorkIsKept
PROPERTY StepsAreExact
SYMMETRY Symmetry
CHECK_DEADLOCK FALSE
