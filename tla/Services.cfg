SPECIFICATION Spec
CONSTANTS
  ada = ada
  MaxEdits = 6
  States = {1, 2, 3}
  Posts = {p1, p2}
  Ttl = 2
  MaxPending = 2
  TokenLife = 2
  Tolerance = 1
  MaxLag = 0
  MaxTime = 2
  MaxRestarts = 1
  MaxTokens = 1
  Processes = {k1, k2, k3}
  MaxPairs = 3
  None = none
  Logins = {d1, d2, d3, d4}
  MaxActive = 2
  MaxQueued = 1
  SessionLife = 1
  MaxClock = 2
  MaxStarts = 1
  MaxSessions = 2
  Accounts = {a1, a2}
  Sources = {c1}
  GuessRequests = {q1, q2}
  Leases = {l1, l2, l3}
  AccountLimit = 2
  SourceLimit = 6
  Window = 2
  MaxTracked = 1
  NoLag = 0
  Ids = {1, 2, 3}
  Actors = {"ada"}
  Titles = {"dance", "music"}
  AnyTitle = "any"
  Limits = {1, 2}
  MaxChanges = 2
  Requests = {r1, r2}
  MaxPasses = 4
  MaxRefreshes = 2
  Calls = {h1, h2}
  MaxBytes = 2
  Durations = {5, 11}
  Transfers = {t1, t2}
  MaxMishaps = 2
  Times = {0, 1, 2, 3}
  Fractions = {3}
  MaxRegions = 3
  MaxComments = 2
  MaxExtras = 2
  LocalHeader = 3
  CentralHeader = 4
  EndRecord = 2
  MaxName = 3
  MaxArchive = 21
  MaxNodes = 100
INVARIANTS
  TransitionsParse
  LaunchesAreSound
  PairIsSound
  LoginsAreSound
  WalkIsWhole
  RecoveryIsAlone
  AnswersAreSound
  FormatsAreSound
PROPERTY HistoryStands
SYMMETRY Symmetry
CHECK_DEADLOCK FALSE
