\* Admission: one user, one message a minute, two messages and three units a day;
\* a minute is two time units, a day six, and a call may wait one for the lock.
\* Snapshots: two turns and a reset over a half-life of tension and two of the rest.
\* Prompt: up to six rows of history.
CONSTANTS
  t1 = t1
  t2 = t2
  o1 = o1
  Turns = {t1, t2}
  Resets = {o1}
  Bad = Bad
  Absent = Absent
  PadHalfLife = 1
  TensionHalfLife = 2
  MaxShift = 25
  NegativePleasure <- MCNegativePleasure
  PositivePleasure = 30
  TensionIncrease = 5
  TensionRelief = 5
  ActivationThreshold = 80
  RecoveryThreshold = 30
  MaxTime = 3
  Replies <- MCReplies
  StoredRows <- MCStoredRows
  MessageSizes = {0, 1, 4}
  Documents <- MCDocuments
  OptionalSizes = {0, 3}
  PolicySize = 3
  Frame = 1
  MaxUnits = 20
  HistoryLimit = 4
  MaxRows = 6
  Users = {u1}
  RequestIds = {r1, r2, r3}
  Messages = {m1}
  Networks = {n1}
  Sessions = {t1, t2}
  Units = {1, 2}
  Minute = 2
  Day = 6
  UserPerMinute = 1
  NetworkPerMinute = 2
  ApplicationPerMinute = 2
  UserPerDay = 2
  UnitsPerDay = 3
  MessageMaxUnits = 2
  BatchSize = 1
  MaxRowsPerCategory = 2
  MaxWait = 1
  Skews = {0, 2}
  MaxClock = 7
  NoCall = NoCall
SPECIFICATION MCSpec
SYMMETRY MCSymmetry
INVARIANTS WithinQuotas DailyUnits SnapshotsServeTurns ReadAsMeant
  PromptServesTurn EnginePromptsFit
CHECK_DEADLOCK FALSE
