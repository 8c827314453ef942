\* Two threads that find no store, two turns, no privacy operation, no restart,
\* no import.
CONSTANTS
  RequestIds = {r1, r2}
  Messages = {m1}
  Threads = {t1, t2}
  MaxObjects = 2
  MaxTurns = 2
  MaxPrivacy = 0
  MaxStarts = 1
  None = None
  Fixtures <- MCFixtures
  MaxImports = 0
SPECIFICATION MCSpec
PROPERTY RecoveryLeavesLiveTurns
CHECK_DEADLOCK FALSE
