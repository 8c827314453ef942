\* Two threads, two turn executions, one privacy operation, one restart and two
\* imports.
CONSTANTS
  RequestIds = {r1, r2}
  Messages = {m1, m2}
  Threads = {t1, t2}
  MaxObjects = 2
  MaxTurns = 2
  MaxPrivacy = 1
  MaxStarts = 2
  None = None
  Fixtures <- MCFixtures
  MaxImports = 2
SPECIFICATION MCSpec
SYMMETRY MCSymmetry
INVARIANTS NothingComesBack AnswersFit ReservationsAreOwned OneTurnPerRequest
PROPERTY NoLostUpdate
CHECK_DEADLOCK FALSE
