\* One call of a user and one deletion of the same user's account.
CONSTANTS
  c1 = c1  i1 = i1
  Calls = {c1}
  Instances = {i1}
  InstanceOf <- MCInstanceOf
  RequestIds = {r1}
  Messages = {m1}
  OpIds = {}
  Memories = {}
  Stamps = {}
  ArchivalEnabled = FALSE
  None = None
  MaxAdmissions = 1
  MaxApplied = 0
  Jobs = {j1}
  Workers = {w1}
  LeaseSeconds = 1
  MaxBatch = 1
  MaxAttempts = 2
  BackoffStep = 1
  BackoffCap = 1
  Horizon = 1
  MaxLate = 0
SPECIFICATION ErasureSpec
INVARIANT NothingAfterPurge
CHECK_DEADLOCK FALSE
