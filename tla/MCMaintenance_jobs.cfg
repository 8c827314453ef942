\* Two deletion workers over one request; leases, crashes and two late calls.
\* Two retention runners with a fast clock whose rounds overlap, with batches of one row and two
\* rows a round.
CONSTANTS
  u1 = u1
  Users = {u1}
  Jobs = {j1}
  UserOf <- MCUserOf
  Workers = {w1, w2}
  LeaseSeconds = 1
  MaxBatch = 1
  MaxAttempts = 2
  BackoffStep = 1
  BackoffCap = 2
  Horizon = 1
  MaxLate = 2
  None = None
  Runners = {r1, r2}
  AdmissionHorizon = 1
  PrivacyHorizon = 3
  PurgeBatch = 1
  PurgeLimit = 2
  Offsets = {1}
  RowIds = {1}
  Growing = {"admission_reservations"}
  LastDay = 5
SPECIFICATION MaintenanceSpec
INVARIANTS CompletedMeansDeleted SuccessMeansPurged
PROPERTIES OnlyTheOwnerActs EveryJobSettles BacklogDrains
