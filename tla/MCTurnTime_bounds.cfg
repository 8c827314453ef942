\* Two turns of one user, with a write that outlives the deadline; two
\* completions on three keys, two attempts each.
CONSTANTS
  t1 = t1
  t2 = t2
  Turns = {t1, t2}
  TotalDeadline = 5
  Reserve = 2
  SupabaseTimeout = 1
  ProviderTimeout = 2
  MaxBackoff = 1
  MaxAttempts = 2
  LastArrival = 1
  MaxOverrun = 2
  None = None
  NoRow = NoRow
  Calls = {t1, t2}
  KeyCount = 3
  CallAttempts = 2
  CooldownDuration = 2
  Budget = 2
  LastTime = 3
  Failures = {"timeout", "rate_limited", "auth_failed", "invalid_request"}
  Nil = Nil
SPECIFICATION MCSpec
SYMMETRY MCSymmetry
INVARIANTS NoAbandonedWrite OnlyFailuresLose ExtractionsHaveSources
PROPERTIES EndsByDeadline GivesUpOnlyWithoutKeys
