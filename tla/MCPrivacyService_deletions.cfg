\* Three calls under one operation id, interleaved with two turns (the first one
\* deleted) and with the removal of the ledger row.
CONSTANTS
  PrivacyCalls = {p1, p2, p3}
  OpIds = {o1}
  Calls = {c1}
  RequestIds = {r1}
  Messages = {m1}
  Memories = {}
  Stamps = {1, 2}
  ArchivalEnabled = FALSE
  None = None
SPECIFICATION MCSpec
SYMMETRY MCSymmetry
INVARIANTS AppliedOnce DeletedIsGone
CHECK_DEADLOCK FALSE
