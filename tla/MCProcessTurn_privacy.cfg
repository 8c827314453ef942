\* Two calls racing privacy operations, and ids that outlive their reservation.
CONSTANTS
  c1 = c1  c2 = c2  c3 = c3  i1 = i1  i2 = i2
  Calls = {c1, c2}
  Instances = {i1, i2}
  InstanceOf <- MCInstanceOf
  RequestIds = {r1, r2}
  Messages = {m1}
  OpIds = {o1, o2}
  Memories = {x1}
  Stamps = {1}
  ArchivalEnabled = TRUE
  None = None
  MaxAdmissions = 2
  MaxApplied = 2
SYMMETRY MCSymmetryPrivacy
SPECIFICATION Spec
INVARIANT AtMostOncePerAdmission
PROPERTIES ReadsHoldAtCommit SerialTurnsImplemented
CHECK_DEADLOCK FALSE
