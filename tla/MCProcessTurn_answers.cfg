\* Two calls of one instance over two ids and two messages, contending with a
\* privacy operation, under fairness.
CONSTANTS
  c1 = c1  c2 = c2  c3 = c3  i1 = i1  i2 = i2
  Calls = {c2, c3}
  Instances = {i2}
  InstanceOf <- MCInstanceOf
  RequestIds = {r1, r2}
  Messages = {m1, m2}
  OpIds = {o1}
  Memories = {}
  Stamps = {1}
  ArchivalEnabled = FALSE
  None = None
  MaxAdmissions = 1
  MaxApplied = 1
SPECIFICATION FairSpec
INVARIANT AnswerFitsMessage
PROPERTY EveryCallAnswered
CHECK_DEADLOCK FALSE
