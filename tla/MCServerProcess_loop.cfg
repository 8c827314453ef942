\* Three turns of one user; two lifespan cycles with two polls, or one and a
\* request; command lines of up to three arguments.
CONSTANTS
  Tasks = {t1, t2, t3}
  Objects = {o1, o2, o3}
  None = None
  MaxStartups = 2
  MaxPolls = 2
  Requests = {r1}
  Absent = Absent
  Missing = Missing
  Bad = Bad
SPECIFICATION ProcessSpec
INVARIANTS MutualExclusion OneProbeInFlight NothingOutlivesLifespan OneWorker
PROPERTY EveryWaitEnds
CHECK_DEADLOCK FALSE
