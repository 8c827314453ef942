\* Chat: two sends or retries and two turns; two of a deletion of the history,
\* a cleared screen, a send without an id and a restart.  Window: three calls.
CONSTANTS
  RequestIds = {r1, r2}
  Messages = {m1}
  Threads = {t1, t2}
  MaxObjects = 1
  MaxTurns = 2
  MaxPrivacy = 1
  MaxStarts = 2
  TurnErrors = {"rate_limited"}
  PanelOps = {"delete_history"}
  MaxSends = 2
  MaxEvents = 2
  None = None
  MaxCalls = 3
  Movers = {h1}
  Unset = Unset
  Screen = Screen
  Unread = Unread
  Layouts <- MCLayouts
  DragTo = {10}
  WindowSize <- MCWindowSize
  PresenceSize <- MCPresenceSize
  MinSize <- MCMinSize
SPECIFICATION ShellSpec
SYMMETRY MCSymmetry
INVARIANTS SentIsAnswered ShownIsStored
  ModeMatchesWindow NobodyWaitsForever ClampSettles
PROPERTIES FailedMeansOver ReturnsWhereItWas
CHECK_DEADLOCK FALSE
