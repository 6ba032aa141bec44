\* A collective and a delegated message, and two of: a control command, a crash.
CONSTANTS
  m1 = m1
  m2 = m2
  manager = manager
  marketing = marketing
  advisor = advisor
  Messages = {m1, m2}
  NoMessage = NoMessage
  NoTask = NoTask
  Roles = {manager, marketing, advisor}
  NoRole = NoRole
  Tasks = {t1, t2}
  MaxRetries = 3
  MaxStarts = 4
  MaxRuns = 1
  MaxDisturbances = 2
  Conflicting = {m2}
  Threads = {m1, m2}
  MaxTurns = 3
  MaxAgents = 3
  ThreadOf <- MCThreadOf
  Kind <- MCKind
  Team <- MCTeam
SPECIFICATION GroupSpec
CHECK_DEADLOCK FALSE
INVARIANTS
  GroupTypeOK
  DoneIsComplete
  OneLateResponse
  GuardLeavesRoom
PROPERTIES
  RunsEnd
