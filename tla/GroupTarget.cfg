\* One command, about one task, while another task is worked on.
CONSTANTS
  m1 = m1
  m2 = m2
  manager = manager
  marketing = marketing
  advisor = advisor
  Messages = {m1, m2}
  NoMessage = NoMessage
  NoTask = NoTask
  Roles = {manager, marketing, advisor}
  NoRole = NoRole
  Tasks = {t1, t2}
  MaxRetries = 3
  MaxStarts = 4
  MaxRuns = 1
  MaxDisturbances = 1
  Conflicting = {}
  Threads = {m1, m2}
  MaxTurns = 3
  MaxAgents = 3
  ThreadOf <- MCThreadOf
  Kind <- MCKind
  Team <- MCTeam
SPECIFICATION GroupSpec
CHECK_DEADLOCK FALSE
INVARIANT
  TargetedOnly
