\* A collective message and one for one agent, run again by a second bot.
CONSTANTS
  m1 = m1
  m2 = m2
  manager = manager
  marketing = marketing
  advisor = advisor
  Messages = {m1, m2}
  NoMessage = NoMessage
  NoTask = NoTask
  Roles = {manager, marketing, advisor}
  NoRole = NoRole
  Tasks = {t1, t2}
  MaxRetries = 3
  MaxStarts = 4
  MaxRuns = 2
  MaxDisturbances = 1
  Conflicting = {m2}
  Threads = {m1, m2}
  MaxTurns = 3
  MaxAgents = 3
  ThreadOf <- MCThreadOf
  Kind <- MCMixedKind
  Team <- MCMixedTeam
SPECIFICATION GroupSpec
CHECK_DEADLOCK FALSE
INVARIANTS
  NoOrphan
PROPERTIES
  Drains
