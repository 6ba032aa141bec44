\* Two messages, the second perhaps a reply to the first or to a chunk of its answer.
CONSTANTS
  m1 = m1
  m2 = m2
  Messages = {m1, m2}
  NoMessage = NoMessage
  NoThread = NoThread
  NoTask = NoTask
  NoRow = NoRow
  Texts <- MCTexts
  MaxPages = 1
  Normal = 1
  Budget = 2
  MaxCalls = 1
  Chunks <- MCChunks
  MaxFaults = 1
SPECIFICATION Spec
CHECK_DEADLOCK FALSE
INVARIANTS
  TaskInThread
  ReplyContinues
  BudgetHolds
