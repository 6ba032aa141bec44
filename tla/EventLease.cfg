\* The three bots and one message, received again by each after a crash.
CONSTANTS
  Bots = {manager, marketing, advisor}
  Events = {e1}
  NoBot = NoBot
  MaxBoots = 2
SPECIFICATION Spec
CHECK_DEADLOCK FALSE
INVARIANTS
  TypeOK
  StaleOnlyAfterLapse
  SucceedsOnce
PROPERTIES
  ClosedByOwner
  TakenOver
