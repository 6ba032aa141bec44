\* Old rows of two owners and a duplicate, two handlers, two writes, two crashes.
CONSTANTS
  ua = ua
  ub = ub
  k1 = k1
  k2 = k2
  Ids = {1, 2, 3, 4, 5, 6}
  OldMemories = {1, 2, 3}
  OldJournal = {6}
  Users = {ua, ub}
  NoActor = NoActor
  Shared = Shared
  Actor <- MCActor
  Key <- MCKey
  Age <- MCAge
  NoTable = NoTable
  ColumnCount = 2
  MaxCrashes = 2
  Handlers = {h1, h2}
  NoRow = NoRow
  NoVector = NoVector
  BackfillLimit = 2
  MaxItems = 2
  MaxWrites = 2
SPECIFICATION Spec
CHECK_DEADLOCK FALSE
INVARIANTS
  StoreTypeOK
  NothingVanishes
  ToldIsStored
  CopiesFresh
  SearchExact
PROPERTIES
  StartsKeep
  Starts
