\* Two tasks, the second of which may depend on the first, and three roles.
CONSTANTS
  Tasks = {t1, t2}
  Roles = {manager, marketing, advisor}
  NoRole = NoRole
  MaxRetries = 2
  MaxStarts = 1
SYMMETRY TaskSymmetry
SPECIFICATION Spec
CHECK_DEADLOCK FALSE
INVARIANTS
  TypeOK
  DependenciesGate
PROPERTIES
  TerminalIsFinal
  NeverOwnedTwice
