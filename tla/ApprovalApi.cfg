\* Two approvals, one for a denied tool; two calls that overlap, stall and die.
CONSTANTS
  a1 = a1
  a2 = a2
  g1 = g1
  g2 = g2
  Approvals = {a1, a2}
  Calls = {c1, c2}
  Groups = {g1, g2}
  GroupOf <- MCGroupOf
  Refused = {a2}
  NoCall = NoCall
  NoApproval = NoApproval
SPECIFICATION FairSpec
CHECK_DEADLOCK FALSE
INVARIANTS
  TypeOK
  EffectAtMostOnce
  ExecutedIsTrue
PROPERTIES
  ClosedIsFinal
  LeaseFences
  Resolves
  OneShotSpec
