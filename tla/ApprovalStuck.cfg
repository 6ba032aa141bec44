\* One request and handlers that may die: does /approve ever recover it?
CONSTANTS
  a1 = a1
  a2 = a2
  a3 = a3
  g1 = g1
  g2 = g2
  Approvals = {a1}
  Calls = {c1, c2}
  Groups = {g1, g2}
  GroupOf <- MCGroupOf
  Refused = {}
  NoCall = NoCall
  NoPage = NoPage
  MaxChanges = 1
  NoApproval = NoApproval
SPECIFICATION CommandFairSpec
CHECK_DEADLOCK FALSE
PROPERTY
  ExecutingResolves
