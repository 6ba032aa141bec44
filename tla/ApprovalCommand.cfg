\* Two requests for one page, one for a denied tool in another group, two handlers.
CONSTANTS
  a1 = a1
  a2 = a2
  a3 = a3
  g1 = g1
  g2 = g2
  Approvals = {a1, a2, a3}
  Calls = {c1, c2}
  Groups = {g1, g2}
  GroupOf <- MCGroupOf
  Refused = {a2}
  NoCall = NoCall
  NoPage = NoPage
  MaxChanges = 1
  NoApproval = NoApproval
SYMMETRY MCSymmetry
SPECIFICATION CommandSpec
CHECK_DEADLOCK FALSE
INVARIANTS
  ClosedUnrunIsClean
  NoStaleExecutor
  ClicksApprovedPage
