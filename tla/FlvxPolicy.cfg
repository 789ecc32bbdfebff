SPECIFICATION PolicySpec
CONSTANTS
  a = a
  b = b
  A = A
  B = B
  x = x
  y = y
  d = d
  e = e
  None = None
  Off = Off
  IPs = {x, y}
  Dests = {d, e}
  Ports = {1, 2}
  Nodes <- MCNodes
  Plans <- MCPlans
  Covers <- MCCovers
  Kinds <- MCKinds
  Budgets <- MCBudgets
  First <- MCFirst
  FirstCheck <- MCFirstCheck
  Total = 3
INVARIANTS
  NodesHaveTheirGuard
PROPERTIES
  AddsBehindRules
  PolicyConverges
CHECK_DEADLOCK FALSE
