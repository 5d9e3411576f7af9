SPECIFICATION FairSpec
CONSTANTS
  a = a
  b = b
  p = p
  q = q
  r = r
  s = s
  t = t
  u = u
  Agent = {a, b}
  Implementation = {p, q, r, s, t, u}
  AgentsOf <- MCAgentsOf
  Independent = {p, q, r, s, t}
  Specified = {p, q, r, s, u}
  ProgramTuples <- MCProgramTuples
  Limit = {0, 1, 2}
  Default = 2
  MaxChanges = 2
  MaxEvents = 1
  Budgets <- MCBudgets
  MaxDelay = 2
  MaxTime = 4
CHECK_DEADLOCK FALSE
INVARIANTS
  TypeOK
  
PROPERTIES
  Settles
