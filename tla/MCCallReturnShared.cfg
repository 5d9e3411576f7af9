SPECIFICATION FairSpec
CONSTANTS
  c1 = c1
  c2 = c2
  w1 = w1
  w2 = w2
  v1 = v1
  v2 = v2
  a1 = a1
  a2 = a2
  Caller = {c1, c2}
  Waiter = {w1, w2}
  NoOperator = NoOperator
  Variable = {v1, v2}
  Action = {a1, a2}
  NoAction = NoAction
  MaxJobs = 4
  Programs <- SharedPrograms
CHECK_DEADLOCK FALSE
PROPERTIES
  AllWaitersReturn
