SPECIFICATION Spec
CONSTANTS
  a = a
  b = b
  c = c
  d = d
  Operator = {a, b, c, d}
  NoOperator = NoOperator
  MaxJobs = 4
  Programs <- ForkPrograms
CHECK_DEADLOCK FALSE
INVARIANTS
  OneReactionPerOperator
  
  
