SPECIFICATION FairSpec
CONSTANTS
  a = a
  b = b
  c = c
  d = d
  Operator = {a, b, c, d}
  NoOperator = NoOperator
  MaxJobs = 4
  Programs <- EndingPrograms
CHECK_DEADLOCK FALSE
PROPERTIES
  RequestAnswered
  ProcessErased
