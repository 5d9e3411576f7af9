SPECIFICATION FairSpec
CONSTANTS
  o1 = o1
  o2 = o2
  e1 = e1
  e2 = e2
  Operator = {o1, o2}
  NoOperator = NoOperator
  Element = {e1, e2}
  MaxExecutions = 3
  MaxEvents = 2
  Programs <- WaitPrograms
  ShutDown <- EndingPrograms
CHECK_DEADLOCK FALSE
INVARIANTS
  TypeOK
  OneOwner
  FinishedWithOutcome
PROPERTIES
  NoLostEvent
