SPECIFICATION Spec
CONSTANTS
  Operator = {o1, o2}
  NoOperator = NoOperator
  MaxJobs = 2
  Programs <- SmallPrograms
SYMMETRY Symmetry
CHECK_DEADLOCK FALSE
INVARIANTS
  TypeOK
  SingleReaction
  SynchronizedOutcome
  HandledOperatorsLive
  
PROPERTIES
  ErasedOnlyWhenFinished
  
