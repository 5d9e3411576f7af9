SPECIFICATION TemplateSpec
CONSTANTS
  x1 = x1
  x2 = x2
  x3 = x3
  x4 = x4
  x5 = x5
  y1 = y1
  y2 = y2
  y3 = y3
  y4 = y4
  y5 = y5
  t1 = t1
  t2 = t2
  TemplateVar = {t1, t2}
  Variable = {x1, x2, x3, x4, x5, y1, y2, y3, y4, y5}
  Worlds <- MCWorlds
  Jobs <- MCJobs
CHECK_DEADLOCK FALSE
INVARIANTS
  TypeOK
  SearchOutcome
  CollectOutcome
  EraseOutcome
  EraseSetOutcome
  GenOutcome
  RejectOutcome
  VariableOutcome
  TemplateOutcome
