SPECIFICATION Spec
CONSTANTS
  a1 = a1
  a2 = a2
  a3 = a3
  a4 = a4
  a5 = a5
  a6 = a6
  Arc = {a1, a2, a3, a4, a5, a6}
  None = None
  Structures <- MCStructures
CHECK_DEADLOCK FALSE
INVARIANTS
  TypeOK
  ParsedComplete
  OrderFree
