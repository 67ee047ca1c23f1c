CONSTANTS
  v1 = v1
  v2 = v2
  c1 = c1
  e1 = e1
  Null = Null
  Garbage = Garbage
  Vals <- MCVals
  Conds <- MCConds
  Ids <- MCIds
  Operands <- MCOperands
  MaxList = 2

SPECIFICATION Spec

INVARIANT
  PointerReadsDefined
