CONSTANTS
  o1 = o1
  o2 = o2
  x1 = x1
  x2 = x2
  Null = Null
  Garbage = Garbage
  Ops <- MCOps
  FirstOp = o1
  Contents <- MCContents
  MaxReqs = 2
  MaxDispatch = 2

SPECIFICATION Spec

INVARIANT
  AppliedReadsDefinedSkipped
