SPECIFICATION Spec

CONSTANTS
  Files <- Kinds
  MaxDepths <- MCDepths
  MaxLevel = 3

INVARIANTS
  TypeOK
  DepthBounded
  NotSkippedEarly

CHECK_DEADLOCK FALSE
