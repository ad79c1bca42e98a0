SPECIFICATION Spec

CONSTANTS
  Calls <- Inside
  Block = 2
  Zero <- MCZero
  SearchGap = 0
  Word = 2
  IntMax = 7
  Junk <- MCJunk
  Beyond <- MCBeyond

INVARIANT SameProgram

CHECK_DEADLOCK FALSE
