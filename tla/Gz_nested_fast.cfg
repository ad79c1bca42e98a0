SPECIFICATION Spec

CONSTANTS
  Calls <- FastInside
  Block = 2
  Zero <- MCZero
  SearchGap = 0
  Word = 2
  IntMax = 7
  Junk <- MCJunk
  Beyond <- MCBeyond

INVARIANT SameContents

CHECK_DEADLOCK FALSE
