SPECIFICATION Spec

CONSTANTS
  Calls <- AnyEnd
  Block = 2
  Zero <- MCZero
  SearchGap = 0
  Word = 2
  IntMax = 7
  Junk <- MCJunk
  Beyond <- MCBeyond

INVARIANT EndsInTime

CHECK_DEADLOCK FALSE
