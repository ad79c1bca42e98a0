SPECIFICATION Spec

CONSTANTS
  Calls <- Deblocked
  Block = 2
  Zero <- MCZero
  SearchGap = 0
  Word = 2
  IntMax = 7
  Junk <- MCJunk
  Beyond <- MCBeyond

INVARIANT SameTags

CHECK_DEADLOCK FALSE
