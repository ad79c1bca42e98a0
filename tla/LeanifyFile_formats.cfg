SPECIFICATION FairSpec

CONSTANTS
  Calls <- MCCalls
  Block = 2
  Zero <- MCZero
  SearchGap = 0
  Word = 2
  IntMax = 7
  Junk <- MCJunk
  Beyond <- MCBeyond

INVARIANTS
  UnreadIntact
  InItsRegion
  SameMembers
  SameContents
  SameEntries
  SameFiles
  SameImages
  SameTags
  SameChunks
  SameProgram
  SameText
  SameDocument
  SameNumbers
  SameImage
  SameRest

PROPERTY Ends

CHECK_DEADLOCK FALSE
