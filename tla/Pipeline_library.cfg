SPECIFICATION Spec

CONSTANTS
  Names = {fileA, fileB}
  Original <- Distinct
  NameExt <- JsonAndText
  Exts = {"json", "txt", "tmp"}
  Args <- TwoFiles
  Options <- TolerancesDiffer
  LeanifyFile <- MCLeanifyFile
  UseLibrary = TRUE
  NumWorkers = 2
  BufferSize = 0
  MaxRuns = 2
  Faults = {"open", "read", "throw", "crash"}
  Nil = Nil
  Bytes <- MCBytes
  Hole = "-"
  MaxSize = 3
  Inodes = {1, 2, 3, 4, 5, 6}
  NameInode <- MCNameInode
  fileA = fileA
  fileB = fileB
  fileC = fileC

INVARIANTS
  Exclusive
  EntriesFaithful
  CompleteAtExit

PROPERTIES
  OwnResult
