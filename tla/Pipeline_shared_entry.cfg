SPECIFICATION Spec

CONSTANTS
  Names = {fileA, fileB, fileC}
  Original <- Same
  NameExt <- AllText
  Exts = {"txt", "tmp"}
  Args <- OneFolder
  Options <- OneSetting
  LeanifyFile <- MCLeanifyFile
  UseLibrary = TRUE
  NumWorkers = 2
  BufferSize = 0
  MaxRuns = 1
  Faults = {}
  Nil = Nil
  Bytes <- MCBytes
  Hole = "-"
  MaxSize = 3
  Inodes = {1, 2, 3, 4, 5, 6}
  NameInode <- MCNameInode
  fileA = fileA
  fileB = fileB
  fileC = fileC

INVARIANTS
  CompleteAtExit
