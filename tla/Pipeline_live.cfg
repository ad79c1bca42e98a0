SPECIFICATION FairSpec

CONSTANTS
  Names = {fileA, fileB}
  Original <- Distinct
  NameExt <- AllText
  Exts = {"txt", "tmp"}
  Args <- OneFolder
  Options <- OneSetting
  LeanifyFile <- MCLeanifyFile
  UseLibrary = TRUE
  NumWorkers = 2
  BufferSize = 1
  MaxRuns = 2
  Faults = {"open", "read", "create", "write", "flush", "rename", "throw"}
  Nil = Nil
  Bytes <- MCBytes
  Hole = "-"
  MaxSize = 3
  Inodes = {1, 2, 3, 4, 5, 6}
  NameInode <- MCNameInode
  fileA = fileA
  fileB = fileB
  fileC = fileC

INVARIANTS
  NoLeftoverTmp

PROPERTIES
  Terminates
