SPECIFICATION Spec

CONSTANTS
  Names = {fileA, fileB}
  Original <- Distinct
  NameExt <- AllText
  Exts = {"txt", "tmp"}
  Args <- TwoFiles
  Options <- OneSetting
  LeanifyFile <- MCLeanifyFile
  UseLibrary = FALSE
  NumWorkers = 2
  BufferSize = 1
  MaxRuns = 2
  Faults = {"open", "read", "create", "write", "rename", "remove", "throw", "crash"}
  Nil = Nil
  Bytes <- MCBytes
  Hole = "-"
  MaxSize = 3
  Inodes = {1, 2, 3, 4, 5, 6}
  NameInode <- MCNameInode
  fileA = fileA
  fileB = fileB
  fileC = fileC

INVARIANTS
  TypeOK
  TmpIsMine
  IInv

PROPERTIES
  AtomicFiles
