SPECIFICATION Spec

CONSTANTS
  Images = {image1, image2}
  Threads = {thread1, thread2}
  Pools <- MCPools
  Damaged = {image1}
  Sizes <- MCSizes
  SmallFile = 3
  FastModes = {TRUE}
  NoOne = NoOne
  image1 = image1
  image2 = image2
  thread1 = thread1
  thread2 = thread2

INVARIANTS
  NeverEmpty
