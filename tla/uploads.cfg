\* Two uploads of different size to one target, while directories move and the
\* marking of the index may fail like every other step.
SPECIFICATION Spec
CONSTANTS
  Dir = Dir
  Absent = Absent
  NoId = NoId
  seed = seed
  u1 = u1
  u2 = u2
  t1 = t1
  t2 = t2
  d1 = d1
  Paths <- TwoDirs
  InitialFiles <- DirOnly
  Targets <- AX
  Contents = {u1, u2}
  Uploads = {u1, u2}
  TrashIds = {}
  Readers = {}
  Faults = {"crash", "db", "disk", "mark"}
  Unindexable <- None
  TotalChunks <- OneChunk
  SizeOf <- DistinctSizes
  MaxActive = 2
INVARIANTS TypeOK OnlyFinishedVisible NothingLost
PROPERTIES UploadsImplementLifecycle
