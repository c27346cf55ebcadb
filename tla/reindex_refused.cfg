\* A download races with a trash; then a restart, and no way out.
SPECIFICATION Spec
CONSTANTS
  Dir = Dir
  Absent = Absent
  NoId = NoId
  seed = seed
  u1 = u1
  u2 = u2
  t1 = t1
  t2 = t2
  d1 = d1
  Paths <- OneDir
  InitialFiles <- Seeded
  Targets <- AX
  Contents = {seed}
  Uploads = {}
  TrashIds = {t1}
  Readers = {d1}
  Faults = {"crash"}
  Unindexable <- None
  TotalChunks <- OneChunk
  SizeOf <- SameSize
  MaxActive = 1
INVARIANTS ReindexCuresRefusal
