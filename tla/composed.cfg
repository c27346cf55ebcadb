\* Files, the trash and an upload on one tree, with every fault that strikes one
\* step; one of the two upload targets cannot be indexed.
SPECIFICATION Spec
CONSTANTS
  Dir = Dir
  Absent = Absent
  NoId = NoId
  seed = seed
  u1 = u1
  u2 = u2
  t1 = t1
  t2 = t2
  d1 = d1
  Paths <- TwoDirs
  InitialFiles <- Seeded
  Targets <- BothX
  Contents = {seed, u1}
  Uploads = {u1}
  TrashIds = {t1}
  Readers = {}
  Faults = {"crash", "db", "disk", "storage"}
  Unindexable <- BX
  TotalChunks <- OneChunk
  SizeOf <- SameSize
  MaxActive = 1
INVARIANTS ServedIndexIsTrue DivergenceIsRecorded NothingLost IndexIInv
PROPERTIES GateOpensOnTruth
