\* Fair scheduling; no database errors, which end the server.
SPECIFICATION FairSpec
CONSTANTS
  Dir = Dir
  Absent = Absent
  NoId = NoId
  seed = seed
  u1 = u1
  u2 = u2
  t1 = t1
  t2 = t2
  d1 = d1
  Paths <- OneDir
  InitialFiles <- DirOnly
  Targets <- AX
  Contents = {u1}
  Uploads = {u1}
  TrashIds = {t1}
  Readers = {d1}
  Faults = {"crash", "disk", "storage"}
  Unindexable <- None
  TotalChunks <- OneChunk
  SizeOf <- SameSize
  MaxActive = 2
INVARIANTS ServedIndexIsTrue
PROPERTIES MutationLockReleased StartupDecides ExpiredUploadEnds
