\* An upload to a path the index cannot hold; no fault at all.
SPECIFICATION Spec
CONSTANTS
  Dir = Dir
  Absent = Absent
  NoId = NoId
  seed = seed
  u1 = u1
  u2 = u2
  t1 = t1
  t2 = t2
  d1 = d1
  Paths <- OneDir
  InitialFiles <- DirOnly
  Targets <- AX
  Contents = {u1}
  Uploads = {u1}
  TrashIds = {}
  Readers = {}
  Faults = {}
  Unindexable <- AX
  TotalChunks <- OneChunk
  SizeOf <- SameSize
  MaxActive = 1
INVARIANTS UncommittedIsMarked
