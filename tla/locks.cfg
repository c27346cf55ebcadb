\* Three of six requests at a time on two uploads, with two slots.
SPECIFICATION FairSpec
CONSTANTS
  Workers = {w1, w2, w3}
  i1 = i1
  i2 = i2
  k1 = k1
  Requests <- SomeRequests
  Ids = {i1, i2}
  Indexes = {k1}
  Entries = {e1, e2}
  ChunkEntries = {c1, c2}
  Nil = Nil
  Slots = 2
  Admissions = 3
INVARIANTS TypeOK ChunkExclusion UploadExclusion NoLockLeaks
PROPERTIES EveryRequestEnds
