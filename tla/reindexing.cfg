\* Three releases, one reindex command, three items and four generations.
SPECIFICATION Spec
CONSTANTS
  oldServer = oldServer
  newServer = newServer
  forkServer = forkServer
  admin = admin
  Processes = {oldServer, newServer, forkServer, admin}
  Nobody = Nobody
  Embedded <- Releases
  Admins = {admin}
  ItemCount = 3
  Parent <- Tree
  ReindexBatch = 2
  CleanupBatch = 2
  MaxGeneration = 4
  Unusable = Unusable
INVARIANTS TypeOK SchemaIsOwn RanInOrder NothingLeftBehind
PROPERTIES ReindexIsAtomic
