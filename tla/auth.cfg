\* Two handler goroutines; the limiter and the sessions, see Explored.
SPECIFICATION Spec
CONSTANTS
  h1 = h1
  h2 = h2
  owner = owner
  other = other
  p1 = p1
  p2 = p2
  peer = peer
  Handlers = {h1, h2}
  Names = {owner, other}
  Peers = {peer}
  Owner = owner
  Passwords = {p1, p2}
  Malformed = Malformed
  Sessions <- SessionIds
  AccountFailureLimit = 2
  IPFailureLimit = 3
  LoginFailureWindow = 1
  LoginBlockDuration = 3
  CleanupInterval = 1
  MaxEntries = 1
  MaximumActiveSessions = 1
  SessionLifetime = 3
  LastSeenWriteInterval = 1
  Delay = 1
  MaxTime = 6
SYMMETRY Symmetry
CONSTRAINT Explored
INVARIANTS TypeOK FailuresAreBounded
PROPERTIES AccessIsAtomic LastSeenIsSparse BlocksLast
