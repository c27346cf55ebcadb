\* Three goroutines, two of which may stream chunks of up to two units.
SPECIFICATION Spec
CONSTANTS
  j1 = j1
  j2 = j2
  j3 = j3
  ours = ours
  other = other
  Jobs = {j1, j2, j3}
  Volumes = {ours, other}
  Ours = ours
  Nothing = Nothing
  Slots = 2
  MaxChunk = 2
  Reserve = 5
  Space = 7
SYMMETRY Symmetry
INVARIANTS TypeOK
PROPERTIES ProviderIsAGate ReserveIsKept
