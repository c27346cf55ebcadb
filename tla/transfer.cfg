\* Two requests at a time, two chunks, two contents for each.
SPECIFICATION Spec
CONSTANTS
  Workers = {w1, w2}
  Indexes = {0, 1}
  Data = {a, b}
  None = None
  Torn = Torn
INVARIANTS TypeOK RecordedIsStored PublishedIsAcknowledged OneAnswerPerChunk
\* A completed or cancelled upload stays as it is.
CHECK_DEADLOCK FALSE
