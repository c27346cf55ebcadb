----------------------------- MODULE ChunkBounds -----------------------------
(***************************************************************************)
(* The arithmetic that cuts a file into chunks (totalChunks and            *)
(* chunkBounds of internal/uploads/service.go), and the scan of            *)
(* verifyAndSyncPart over the chunks that ValidateChunks lists in order    *)
(* of their index.  Numbers are int64: products wrap.                      *)
(***************************************************************************)
EXTENDS Integers

CONSTANTS
  MaxInt,     \* math.MaxInt64
  ChunkSizes, \* the sizes allowedChunkSize lets through
  MaxChunks   \* MaximumChunksPerUpload

VARIABLES
  totalSize, chunkSize,  \* the upload
  index,                 \* the chunk the scan reads next
  position               \* bytes the scan has hashed so far

vars == <<totalSize, chunkSize, index, position>>

ASSUME ChunkBoundsAssumption ==
  /\ MaxInt \in Nat
  /\ ChunkSizes \subseteq 1 .. MaxInt
  /\ MaxChunks \in Nat

\* Two's complement.
Wrap(n) == ((n + MaxInt + 1) % (2 * (MaxInt + 1))) - MaxInt - 1

\* Mutant of TotalChunks: the last, shorter chunk is forgotten.
WholeChunks(total, size) ==
  IF total <= 0 \/ size <= 0 THEN 0 ELSE total \div size

TotalChunks(total, size) ==
  IF total <= 0 \/ size <= 0 THEN 0
  ELSE total \div size + (IF total % size = 0 THEN 0 ELSE 1)

count == TotalChunks(totalSize, chunkSize)

\* chunkBounds: the offset, whether it accepts the index, and the length.
Offset(i) == Wrap(i * chunkSize)
Accepts(i) ==
  /\ 0 <= i /\ i < count
  /\ i <= MaxInt \div chunkSize
  /\ totalSize - Offset(i) > 0

\* Mutant of ExpectedSize: the last chunk is not cut.
FullSize(i) == chunkSize

ExpectedSize(i) ==
  IF totalSize - Offset(i) < chunkSize THEN totalSize - Offset(i) ELSE chunkSize

\* The checks of Create.
Init ==
  /\ totalSize \in 0 .. MaxInt
  /\ chunkSize \in ChunkSizes
  /\ count <= MaxChunks
  /\ index = 0
  /\ position = 0

\* One chunk of the scan.
ReadChunk ==
  /\ index < count
  /\ Accepts(index)
  /\ position' = position + ExpectedSize(index)
  /\ index' = index + 1
  /\ UNCHANGED <<totalSize, chunkSize>>

Spec == Init /\ [][ReadChunk]_vars

-----------------------------------------------------------------------------

TypeOK ==
  /\ totalSize \in 0 .. MaxInt
  /\ chunkSize \in ChunkSizes
  /\ index \in 0 .. count
  /\ position \in 0 .. MaxInt

\* The chunks cut the file without gap, overlap or overflow: each starts
\* where the one before it ended, every index below the total is accepted
\* with a length of at least one byte, none starts before 0 or ends after
\* the file, and the last one ends with it.
ChunksCoverFile ==
  /\ index < count => /\ Accepts(index)
                      /\ Offset(index) = position
                      /\ ExpectedSize(index) \in 1 .. chunkSize
                      /\ position + ExpectedSize(index) <= totalSize
  /\ index = count => position = totalSize
=============================================================================
