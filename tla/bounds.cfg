\* 7-bit integers and every size up to their maximum; pages of one or two
\* rows over a folder with two names that differ in case.
SPECIFICATION ScansSpec
CONSTANTS
  MaxInt = 63
  ChunkSizes = {1, 2, 4, 8, 16}
  MaxChunks = 40
  Paths <- ListedPaths
  Contents = {file}
  Dir = dir
  Absent = absent
  NormalizedName <- RankOfNormalizedName
  Name <- RankOfName
  NormalizedPath <- RankOfNormalizedPath
  LogicalPath <- RankOfPath
  Queries <- ListedQueries
  Matches <- ListedMatches
  MaximumLimit = 2
INVARIANTS TypeOK ChunksCoverFile ListingTypeOK WalkIsComplete PagesAreDisjoint
\* The scan ends.
CHECK_DEADLOCK FALSE
