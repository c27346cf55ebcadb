------------------------------- MODULE MCScans -------------------------------
(***************************************************************************)
(* Two scans that go through something in order, checked in one run        *)
(* although they share no state: the chunks of a part file (ChunkBounds)   *)
(* and the pages of the index (Listing).  Pages are walked while the file  *)
(* that is scanned is an empty one, so that the states of the two add up.  *)
(***************************************************************************)
EXTENDS ChunkBounds, Listing

ScansInit == Init /\ ListingInit

ScanNext == ReadChunk /\ UNCHANGED listingVars

WalkNext ==
  /\ totalSize = 0 /\ chunkSize = 1
  /\ ListingNext
  /\ UNCHANGED vars

ScansSpec == ScansInit /\ [][ScanNext \/ WalkNext]_<<vars, listingVars>>

\* A folder whose files differ in case, and a file beside it.
ListedPaths ==
  {<<"a">>, <<"d">>, <<"d", "A">>, <<"d", "a">>, <<"d", "b">>}

ByteOrder == <<"A", "a", "b", "d">>
FoldedOrder == "A" :> 1 @@ "a" :> 1 @@ "b" :> 2 @@ "d" :> 3

RankOfName == [p \in ListedPaths |-> CHOOSE i \in 1 .. 4 : ByteOrder[i] = Last(p)]
RankOfNormalizedName == [p \in ListedPaths |-> FoldedOrder[Last(p)]]

\* "a", "d", "d/A", "d/a", "d/b": two of them are "d/a" when folded.
RankOfPath ==
  <<"a">> :> 1 @@ <<"d">> :> 2 @@ <<"d", "A">> :> 3 @@ <<"d", "a">> :> 4
    @@ <<"d", "b">> :> 5
RankOfNormalizedPath ==
  <<"a">> :> 1 @@ <<"d">> :> 2 @@ <<"d", "A">> :> 3 @@ <<"d", "a">> :> 3
    @@ <<"d", "b">> :> 4

\* The searches for "a" and for "d".
ListedQueries == {"a", "d"}
ListedMatches ==
  "a" :> {<<"a">>, <<"d", "A">>, <<"d", "a">>} @@ "d" :> ListedPaths \ {<<"a">>}
=============================================================================
