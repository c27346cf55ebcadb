----------------------------- MODULE ScansProofs -----------------------------
(***************************************************************************)
(* Proofs about the two scans, ChunkBounds and Listing.                    *)
(*                                                                         *)
(* Chunks, for every width of an integer, every set of chunk sizes and     *)
(* every file: Go computes the offset index*chunkSize in int64, and no     *)
(* offset of an accepted index wraps.                                      *)
(*                                                                         *)
(* Pages, for every tree, every byte order, every folding of names and     *)
(* every limit, whatever happens to the rows between two statements: a     *)
(* walk over the pages is complete and never shows a path twice.           *)
(***************************************************************************)
EXTENDS ChunkBounds, Listing, FiniteSetTheorems, TLAPS

(***************************************************************************)
(* The chunks of a part file.                                              *)
(***************************************************************************)

\* Division with remainder, and the two facts about products that the
\* bounds rest on.
LEMMA Division ==
  ASSUME NEW t \in Nat, NEW s \in Nat \ {0}
  PROVE  /\ t \div s \in Nat /\ t % s \in 0 .. s - 1
         /\ t % s = t - s * (t \div s)
<1>1. t \div s \in Int /\ t \div s >= 0
  BY SMTT(30)
<1>2. t % s \in 0 .. s - 1
  BY SMTT(30)
<1>3. t % s = t - s * (t \div s)
  BY SMTT(30)
<1> QED
  BY <1>1, <1>2, <1>3

LEMMA Monotone ==
  ASSUME NEW a \in Nat, NEW b \in Nat, NEW s \in Nat, a <= b
  PROVE  a * s <= b * s
  BY SMTT(30)

LEMMA Successor ==
  ASSUME NEW a \in Nat, NEW s \in Nat
  PROVE  (a + 1) * s = a * s + s /\ a * s \in Nat
  BY SMTT(30)

LEMMA SmallRemainder ==
  ASSUME NEW a \in Nat, NEW b \in Nat \ {0}, a < b
  PROVE  a % b = a
  BY SMTT(30)

\* A product that fits into an int64 is not changed.
LEMMA NoWrap ==
  ASSUME NEW n \in 0 .. MaxInt
  PROVE  Wrap(n) = n
<1>1. n + MaxInt + 1 \in Nat /\ 2 * (MaxInt + 1) \in Nat \ {0} /\ n + MaxInt + 1 < 2 * (MaxInt + 1)
  BY ChunkBoundsAssumption
<1>2. (n + MaxInt + 1) % (2 * (MaxInt + 1)) = n + MaxInt + 1
  BY <1>1, SmallRemainder
<1> QED
  BY <1>2, ChunkBoundsAssumption DEF Wrap

\* Only an empty file has no chunks.
LEMMA CountIsNat ==
  ASSUME NEW t \in Nat, NEW s \in Nat \ {0}
  PROVE  /\ TotalChunks(t, s) \in Nat
         /\ TotalChunks(t, s) = 0 => t = 0
<1> DEFINE q == t \div s
           r == t % s
<1>1. q \in Nat /\ r \in 0 .. s - 1 /\ r = t - s * q
  BY Division
<1>2. CASE t = 0
  BY <1>2 DEF TotalChunks
<1>3. CASE t # 0
  <2>1. TotalChunks(t, s) = q + (IF r = 0 THEN 0 ELSE 1)
    BY <1>3 DEF TotalChunks
  <2>2. q = 0 => r = t
    <3>1. s * 0 = 0
      OBVIOUS
    <3> QED
      BY <1>1, <3>1
  <2> HIDE DEF q, r
  <2> QED
    BY <1>1, <1>3, <2>1, <2>2
<1> QED
  BY <1>2, <1>3

\* Every chunk below the total begins inside the file, and the chunks before
\* the last are full.
LEMMA CountBounds ==
  ASSUME NEW t \in Nat, NEW s \in Nat \ {0}, NEW i \in Nat, i < TotalChunks(t, s)
  PROVE  /\ i * s \in Nat /\ i * s < t
         /\ i + 1 < TotalChunks(t, s) => i * s + s < t
         /\ i + 1 = TotalChunks(t, s) => t <= i * s + s
<1> DEFINE q == t \div s
           r == t % s
           n == TotalChunks(t, s)
<1>1. q \in Nat /\ r \in 0 .. s - 1 /\ r = t - s * q
  BY Division
<1>2. t > 0 /\ n = q + (IF r = 0 THEN 0 ELSE 1)
  BY <1>1 DEF TotalChunks
<1>3. s * q = q * s /\ q * s \in Nat
  BY <1>1
<1>4. t = q * s + r
  BY <1>1, <1>3
<1>5. i * s \in Nat /\ (i + 1) * s = i * s + s
  BY Successor
<1>6. ASSUME i + 1 <= q PROVE i * s + s <= q * s
  BY <1>1, <1>5, <1>6, Monotone
<1>7. ASSUME i + 1 = q PROVE i * s + s = q * s
  BY <1>5, <1>7
<1>8. ASSUME i = q PROVE i * s = q * s
  BY <1>8
<1>9. ASSUME i + 1 < q PROVE i * s + s < q * s
  <2>1. (i + 2) * s <= q * s
    BY <1>1, <1>9, Monotone
  <2>2. (i + 2) * s = i * s + s + s
    BY SMTT(30)
  <2> QED
    BY <2>1, <2>2, <1>3, <1>5
<1> HIDE DEF q, r, n
<1>10. CASE r = 0
  <2>1. i + 1 <= q
    BY <1>1, <1>2, <1>10 DEF n
  <2>2. i * s < t /\ (i + 1 = n => t <= i * s + s) /\ (i + 1 < n => i * s + s < t)
    BY <2>1, <1>1, <1>2, <1>3, <1>4, <1>5, <1>6, <1>7, <1>9, <1>10
  <2> QED
    BY <2>2, <1>5 DEF n
<1>11. CASE r # 0
  <2>1. i <= q
    BY <1>1, <1>2, <1>11 DEF n
  <2>2. i * s < t /\ (i + 1 = n => t <= i * s + s) /\ (i + 1 < n => i * s + s < t)
    BY <2>1, <1>1, <1>2, <1>3, <1>4, <1>5, <1>6, <1>8, <1>11
  <2> QED
    BY <2>2, <1>5 DEF n
<1> QED
  BY <1>10, <1>11

\* The check of chunkBounds against an overflow never refuses a chunk of an
\* upload.
LEMMA OffsetFits ==
  ASSUME NEW i \in Nat, NEW s \in Nat \ {0}, i * s <= MaxInt
  PROVE  i <= MaxInt \div s
<1> DEFINE d == MaxInt \div s
<1>1. d \in Nat /\ MaxInt % s \in 0 .. s - 1 /\ MaxInt % s = MaxInt - s * d
  BY Division, ChunkBoundsAssumption
<1>2. MaxInt < (d + 1) * s
  <2>1. (d + 1) * s = d * s + s /\ d * s \in Nat
    BY <1>1, Successor
  <2>2. s * d = d * s
    BY <1>1
  <2> QED
    BY <1>1, <2>1, <2>2, ChunkBoundsAssumption
<1>3. SUFFICES ASSUME d + 1 <= i PROVE FALSE
  BY <1>1
<1>4. (d + 1) * s <= i * s
  BY <1>1, <1>3, Monotone
<1> QED
  BY <1>1, <1>2, <1>4, ChunkBoundsAssumption, Successor

-----------------------------------------------------------------------------
(* The scan has hashed the bytes before the chunk it reads next. *)

Expected(i) == IF i < count THEN i * chunkSize ELSE totalSize

ScanIInv ==
  /\ totalSize \in 0 .. MaxInt
  /\ chunkSize \in ChunkSizes
  /\ index \in 0 .. count
  /\ position = Expected(index)

\* chunkBounds on an index below the total.
LEMMA Bounds ==
  ASSUME ScanIInv, index < count
  PROVE  /\ Offset(index) = position /\ position \in Nat /\ position < totalSize
         /\ Accepts(index)
         /\ ExpectedSize(index) \in 1 .. chunkSize
         /\ position + ExpectedSize(index) = Expected(index + 1)
<1>1. /\ totalSize \in Nat /\ totalSize <= MaxInt /\ chunkSize \in Nat \ {0} /\ index \in Nat
      /\ MaxInt \in Nat /\ position = index * chunkSize
  BY ChunkBoundsAssumption DEF ScanIInv, Expected, count, TotalChunks
<1>2. /\ index * chunkSize \in Nat /\ index * chunkSize < totalSize
      /\ index + 1 < count => index * chunkSize + chunkSize < totalSize
      /\ index + 1 = count => totalSize <= index * chunkSize + chunkSize
  BY <1>1, CountBounds DEF count
<1>3. Offset(index) = index * chunkSize
  BY <1>1, <1>2, NoWrap DEF Offset
<1>4. index <= MaxInt \div chunkSize
  BY <1>1, <1>2, OffsetFits
<1>5. (index + 1) * chunkSize = index * chunkSize + chunkSize
  BY <1>1, Successor
<1>6. count \in Nat
  BY <1>1, Division DEF count, TotalChunks
<1>7. Accepts(index)
  BY <1>1, <1>2, <1>3, <1>4 DEF Accepts
<1>8. ExpectedSize(index) \in 1 .. chunkSize
  BY <1>1, <1>2, <1>3 DEF ExpectedSize
<1>9. position + ExpectedSize(index) = Expected(index + 1)
  BY <1>1, <1>2, <1>3, <1>5, <1>6 DEF ExpectedSize, Expected
<1> QED
  BY <1>1, <1>2, <1>3, <1>7, <1>8, <1>9

LEMMA InitScanIInv == Init => ScanIInv
<1> SUFFICES ASSUME Init PROVE ScanIInv
  OBVIOUS
<1>1. totalSize \in Nat /\ chunkSize \in Nat \ {0}
  BY ChunkBoundsAssumption DEF Init
<1>2. count \in Nat /\ (count = 0 => totalSize = 0)
  BY <1>1, CountIsNat DEF count
<1>3. 0 * chunkSize = 0
  BY <1>1
<1> QED
  BY <1>2, <1>3 DEF Init, ScanIInv, Expected

LEMMA StepScanIInv == ScanIInv /\ [ReadChunk]_vars => ScanIInv'
<1> SUFFICES ASSUME ScanIInv, [ReadChunk]_vars PROVE ScanIInv'
  OBVIOUS
<1>1. CASE ReadChunk
  <2>1. position' = Expected(index + 1)
    BY <1>1, Bounds DEF ReadChunk
  <2>2. count' = count /\ totalSize' = totalSize /\ chunkSize' = chunkSize /\ index' = index + 1
    BY <1>1 DEF ReadChunk, count
  <2>3. Expected(index)' = Expected(index + 1)
    BY <2>2 DEF Expected
  <2>4. count \in Nat
    BY ChunkBoundsAssumption, CountIsNat DEF ScanIInv, count
  <2>5. index + 1 \in 0 .. count
    BY <1>1, <2>4 DEF ScanIInv, ReadChunk
  <2> QED
    BY <2>1, <2>2, <2>3, <2>5 DEF ScanIInv
<1>2. CASE UNCHANGED vars
  BY <1>2 DEF vars, ScanIInv, Expected, count
<1> QED
  BY <1>1, <1>2

LEMMA InductiveInvariant == Spec => []ScanIInv
  BY InitScanIInv, StepScanIInv, PTL DEF Spec

\* The scan stays inside the file.
THEOREM TypeCorrect == Spec => []TypeOK
<1>1. ScanIInv => TypeOK
  <2> SUFFICES ASSUME ScanIInv PROVE TypeOK
    OBVIOUS
  <2>1. CASE index < count
    BY <2>1, Bounds, ChunkBoundsAssumption DEF ScanIInv, TypeOK
  <2>2. CASE ~(index < count)
    BY <2>2 DEF ScanIInv, TypeOK, Expected
  <2> QED
    BY <2>1, <2>2
<1> QED
  BY <1>1, InductiveInvariant, PTL

\* Chunks cover every file without gap, overlap or overflow, for every width
\* of an integer.
THEOREM CoverFile == Spec => []ChunksCoverFile
<1>1. ScanIInv => ChunksCoverFile
  <2> SUFFICES ASSUME ScanIInv PROVE ChunksCoverFile
    OBVIOUS
  <2>1. ASSUME index < count
        PROVE  /\ Accepts(index) /\ Offset(index) = position
               /\ ExpectedSize(index) \in 1 .. chunkSize
               /\ position + ExpectedSize(index) <= totalSize
    <3>1. position + ExpectedSize(index) = Expected(index + 1)
      BY <2>1, Bounds
    <3>2. Expected(index + 1) <= totalSize
      <4>1. /\ totalSize \in Nat /\ chunkSize \in Nat \ {0} /\ index \in Nat
        BY ChunkBoundsAssumption DEF ScanIInv, count, TotalChunks
      <4>2. CASE index + 1 < count
        BY <4>1, <4>2, CountBounds DEF Expected, count
      <4>3. CASE ~(index + 1 < count)
        BY <4>1, <4>3 DEF Expected
      <4> QED
        BY <4>2, <4>3
    <3> QED
      BY <2>1, <3>1, <3>2, Bounds
  <2>2. ASSUME index = count PROVE position = totalSize
    BY <2>2 DEF ScanIInv, Expected
  <2> QED
    BY <2>1, <2>2 DEF ChunksCoverFile
<1> QED
  BY <1>1, InductiveInvariant, PTL

(***************************************************************************)
(* The pages of the index.                                                 *)
(***************************************************************************)

Triples == Nat \X Nat \X Nat

\* The order of the rows is a strict one.
LEMMA PrecedesIsStrict ==
  ASSUME NEW k \in Triples, NEW l \in Triples
  PROVE  /\ ~Precedes(k, k)
         /\ Precedes(k, l) => ~Precedes(l, k)
         /\ \A m \in Triples : Precedes(k, l) /\ Precedes(l, m) => Precedes(k, m)
<1>1. /\ k[1] \in Nat /\ k[2] \in Nat /\ k[3] \in Nat
      /\ l[1] \in Nat /\ l[2] \in Nat /\ l[3] \in Nat
  BY DEF Triples
<1>2. ~Precedes(k, k) /\ (Precedes(k, l) => ~Precedes(l, k))
  BY <1>1 DEF Precedes
<1>3. ASSUME NEW m \in Triples, Precedes(k, l), Precedes(l, m)
      PROVE  Precedes(k, m)
  <2>1. m[1] \in Nat /\ m[2] \in Nat /\ m[3] \in Nat
    BY DEF Triples
  <2> QED
    BY <1>1, <1>3, <2>1 DEF Precedes
<1> QED
  BY <1>2, <1>3

\* The cursor of a row is never the empty one.
LEMMA KeyIsTriple ==
  ASSUME NEW r, NEW p \in Paths
  PROVE  Key(r, p) \in Triples /\ Key(r, p) # Start
<1>1. /\ NormalizedName[p] \in Nat \ {0} /\ Name[p] \in Nat \ {0}
      /\ NormalizedPath[p] \in Nat \ {0} /\ LogicalPath[p] \in Nat \ {0}
  BY ListingAssumption
<1> QED
  BY <1>1 DEF Key, Triples, Start

(* The trees that the other requests leave are trees.                      *)

LEMMA EmptyIsTree == EmptyTree \in Trees
  BY DEF EmptyTree, Trees, Nodes

LEMMA PutIsTree ==
  ASSUME NEW tree \in Trees, NEW p, NEW node \in Contents \cup {Dir}
  PROVE  Put(tree, p, node) \in Trees
  BY DEF Put, Trees, Nodes

LEMMA CutIsTree ==
  ASSUME NEW tree \in Trees, NEW p
  PROVE  Cut(tree, p) \in Trees
  BY DEF Cut, Trees, Nodes

LEMMA MovedIsTree ==
  ASSUME NEW tree \in Trees, NEW src, NEW dst
  PROVE  Moved(tree, src, dst) \in Trees
<1>1. ASSUME NEW q \in Paths
      PROVE  (IF q \in Below(dst) /\ Rebase(q, dst, src) \in Paths
                THEN tree[Rebase(q, dst, src)]
                ELSE IF q \in Below(src) THEN Absent ELSE tree[q]) \in Nodes
  BY DEF Trees, Nodes
<1> QED
  BY <1>1 DEF Moved, Trees

-----------------------------------------------------------------------------
(* The inductive invariant.                                                *)

\* What was there all the time is there now; before the first page nothing
\* was shown; after a page, what it and the ones before it have shown is
\* not beyond the cursor, and what lasts and was not shown is.
CursorInv ==
  /\ walk.lasting \subseteq Listed(rows, walk.request)
  /\ walk.after = Start /\ walk.step # "done" => walk.seen = {} /\ walk.page = {}
  /\ walk.after # Start =>
       /\ walk.step # "done"
       /\ \A p \in walk.seen \cup walk.page :
            ~Precedes(walk.after, Key(walk.request, p))
       /\ \A p \in walk.lasting \ (walk.seen \cup walk.page) :
            Precedes(walk.after, Key(walk.request, p))

WalkIInv == ListingTypeOK /\ CursorInv /\ WalkIsComplete /\ PagesAreDisjoint

LEMMA InitWalkIInv == ListingInit => WalkIInv
<1> SUFFICES ASSUME ListingInit PROVE WalkIInv
  OBVIOUS
<1>1. Cardinality(walk.page) <= MaximumLimit
  BY FS_EmptySet, ListingAssumption DEF ListingInit
<1>2. ListingTypeOK
  BY <1>1, EmptyIsTree DEF ListingInit, ListingTypeOK, Requests, Start
<1> QED
  BY <1>2 DEF ListingInit, WalkIInv, CursorInv, WalkIsComplete, PagesAreDisjoint

\* A step of the request that reads nothing from the walk but its place.
LEMMA ToKeeps ==
  ASSUME WalkIInv, walk.step # "done",
         NEW step \in {"idle", "health", "parent", "rows"}, To(step)
  PROVE  WalkIInv'
<1>1. ListingTypeOK'
  BY DEF WalkIInv, ListingTypeOK, To
<1>2. /\ walk'.request = walk.request /\ walk'.after = walk.after
      /\ walk'.seen = walk.seen /\ walk'.page = walk.page
      /\ walk'.lasting = walk.lasting /\ walk'.step # "done" /\ rows' = rows
  BY DEF WalkIInv, ListingTypeOK, To
<1>3. Listed(rows, walk.request)' = Listed(rows, walk.request)
  BY <1>2 DEF Listed
<1>4. CursorInv'
  BY <1>2, <1>3 DEF WalkIInv, CursorInv, Key
<1> QED
  BY <1>1, <1>2, <1>4 DEF WalkIInv, WalkIsComplete, PagesAreDisjoint

LEMMA AskKeeps ==
  ASSUME WalkIInv, NEW r \in Requests, Ask(r)
  PROVE  WalkIInv'
<1>1. CASE walk.after = Start
  <2>1. Listed(rows, r) \subseteq Paths
    BY DEF Listed
  <2>2. Cardinality({}) = 0
    BY FS_EmptySet
  <2>3. walk' = [step |-> "health", request |-> r, after |-> Start,
                 seen |-> {}, page |-> {}, lasting |-> Listed(rows, r)]
        /\ UNCHANGED <<rows, healthy>>
    BY <1>1 DEF Ask
  <2>4. ListingTypeOK'
    BY <2>1, <2>2, <2>3, ListingAssumption DEF WalkIInv, ListingTypeOK, Start
  <2>5. CursorInv'
    BY <2>3 DEF CursorInv, Listed
  <2> QED
    BY <2>3, <2>4, <2>5 DEF WalkIInv, WalkIsComplete, PagesAreDisjoint
<1>2. CASE walk.after # Start
  <2>1. r = walk.request /\ walk.step # "done"
    BY <1>2 DEF Ask, Continues, WalkIInv, CursorInv
  <2>2. To("health")
    BY <1>2, <2>1 DEF Ask, To, WalkIInv, ListingTypeOK
  <2> QED
    BY <2>1, <2>2, ToKeeps
<1> QED
  BY <1>1, <1>2

\* The rows that are read have not been shown yet, and hold everything that
\* lasts and was not shown.
LEMMA RemainingIsNew ==
  ASSUME WalkIInv, walk.step = "rows"
  PROVE  /\ Remaining \in SUBSET Paths /\ IsFiniteSet(Remaining)
         /\ Remaining \cap (walk.seen \cup walk.page) = {}
         /\ walk.lasting \ (walk.seen \cup walk.page) \subseteq Remaining
<1>1. Remaining \in SUBSET Paths
  BY DEF Remaining, Listed
<1>2. IsFiniteSet(Remaining)
  BY <1>1, FS_Subset, ListingAssumption
<1>3. Remaining \cap (walk.seen \cup walk.page) = {}
  BY DEF Remaining, Beyond, WalkIInv, CursorInv
<1>4. walk.lasting \ (walk.seen \cup walk.page) \subseteq Remaining
  BY DEF Remaining, Beyond, WalkIInv, CursorInv
<1> QED
  BY <1>1, <1>2, <1>3, <1>4

LEMMA FinishedKeeps ==
  ASSUME WalkIInv, walk.step = "rows", Finished(Remaining), UNCHANGED <<rows, healthy>>,
         Cardinality(Remaining) <= MaximumLimit
  PROVE  WalkIInv'
<1>1. /\ walk' = [walk EXCEPT !.step = "done", !.seen = @ \cup walk.page,
                              !.page = Remaining, !.after = Start]
      /\ walk'.step = "done" /\ walk'.seen = walk.seen \cup walk.page
      /\ walk'.page = Remaining /\ walk'.after = Start
      /\ walk'.request = walk.request /\ walk'.lasting = walk.lasting
  BY DEF Finished, WalkIInv, ListingTypeOK
<1>2. ListingTypeOK'
  BY <1>1, RemainingIsNew DEF WalkIInv, ListingTypeOK, Start
<1>3. CursorInv'
  BY <1>1 DEF WalkIInv, CursorInv, Listed
<1>4. WalkIsComplete' /\ PagesAreDisjoint'
  BY <1>1, RemainingIsNew DEF WalkIsComplete, PagesAreDisjoint
<1> QED
  BY <1>2, <1>3, <1>4 DEF WalkIInv

LEMMA ShownKeeps ==
  ASSUME WalkIInv, walk.step = "rows", UNCHANGED <<rows, healthy>>,
         NEW fetched \in SUBSET Remaining, Leads(fetched, Remaining),
         NEW shown \in SUBSET fetched, Shown(fetched, shown),
         Cardinality(shown) <= MaximumLimit
  PROVE  WalkIInv'
<1> DEFINE K(p) == Key(walk.request, p)
<1>1. PICK last \in shown :
        /\ \A p \in shown \ {last} : Precedes(K(p), K(last))
        /\ walk' = [walk EXCEPT !.step = "idle", !.seen = @ \cup walk.page,
                                !.page = shown, !.after = K(last)]
  BY DEF Shown
<1>2. shown \in SUBSET Paths /\ last \in Paths /\ last \in Remaining
  BY RemainingIsNew
<1>3. K(last) \in Triples /\ K(last) # Start
  BY <1>2, KeyIsTriple
<1>4. /\ walk'.step = "idle" /\ walk'.seen = walk.seen \cup walk.page
      /\ walk'.page = shown /\ walk'.after = K(last)
      /\ walk'.request = walk.request /\ walk'.lasting = walk.lasting
  BY <1>1 DEF WalkIInv, ListingTypeOK
<1>5. ListingTypeOK'
  BY <1>1, <1>2, <1>3, <1>4 DEF WalkIInv, ListingTypeOK, Triples
<1>6. PagesAreDisjoint'
  BY <1>4, RemainingIsNew DEF PagesAreDisjoint
<1>7. ASSUME NEW p \in walk.seen \cup walk.page \cup shown
      PROVE  ~Precedes(K(last), K(p))
  <2>1. p \in Paths
    BY <1>2 DEF WalkIInv, ListingTypeOK
  <2>2. K(p) \in Triples
    BY <2>1, KeyIsTriple
  <2>3. CASE p \in shown
    BY <1>1, <1>3, <2>2, <2>3, PrecedesIsStrict
  <2>4. CASE p \in walk.seen \cup walk.page
    <3>1. walk.after # Start
      BY <2>4 DEF WalkIInv, CursorInv
    <3>2. Precedes(walk.after, K(last)) /\ ~Precedes(walk.after, K(p))
      BY <1>2, <2>4, <3>1 DEF Remaining, Beyond, WalkIInv, CursorInv
    <3>3. walk.after \in Triples
      BY DEF WalkIInv, ListingTypeOK, Triples
    <3> QED
      BY <1>3, <2>2, <3>2, <3>3, PrecedesIsStrict
  <2> QED
    BY <1>7, <2>3, <2>4
<1>8. ASSUME NEW p \in walk.lasting, p \notin walk.seen \cup walk.page \cup shown
      PROVE  Precedes(K(last), K(p))
  <2>1. p \in Remaining
    BY <1>8, RemainingIsNew
  <2>2. CASE p \in fetched
    BY <1>8, <2>2 DEF Shown, Leads
  <2>3. CASE p \notin fetched
    BY <2>1, <2>3 DEF Leads
  <2> QED
    BY <2>2, <2>3
<1>9. CursorInv'
  BY <1>3, <1>4, <1>7, <1>8 DEF WalkIInv, CursorInv, Listed, Key
<1> QED
  BY <1>4, <1>5, <1>6, <1>9 DEF WalkIInv, WalkIsComplete

LEMMA ReadRowsKeeps ==
  ASSUME WalkIInv, NEW limit \in 1 .. MaximumLimit, ReadRows(limit)
  PROVE  WalkIInv'
<1>1. PICK fetched \in SUBSET Remaining :
        /\ Leads(fetched, Remaining)
        /\ Cardinality(fetched) = limit + 1 \/ fetched = Remaining
        /\ IF Cardinality(fetched) > limit
           THEN \E shown \in SUBSET fetched :
                  Cardinality(shown) = limit /\ Shown(fetched, shown)
           ELSE Finished(fetched)
  BY DEF ReadRows
<1>2. walk.step = "rows" /\ UNCHANGED <<rows, healthy>>
  BY DEF ReadRows
<1>3. Cardinality(fetched) \in Nat
  BY <1>2, RemainingIsNew, FS_Subset, FS_CardinalityType
<1>4. limit \in Nat /\ MaximumLimit \in Nat /\ limit <= MaximumLimit
  BY ListingAssumption
<1>5. CASE Cardinality(fetched) > limit
  <2>1. PICK shown \in SUBSET fetched :
          Cardinality(shown) = limit /\ Shown(fetched, shown)
    BY <1>1, <1>5
  <2> QED
    BY <1>1, <1>2, <1>4, <2>1, ShownKeeps
<1>6. CASE ~(Cardinality(fetched) > limit)
  <2>1. fetched = Remaining /\ Cardinality(fetched) <= MaximumLimit
    BY <1>1, <1>3, <1>4, <1>6
  <2> QED
    BY <1>1, <1>2, <1>6, <2>1, FinishedKeeps
<1> QED
  BY <1>5, <1>6

LEMMA GiveUpKeeps ==
  ASSUME WalkIInv, GiveUp
  PROVE  WalkIInv'
<1>1. /\ walk'.step = "idle" /\ walk'.after = Start /\ walk'.seen = {}
      /\ walk'.page = {} /\ walk'.lasting = {}
  BY DEF GiveUp, WalkIInv, ListingTypeOK
<1>2. Cardinality(walk'.page) <= MaximumLimit
  BY <1>1, FS_EmptySet, ListingAssumption
<1>3. ListingTypeOK'
  BY <1>2 DEF GiveUp, WalkIInv, ListingTypeOK, Start
<1>4. CursorInv' /\ WalkIsComplete' /\ PagesAreDisjoint'
  BY <1>1 DEF CursorInv, WalkIsComplete, PagesAreDisjoint
<1> QED
  BY <1>3, <1>4 DEF WalkIInv

\* A transaction of somebody else.
LEMMA BecomesKeeps ==
  ASSUME WalkIInv, NEW tree \in Trees, Becomes(tree)
  PROVE  WalkIInv'
<1>1. /\ walk'.step = walk.step /\ walk'.request = walk.request
      /\ walk'.after = walk.after /\ walk'.seen = walk.seen
      /\ walk'.page = walk.page /\ rows' = tree
      /\ walk'.lasting = walk.lasting \cap Listed(tree, walk.request)
  BY DEF Becomes, WalkIInv, ListingTypeOK
<1>2. ListingTypeOK'
  BY DEF Becomes, WalkIInv, ListingTypeOK
<1>3. CursorInv'
  BY <1>1 DEF WalkIInv, CursorInv, Listed, Key
<1> QED
  BY <1>1, <1>2, <1>3 DEF WalkIInv, WalkIsComplete, PagesAreDisjoint

LEMMA NextWalkIInv == WalkIInv /\ [ListingNext]_listingVars => WalkIInv'
<1> SUFFICES ASSUME WalkIInv, [ListingNext]_listingVars
             PROVE  WalkIInv'
  OBVIOUS
<1>1. ASSUME NEW r \in Requests, Ask(r) PROVE WalkIInv'
  BY <1>1, AskKeeps
<1>2. CASE CheckHealth
  <2>1. walk.step # "done"
    BY <1>2 DEF CheckHealth
  <2> QED
    BY <1>2, <2>1, ToKeeps DEF CheckHealth
<1>3. CASE FindParent
  BY <1>3, ToKeeps DEF FindParent
<1>4. ASSUME NEW limit \in 1 .. MaximumLimit, ReadRows(limit) PROVE WalkIInv'
  BY <1>4, ReadRowsKeeps
<1>5. CASE Fail
  BY <1>5, ToKeeps DEF Fail
<1>6. CASE GiveUp
  BY <1>6, GiveUpKeeps
<1>7. rows \in Trees
  BY DEF WalkIInv, ListingTypeOK
<1>8. ASSUME NEW p \in Paths, CreateRow(p) PROVE WalkIInv'
  BY <1>7, <1>8, PutIsTree, BecomesKeeps DEF CreateRow
<1>9. ASSUME NEW p \in Paths, HideRows(p) PROVE WalkIInv'
  BY <1>7, <1>9, CutIsTree, BecomesKeeps DEF HideRows
<1>10. ASSUME NEW p \in Paths, NEW q \in Paths, MoveRows(p, q) PROVE WalkIInv'
  BY <1>7, <1>10, MovedIsTree, BecomesKeeps DEF MoveRows
<1>11. CASE ReplaceRows
  BY <1>11, BecomesKeeps DEF ReplaceRows
<1>12. CASE ChangeHealth
  BY <1>12 DEF ChangeHealth, WalkIInv, ListingTypeOK, CursorInv, WalkIsComplete,
               PagesAreDisjoint, Listed, Key
<1>13. CASE UNCHANGED listingVars
  BY <1>13 DEF listingVars, WalkIInv, ListingTypeOK, CursorInv, WalkIsComplete,
               PagesAreDisjoint, Listed, Key
<1> QED
  BY <1>1, <1>2, <1>3, <1>4, <1>5, <1>6, <1>8, <1>9, <1>10, <1>11, <1>12, <1>13
     DEF ListingNext

LEMMA SpecWalkIInv == ListingSpec => []WalkIInv
  BY InitWalkIInv, NextWalkIInv, PTL DEF ListingSpec

\* The walk and its pages are well formed, and no page is longer than its
\* limit (List and Search of files/service.go).
THEOREM ListingTypeCorrect == ListingSpec => []ListingTypeOK
<1>1. WalkIInv => ListingTypeOK
  BY DEF WalkIInv
<1> QED
  BY <1>1, SpecWalkIInv, PTL

\* A walk that reached its last page has shown every row that was there all
\* the time, although its pages are read in separate statements.
THEOREM WalksAreComplete == ListingSpec => []WalkIsComplete
<1>1. WalkIInv => WalkIsComplete
  BY DEF WalkIInv
<1> QED
  BY <1>1, SpecWalkIInv, PTL

\* No walk shows a path on two of its pages.
THEOREM NoPathTwice == ListingSpec => []PagesAreDisjoint
<1>1. WalkIInv => PagesAreDisjoint
  BY DEF WalkIInv
<1> QED
  BY <1>1, SpecWalkIInv, PTL
=============================================================================
