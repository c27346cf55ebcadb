--------------------------- MODULE SwaDriveProofs ---------------------------
(***************************************************************************)
(* Proofs about the server, for every tree, every number of uploads, trash *)
(* entries and downloads, and every set of faults: the state is well       *)
(* formed; an upload is visible in files/ or in the trash only when it is  *)
(* finalizing or completed; no content is ever lost or in two places; and  *)
(* the uploads implement the life cycle promised to a client.              *)
(*                                                                         *)
(* The parts: paths and trees; the types; the visible uploads (IInv); the  *)
(* storage root (RootInv); the life cycle.                                 *)
(***************************************************************************)
EXTENDS SwaDriveInvariant, SequenceTheorems, FiniteSetTheorems, TLAPS

(***************************************************************************)
(* Paths and trees.                                                        *)
(***************************************************************************)

LEMMA PathIsSequence ==
  ASSUME NEW p \in Paths
  PROVE  p \in Seq(STRING) /\ Len(p) \in Nat \ {0}
<1>1. p \in Seq(STRING) /\ Len(p) > 0
  BY NamespaceAssumption
<1> QED
  BY <1>1, LenProperties

LEMMA PrefixIndex ==
  ASSUME NEW p \in Seq(STRING), NEW q \in Seq(STRING)
  PROVE  IsPrefix(p, q) <=> Len(p) <= Len(q) /\ \A i \in 1 .. Len(p) : p[i] = q[i]
<1>1. Len(p) \in Nat /\ Len(q) \in Nat
  BY LenProperties
<1>2. SubSeq(p, 1, Len(p)) = p
  BY SubSeqFull
<1> SUFFICES ASSUME Len(p) <= Len(q)
             PROVE  SubSeq(q, 1, Len(p)) = p <=> \A i \in 1 .. Len(p) : p[i] = q[i]
  BY <1>1, <1>2 DEF IsPrefix
<1>3. \A i \in 1 .. Len(p) : q[i] \in STRING
  BY <1>1, ElementOfSeq
<1>4. /\ SubSeq(q, 1, Len(p)) \in Seq(STRING)
      /\ Len(SubSeq(q, 1, Len(p))) = Len(p)
      /\ \A i \in 1 .. Len(p) : SubSeq(q, 1, Len(p))[i] = q[i]
  <2>1. /\ SubSeq(q, 1, Len(p)) \in Seq(STRING)
        /\ Len(SubSeq(q, 1, Len(p))) = IF 1 <= Len(p) THEN Len(p) - 1 + 1 ELSE 0
        /\ \A i \in 1 .. Len(p) - 1 + 1 : SubSeq(q, 1, Len(p))[i] = q[1 + i - 1]
    BY <1>1, <1>3, SubSeqProperties
  <2> QED
    BY <1>1, <2>1
<1> HIDE DEF IsPrefix
<1> QED
  BY <1>4, SeqEqual

LEMMA RebaseIndex ==
  ASSUME NEW q \in Seq(STRING), NEW src \in Seq(STRING), NEW dst \in Seq(STRING),
         Len(src) <= Len(q)
  PROVE  /\ Rebase(q, src, dst) \in Seq(STRING)
         /\ Len(Rebase(q, src, dst)) = Len(dst) + Len(q) - Len(src)
         /\ \A i \in 1 .. Len(dst) + Len(q) - Len(src) :
              Rebase(q, src, dst)[i] = IF i <= Len(dst) THEN dst[i]
                                       ELSE q[i - Len(dst) + Len(src)]
<1>1. Len(q) \in Nat /\ Len(src) \in Nat /\ Len(dst) \in Nat
  BY LenProperties
<1> DEFINE tail == SubSeq(q, Len(src) + 1, Len(q))
<1>2. \A i \in Len(src) + 1 .. Len(q) : q[i] \in STRING
  BY <1>1, ElementOfSeq
<1>3. /\ tail \in Seq(STRING)
      /\ Len(tail) = Len(q) - Len(src)
      /\ \A i \in 1 .. Len(q) - Len(src) : tail[i] = q[i + Len(src)]
  <2>1. /\ tail \in Seq(STRING)
        /\ Len(tail) = IF Len(src) + 1 <= Len(q) THEN Len(q) - (Len(src) + 1) + 1 ELSE 0
        /\ \A i \in 1 .. Len(q) - (Len(src) + 1) + 1 : tail[i] = q[Len(src) + 1 + i - 1]
    BY <1>1, <1>2, SubSeqProperties
  <2> HIDE DEF tail
  <2> QED
    BY <1>1, <2>1
<1> HIDE DEF tail
<1>4. /\ dst \o tail \in Seq(STRING)
      /\ Len(dst \o tail) = Len(dst) + Len(tail)
      /\ \A i \in 1 .. Len(dst) + Len(tail) :
           (dst \o tail)[i] = IF i <= Len(dst) THEN dst[i] ELSE tail[i - Len(dst)]
  <2>1. tail \in Seq(STRING)
    BY <1>3
  <2> QED
    BY <2>1, ConcatProperties, Zenon
<1>5. Rebase(q, src, dst) = dst \o tail
  BY DEF Rebase, tail
<1>6. ASSUME NEW i \in 1 .. Len(dst) + Len(q) - Len(src)
      PROVE  (dst \o tail)[i] = IF i <= Len(dst) THEN dst[i]
                                 ELSE q[i - Len(dst) + Len(src)]
  <2>1. CASE i <= Len(dst)
    BY <1>1, <1>3, <1>4, <2>1
  <2>2. CASE ~(i <= Len(dst))
    <3>1. i - Len(dst) \in 1 .. Len(q) - Len(src)
      BY <1>1, <2>2
    <3> QED
      BY <1>1, <1>3, <1>4, <2>2, <3>1
  <2> QED
    BY <2>1, <2>2
<1> QED
  BY <1>1, <1>3, <1>4, <1>5, <1>6
LEMMA BelowIndex ==
  ASSUME NEW p \in Paths, NEW q
  PROVE  q \in Below(p) <=> /\ q \in Paths
                            /\ Len(p) <= Len(q) /\ \A i \in 1 .. Len(p) : p[i] = q[i]
  BY PathIsSequence, PrefixIndex DEF Below

LEMMA SamePath ==
  ASSUME NEW p \in Seq(STRING), NEW q \in Seq(STRING), Len(p) = Len(q),
         \A i \in 1 .. Len(p) : p[i] = q[i]
  PROVE  p = q
  BY SeqEqual

\* Being below is a partial order on the paths, and what is above one path
\* is totally ordered.
LEMMA BelowIsOrder ==
  ASSUME NEW p \in Paths, NEW q \in Paths
  PROVE  /\ p \in Below(p)
         /\ p \in Below(q) /\ q \in Below(p) => p = q
         /\ \A r \in Below(q) : q \in Below(p) => r \in Below(p)
         /\ \A r \in Below(q) : r \in Below(p) => p \in Below(q) \/ q \in Below(p)
<1>1. \A r \in Paths : r \in Seq(STRING) /\ Len(r) \in Nat
  BY PathIsSequence
<1>2. \A r, s \in Paths :
        r \in Below(s) <=> Len(s) <= Len(r) /\ \A i \in 1 .. Len(s) : s[i] = r[i]
  BY BelowIndex
<1>3. \A s : Below(s) \subseteq Paths
  BY DEF Below
<1>4. p \in Below(p)
  BY <1>1, <1>2
<1>5. p \in Below(q) /\ q \in Below(p) => p = q
  BY <1>1, <1>2, SamePath
<1>6. ASSUME NEW r \in Below(q), q \in Below(p) PROVE r \in Below(p)
  BY <1>1, <1>2, <1>3, <1>6
<1>7. ASSUME NEW r \in Below(q), r \in Below(p)
      PROVE  p \in Below(q) \/ q \in Below(p)
  BY <1>1, <1>2, <1>3, <1>7
<1> QED
  BY <1>4, <1>5, <1>6, <1>7

\* The folder of a path, for a path that is not at the top.
LEMMA FrontIsAbove ==
  ASSUME NEW p \in Paths, Len(p) > 1
  PROVE  /\ Front(p) \in Paths
         /\ p \in Below(Front(p)) \ {Front(p)}
         /\ \A q \in Paths : p \in Below(q) /\ p # q => Front(p) \in Below(q)
<1>1. p \in Seq(STRING) /\ Len(p) \in Nat
  BY PathIsSequence
<1>2. Front(p) \in Paths
  BY <1>1, NamespaceAssumption DEF Front
<1>3. /\ Front(p) \in Seq(STRING) /\ Len(Front(p)) = Len(p) - 1
      /\ \A i \in 1 .. Len(p) - 1 : Front(p)[i] = p[i]
  <2>1. \A i \in 1 .. Len(p) - 1 : p[i] \in STRING
    BY <1>1, ElementOfSeq
  <2>2. /\ Len(SubSeq(p, 1, Len(p) - 1)) = IF 1 <= Len(p) - 1 THEN Len(p) - 1 - 1 + 1 ELSE 0
        /\ \A i \in 1 .. Len(p) - 1 - 1 + 1 : SubSeq(p, 1, Len(p) - 1)[i] = p[1 + i - 1]
    BY <1>1, <2>1, SubSeqProperties
  <2> QED
    BY <1>1, <1>2, <2>2, PathIsSequence DEF Front
<1>4. p \in Below(Front(p)) \ {Front(p)}
  BY <1>1, <1>2, <1>3, BelowIndex
<1>5. ASSUME NEW q \in Paths, p \in Below(q), p # q
      PROVE  Front(p) \in Below(q)
  <2>1. /\ q \in Seq(STRING) /\ Len(q) \in Nat
        /\ Len(q) <= Len(p) /\ \A i \in 1 .. Len(q) : q[i] = p[i]
    BY <1>5, BelowIndex, PathIsSequence
  <2>2. Len(q) # Len(p)
    BY <1>1, <1>5, <2>1, SamePath
  <2>3. Len(q) <= Len(Front(p)) /\ \A i \in 1 .. Len(q) : q[i] = Front(p)[i]
    BY <1>1, <1>3, <2>1, <2>2
  <2> QED
    BY <1>2, <2>3, BelowIndex
<1> QED
  BY <1>2, <1>4, <1>5

\* A path of a subtree under its new name: it is below the new top, comes
\* back to itself, and what was below it stays below it.
LEMMA RebaseIsBelow ==
  ASSUME NEW src \in Paths, NEW dst \in Paths, NEW q \in Below(src)
  PROVE  /\ Rebase(q, src, dst) \in Paths => Rebase(q, src, dst) \in Below(dst)
         /\ Rebase(Rebase(q, src, dst), dst, src) = q
         /\ Rebase(src, src, dst) = dst
         /\ \A r \in Below(q) : 
              Rebase(r, src, dst) \in Paths =>
                /\ Rebase(q, src, dst) \in Paths
                /\ Rebase(r, src, dst) \in Below(Rebase(q, src, dst))
                /\ Rebase(r, src, dst) = Rebase(q, src, dst) => r = q
<1> DEFINE new(r) == Rebase(r, src, dst)
<1>1. \A r \in Paths : r \in Seq(STRING) /\ Len(r) \in Nat \ {0}
  BY PathIsSequence
<1>2. /\ q \in Paths /\ Len(src) <= Len(q)
      /\ \A i \in 1 .. Len(src) : src[i] = q[i]
  BY BelowIndex
<1>3. ASSUME NEW r \in Paths, Len(src) <= Len(r)
      PROVE  /\ new(r) \in Seq(STRING)
             /\ Len(new(r)) = Len(dst) + Len(r) - Len(src)
             /\ \A i \in 1 .. Len(dst) + Len(r) - Len(src) :
                  new(r)[i] = IF i <= Len(dst) THEN dst[i] ELSE r[i - Len(dst) + Len(src)]
  BY <1>1, <1>3, RebaseIndex
<1>4. /\ new(q) \in Seq(STRING)
      /\ Len(new(q)) = Len(dst) + Len(q) - Len(src)
      /\ \A i \in 1 .. Len(dst) + Len(q) - Len(src) :
           new(q)[i] = IF i <= Len(dst) THEN dst[i] ELSE q[i - Len(dst) + Len(src)]
  BY <1>2, <1>3
<1> HIDE DEF new
<1>5. ASSUME new(q) \in Paths PROVE new(q) \in Below(dst)
  <2>1. Len(dst) <= Len(new(q)) /\ \A i \in 1 .. Len(dst) : dst[i] = new(q)[i]
    BY <1>1, <1>2, <1>4
  <2> QED
    BY <1>5, <2>1, BelowIndex
<1>6. Rebase(new(q), dst, src) = q
  <2> DEFINE back == Rebase(new(q), dst, src)
  <2>1. /\ back \in Seq(STRING)
        /\ Len(back) = Len(src) + Len(new(q)) - Len(dst)
        /\ \A i \in 1 .. Len(src) + Len(new(q)) - Len(dst) :
             back[i] = IF i <= Len(src) THEN src[i] ELSE new(q)[i - Len(src) + Len(dst)]
    <3>1. Len(dst) <= Len(new(q))
      BY <1>1, <1>2, <1>4
    <3> QED
      BY <1>1, <1>4, <3>1, RebaseIndex
  <2> HIDE DEF back
  <2>2. Len(back) = Len(q)
    BY <1>1, <1>2, <1>4, <2>1
  <2>3. ASSUME NEW i \in 1 .. Len(back) PROVE back[i] = q[i]
    <3>1. CASE i <= Len(src)
      BY <1>1, <1>2, <2>1, <2>2, <3>1
    <3>2. CASE ~(i <= Len(src))
      <4>1. /\ i - Len(src) + Len(dst) \in 1 .. Len(dst) + Len(q) - Len(src)
            /\ ~(i - Len(src) + Len(dst) <= Len(dst))
            /\ (i - Len(src) + Len(dst)) - Len(dst) + Len(src) = i
        BY <1>1, <1>2, <2>2, <3>2
      <4>2. new(q)[i - Len(src) + Len(dst)] = q[i]
        BY <1>4, <4>1
      <4> QED
        BY <1>1, <1>4, <2>1, <3>2, <4>2
    <3> QED
      BY <3>1, <3>2
  <2>4. back = q
    BY <1>1, <1>2, <2>1, <2>2, <2>3, SamePath
  <2> QED
    BY <2>4 DEF back
<1>7. new(src) = dst
  <2>1. /\ new(src) \in Seq(STRING)
        /\ Len(new(src)) = Len(dst)
        /\ \A i \in 1 .. Len(dst) : new(src)[i] = dst[i]
    BY <1>1, <1>3
  <2> QED
    BY <1>1, <2>1, SamePath
<1>8. ASSUME NEW r \in Below(q), new(r) \in Paths
      PROVE  /\ new(q) \in Paths /\ new(r) \in Below(new(q))
             /\ new(r) = new(q) => r = q
  <2>1. /\ r \in Paths /\ Len(q) <= Len(r)
        /\ \A i \in 1 .. Len(q) : q[i] = r[i]
    BY <1>2, BelowIndex
  <2>2. /\ Len(new(r)) = Len(dst) + Len(r) - Len(src)
        /\ \A i \in 1 .. Len(dst) + Len(r) - Len(src) :
             new(r)[i] = IF i <= Len(dst) THEN dst[i] ELSE r[i - Len(dst) + Len(src)]
    BY <1>1, <1>2, <1>3, <2>1
  <2>3. Len(new(q)) <= Len(new(r)) /\ Len(new(q)) \in Nat \ {0}
    BY <1>1, <1>2, <1>4, <2>1, <2>2
  <2>4. ASSUME NEW i \in 1 .. Len(new(q)) PROVE new(q)[i] = new(r)[i]
    <3>1. CASE i <= Len(dst)
      BY <1>1, <1>2, <1>4, <2>1, <2>2, <3>1
    <3>2. CASE ~(i <= Len(dst))
      <4>1. i - Len(dst) + Len(src) \in 1 .. Len(q)
        BY <1>1, <1>2, <1>4, <3>2
      <4>2. q[i - Len(dst) + Len(src)] = r[i - Len(dst) + Len(src)]
        BY <2>1, <4>1
      <4>3. i \in 1 .. Len(dst) + Len(q) - Len(src) /\ i \in 1 .. Len(dst) + Len(r) - Len(src)
        BY <1>1, <1>2, <1>4, <2>1
      <4> QED
        BY <1>4, <2>2, <3>2, <4>2, <4>3
    <3> QED
      BY <3>1, <3>2
  <2>5. new(q) \in Paths
    <3>1. SubSeq(new(r), 1, Len(new(q))) \in Paths
      BY <1>1, <1>8, <2>3, NamespaceAssumption
    <3>2. IsPrefix(new(q), new(r))
      BY <1>1, <1>4, <1>8, <2>3, <2>4, PrefixIndex
    <3>3. SubSeq(new(q), 1, Len(new(q))) = new(q)
      BY <1>4, SubSeqFull
    <3> QED
      BY <3>1, <3>2, <3>3 DEF IsPrefix
  <2>6. new(r) \in Below(new(q))
    BY <1>8, <2>3, <2>4, <2>5, BelowIndex
  <2>7. ASSUME new(r) = new(q) PROVE r = q
    <3>1. Len(r) = Len(q)
      BY <1>1, <1>2, <1>4, <2>1, <2>2, <2>7
    <3> QED
      BY <1>1, <1>2, <2>1, <3>1, SamePath
  <2> QED
    BY <2>5, <2>6, <2>7
<1> QED
  BY <1>5, <1>6, <1>7, <1>8 DEF new
-----------------------------------------------------------------------------
(* Trees stay well formed under the operations of the disk.                *)

\* Above an unused place there are directories, and below it nothing.
LEMMA FreePlace ==
  ASSUME NEW tree, WellFormed(tree), NEW p \in Paths, IsFree(tree, p)
  PROVE  /\ \A q \in Below(p) : tree[q] = Absent
         /\ \A q \in Paths : p \in Below(q) /\ p # q => tree[q] = Dir
<1>1. Dir # Absent
  BY NamespaceAssumption
<1>2. ASSUME NEW q \in Below(p) PROVE tree[q] = Absent
  BY <1>1 DEF IsFree, WellFormed
<1>3. ASSUME NEW q \in Paths, p \in Below(q), p # q PROVE tree[q] = Dir
  <2>1. Len(p) > 1
    <3>1. /\ Len(q) <= Len(p) /\ \A i \in 1 .. Len(q) : q[i] = p[i]
          /\ Len(q) \in Nat \ {0} /\ Len(p) \in Nat
          /\ p \in Seq(STRING) /\ q \in Seq(STRING)
      BY <1>3, BelowIndex, PathIsSequence
    <3>2. Len(q) # Len(p)
      BY <1>3, <3>1, SamePath
    <3> QED
      BY <3>1, <3>2
  <2>2. tree[Front(p)] = Dir
    BY <2>1 DEF IsFree, ParentIsDir
  <2>3. Front(p) \in Below(q)
    BY <1>3, <2>1, FrontIsAbove
  <2> QED
    BY <1>1, <1>3, <2>2, <2>3 DEF WellFormed
<1> QED
  BY <1>2, <1>3

\* A subtree put into an unused place.
LEMMA GraftIsWellFormed ==
  ASSUME NEW tree, WellFormed(tree), NEW top \in Paths, IsFree(tree, top),
         NEW sub, \A p \in Paths : sub[p] # Absent => p \in Below(top),
         \A p \in Below(top) : \A q \in Below(p) \ {p} : sub[q] # Absent => sub[p] = Dir
  PROVE  WellFormed(Graft(tree, sub))
<1> DEFINE new == Graft(tree, sub)
<1>1. \A q \in Below(top) : tree[q] = Absent
  BY FreePlace
<1>2. \A q \in Paths : new[q] = IF sub[q] = Absent THEN tree[q] ELSE sub[q]
  BY DEF Graft
<1> HIDE DEF new
<1>3. Dir # Absent
  BY NamespaceAssumption
<1> SUFFICES ASSUME NEW p \in Paths, NEW q \in Below(p) \ {p}, new[q] # Absent
             PROVE  new[p] = Dir
  BY DEF WellFormed, new
<1>4. q \in Paths
  BY DEF Below
<1>5. CASE q \in Below(top)
  <2>1. sub[q] # Absent
    BY <1>1, <1>2, <1>4, <1>5
  <2>2. CASE p \in Below(top)
    BY <1>2, <1>3, <2>1, <2>2
  <2>3. CASE p \notin Below(top)
    <3>1. top \in Below(p) /\ top # p
      BY <1>5, <2>3, BelowIsOrder
    <3> QED
      BY <1>2, <2>3, <3>1, FreePlace
  <2> QED
    BY <2>2, <2>3
<1>6. CASE q \notin Below(top)
  <2>1. p \notin Below(top)
    BY <1>6, BelowIsOrder
  <2>2. tree[q] # Absent /\ new[p] = tree[p]
    BY <1>2, <1>4, <1>6, <2>1
  <2> QED
    BY <2>2 DEF WellFormed
<1> QED
  BY <1>5, <1>6

\* A new entry in an unused place.
LEMMA PutIsWellFormed ==
  ASSUME NEW tree \in Trees, WellFormed(tree), NEW top \in Paths, IsFree(tree, top), NEW node
  PROVE  WellFormed(Put(tree, top, node))
<1> DEFINE new == Put(tree, top, node)
<1>1. \A q \in Paths : new[q] = IF q = top THEN node ELSE tree[q]
  BY DEF Put, Trees
<1> HIDE DEF new
<1> SUFFICES ASSUME NEW p \in Paths, NEW q \in Below(p) \ {p}, new[q] # Absent
             PROVE  new[p] = Dir
  BY DEF WellFormed, new
<1>2. q \in Paths
  BY DEF Below
<1>3. CASE q = top
  BY <1>1, <1>3, FreePlace
<1>4. CASE q # top
  <2>1. tree[q] # Absent
    BY <1>1, <1>2, <1>4
  <2>2. p # top
    BY <2>1, FreePlace
  <2> QED
    BY <1>1, <2>1, <2>2 DEF WellFormed
<1> QED
  BY <1>3, <1>4

\* An entry with nothing below it removed.
LEMMA RemovalIsWellFormed ==
  ASSUME NEW tree \in Trees, WellFormed(tree), NEW top \in Paths,
         \A q \in Below(top) \ {top} : tree[q] = Absent
  PROVE  WellFormed(Put(tree, top, Absent))
<1>1. \A q \in Paths : Put(tree, top, Absent)[q] = IF q = top THEN Absent ELSE tree[q]
  BY DEF Put, Trees
<1> QED
  BY <1>1 DEF WellFormed, Below

\* A subtree removed, and the subtree alone.
LEMMA CutIsWellFormed ==
  ASSUME NEW tree, WellFormed(tree), NEW top \in Paths
  PROVE  /\ WellFormed(Cut(tree, top))
         /\ \A p \in Paths : Clip(tree, top)[p] # Absent => p \in Below(top)
         /\ \A p \in Below(top) : \A q \in Below(p) \ {p} :
              Clip(tree, top)[q] # Absent => Clip(tree, top)[p] = Dir
<1>1. \A q \in Paths : /\ Cut(tree, top)[q] = IF q \in Below(top) THEN Absent ELSE tree[q]
                       /\ Clip(tree, top)[q] = IF q \in Below(top) THEN tree[q] ELSE Absent
  BY DEF Cut, Clip
<1>2. \A p : Below(p) \subseteq Paths
  BY DEF Below
<1>3. ASSUME NEW p \in Paths, NEW q \in Below(p) \ {p}, Cut(tree, top)[q] # Absent
      PROVE  Cut(tree, top)[p] = Dir
  <2>1. q \notin Below(top) /\ tree[q] # Absent
    BY <1>1, <1>2, <1>3
  <2>2. p \notin Below(top)
    BY <1>2, <2>1, BelowIsOrder
  <2> QED
    BY <1>1, <2>1, <2>2 DEF WellFormed
<1>4. WellFormed(Cut(tree, top))
  BY <1>3 DEF WellFormed
<1>5. \A p \in Below(top) : \A q \in Below(p) \ {p} :
        Clip(tree, top)[q] # Absent => Clip(tree, top)[p] = Dir
  BY <1>1, <1>2 DEF WellFormed
<1> QED
  BY <1>1, <1>4, <1>5

-----------------------------------------------------------------------------
(* A rename takes every entry along, and the rename back undoes it.        *)

\* The cases of the tree after a rename.
LEMMA MovedAt ==
  ASSUME NEW tree, NEW src \in Paths, NEW dst \in Paths, NEW q \in Paths
  PROVE  /\ q \in Below(dst) /\ Rebase(q, dst, src) \in Paths =>
              /\ Moved(tree, src, dst)[q] = tree[Rebase(q, dst, src)]
              /\ Rebase(q, dst, src) \in Below(src)
         /\ ~(q \in Below(dst) /\ Rebase(q, dst, src) \in Paths) =>
              Moved(tree, src, dst)[q] = IF q \in Below(src) THEN Absent ELSE tree[q]
  BY RebaseIsBelow DEF Moved

LEMMA RenameApart ==
  ASSUME NEW tree, WellFormed(tree), NEW src \in Paths, NEW dst \in Paths,
         CanRename(tree, src, dst)
  PROVE  /\ \A q \in Below(dst) : tree[q] = Absent
         /\ dst \notin Below(src)
         /\ \A q \in Below(src) : dst \notin Below(q)
<1>1. dst \notin Below(src)
  BY DEF CanRename, Below
<1>2. ASSUME NEW q \in Below(src), dst \in Below(q) PROVE FALSE
  <2>1. q \in Paths
    BY DEF Below
  <2> QED
    BY <1>1, <1>2, <2>1, BelowIsOrder
<1> QED
  BY <1>1, <1>2, FreePlace DEF CanRename

LEMMA MovedIsWellFormed ==
  ASSUME NEW tree, WellFormed(tree), NEW src \in Paths, NEW dst \in Paths,
         CanRename(tree, src, dst)
  PROVE  WellFormed(Moved(tree, src, dst))
<1> DEFINE new == Moved(tree, src, dst)
           old(q) == Rebase(q, dst, src)
<1>1. \A q \in Paths :
        /\ q \in Below(dst) /\ old(q) \in Paths => new[q] = tree[old(q)]
        /\ ~(q \in Below(dst) /\ old(q) \in Paths) =>
             new[q] = IF q \in Below(src) THEN Absent ELSE tree[q]
  BY MovedAt
<1>2. /\ \A q \in Below(dst) : tree[q] = Absent
      /\ dst \notin Below(src)
      /\ \A q \in Below(src) : dst \notin Below(q)
  BY RenameApart
<1> SUFFICES ASSUME NEW p \in Paths, NEW q \in Below(p) \ {p}, new[q] # Absent
             PROVE  new[p] = Dir
  BY DEF WellFormed
<1>3. q \in Paths
  BY DEF Below
<1>4. CASE q \in Below(dst) /\ old(q) \in Paths
  <2>1. CASE p \in Below(dst)
    <3>1. /\ old(p) \in Paths /\ old(q) \in Below(old(p)) /\ old(q) # old(p)
      BY <1>4, <2>1, RebaseIsBelow
    <3>2. tree[old(q)] # Absent /\ new[p] = tree[old(p)]
      BY <1>1, <1>3, <1>4, <2>1, <3>1
    <3> QED
      BY <3>1, <3>2 DEF WellFormed
  <2>2. CASE p \notin Below(dst)
    <3>1. dst \in Below(p) /\ dst # p
      BY <1>3, <1>4, <2>2, BelowIsOrder
    <3>2. tree[p] = Dir
      BY <3>1, FreePlace DEF CanRename
    <3>3. p \notin Below(src)
      BY <1>2, <3>1
    <3> QED
      BY <1>1, <2>2, <3>2, <3>3
  <2> QED
    BY <2>1, <2>2
<1>5. CASE ~(q \in Below(dst) /\ old(q) \in Paths)
  <2>1. q \notin Below(src) /\ tree[q] # Absent
    BY <1>1, <1>3, <1>5
  <2>2. q \notin Below(dst)
    BY <1>2, <2>1
  <2>3. p \notin Below(dst) /\ p \notin Below(src)
    BY <2>1, <2>2, BelowIsOrder
  <2> QED
    BY <1>1, <2>1, <2>3 DEF WellFormed
<1> QED
  BY <1>4, <1>5

\* Where an entry is after the rename, and that it can be renamed back.
LEMMA MovedTakesAlong ==
  ASSUME NEW tree, WellFormed(tree), NEW src \in Paths, NEW dst \in Paths,
         CanRename(tree, src, dst), Fits(tree, src, dst)
  PROVE  /\ \A q \in Paths : tree[q] # Absent =>
              \E p \in Paths : Moved(tree, src, dst)[p] = tree[q]
         /\ Fits(Moved(tree, src, dst), dst, src)
<1> DEFINE new == Moved(tree, src, dst)
<1>1. /\ \A q \in Below(dst) : tree[q] = Absent
      /\ dst \notin Below(src)
      /\ \A q \in Below(src) : dst \notin Below(q)
  BY RenameApart
<1>2. ASSUME NEW q \in Paths, tree[q] # Absent
      PROVE  \E p \in Paths : new[p] = tree[q]
  <2>1. CASE q \in Below(src)
    <3>1. /\ Rebase(q, src, dst) \in Paths
          /\ Rebase(q, src, dst) \in Below(dst)
          /\ Rebase(Rebase(q, src, dst), dst, src) = q
      BY <1>2, <2>1, RebaseIsBelow DEF Fits
    <3> QED
      BY <3>1, MovedAt
  <2>2. CASE q \notin Below(src)
    <3>1. q \notin Below(dst)
      BY <1>1, <1>2
    <3> QED
      BY <2>2, <3>1, MovedAt
  <2> QED
    BY <2>1, <2>2
<1>3. ASSUME NEW q \in Below(dst), new[q] # Absent
      PROVE  Rebase(q, dst, src) \in Paths
  <2>1. q \in Paths /\ tree[q] = Absent
    BY <1>1 DEF Below
  <2> QED
    BY <1>3, <2>1, MovedAt
<1> QED
  BY <1>2, <1>3 DEF Fits

\* No entry is in two places after the rename that was in one before.
LEMMA MovedOnce ==
  ASSUME NEW tree, NEW src \in Paths, NEW dst \in Paths, NEW c, c # Absent,
         \A p, q \in Paths : tree[p] = c /\ tree[q] = c => p = q,
         NEW p \in Paths, NEW q \in Paths,
         Moved(tree, src, dst)[p] = c, Moved(tree, src, dst)[q] = c
  PROVE  p = q
<1> DEFINE old(r) == Rebase(r, dst, src)
           moved(r) == r \in Below(dst) /\ old(r) \in Paths
<1>1. ASSUME NEW r \in {p, q}
      PROVE  /\ moved(r) => /\ tree[old(r)] = c /\ old(r) \in Below(src) /\ old(r) \in Paths
                            /\ Rebase(old(r), src, dst) = r
             /\ ~moved(r) => r \notin Below(src) /\ tree[r] = c
  <2>1. CASE moved(r)
    BY <2>1, MovedAt, RebaseIsBelow
  <2>2. CASE ~moved(r)
    <3>1. Moved(tree, src, dst)[r] = IF r \in Below(src) THEN Absent ELSE tree[r]
      BY <2>2 DEF Moved
    <3> QED
      BY <2>2, <3>1
  <2> QED
    BY <2>1, <2>2
<1>2. CASE moved(p) /\ moved(q)
  BY <1>1, <1>2
<1>3. CASE ~moved(p) \/ ~moved(q)
  BY <1>1, <1>3
<1> QED
  BY <1>2, <1>3

LEMMA MovedBack ==
  ASSUME NEW tree \in Trees, WellFormed(tree), NEW src \in Paths, NEW dst \in Paths,
         CanRename(tree, src, dst), Fits(tree, src, dst)
  PROVE  Moved(Moved(tree, src, dst), dst, src) = tree
<1> DEFINE new == Moved(tree, src, dst)
           back == Moved(new, dst, src)
<1>1. /\ \A q \in Below(dst) : tree[q] = Absent
      /\ dst \notin Below(src)
      /\ \A q \in Below(src) : dst \notin Below(q)
  BY RenameApart
<1>2. \A q \in Paths :
        /\ q \in Below(dst) /\ Rebase(q, dst, src) \in Paths => new[q] = tree[Rebase(q, dst, src)]
        /\ ~(q \in Below(dst) /\ Rebase(q, dst, src) \in Paths) =>
             new[q] = IF q \in Below(src) THEN Absent ELSE tree[q]
        /\ q \in Below(src) /\ Rebase(q, src, dst) \in Paths => back[q] = new[Rebase(q, src, dst)]
        /\ ~(q \in Below(src) /\ Rebase(q, src, dst) \in Paths) =>
             back[q] = IF q \in Below(dst) THEN Absent ELSE new[q]
  BY DEF Moved
<1>3. back \in [Paths -> {back[q] : q \in Paths}]
  BY DEF Moved
<1> HIDE DEF new, back
<1>4. ASSUME NEW q \in Paths PROVE back[q] = tree[q]
  <2>1. CASE q \in Below(src) /\ Rebase(q, src, dst) \in Paths
    <3>1. /\ back[q] = new[Rebase(q, src, dst)]
          /\ Rebase(q, src, dst) \in Below(dst)
          /\ Rebase(Rebase(q, src, dst), dst, src) = q
      BY <1>2, <2>1, RebaseIsBelow
    <3> QED
      BY <1>2, <2>1, <3>1
  <2>2. CASE q \in Below(src) /\ Rebase(q, src, dst) \notin Paths
    <3>1. tree[q] = Absent
      BY <2>2 DEF Fits
    <3>2. back[q] = IF q \in Below(dst) THEN Absent ELSE new[q]
      BY <1>2, <2>2
    <3>3. q \notin Below(dst) => new[q] = Absent
      BY <1>2, <2>2
    <3> QED
      BY <3>1, <3>2, <3>3
  <2>3. CASE q \notin Below(src)
    <3>1. back[q] = IF q \in Below(dst) THEN Absent ELSE new[q]
      BY <1>2, <2>3
    <3>2. q \notin Below(dst) => new[q] = tree[q]
      BY <1>2, <2>3
    <3> QED
      BY <1>1, <3>1, <3>2
  <2> QED
    BY <2>1, <2>2, <2>3
<1>5. back = tree
  BY <1>4, <1>3 DEF Trees
<1> QED
  BY <1>5 DEF back, new

(***************************************************************************)
(* Types.                                                                  *)
(***************************************************************************)

(* The operators on trees keep trees.                                      *)

LEMMA EmptyIsTree == EmptyTree \in Trees
  BY DEF EmptyTree, Trees, Nodes

LEMMA PutIsTree ==
  ASSUME NEW tree \in Trees, NEW p, NEW node \in Nodes
  PROVE  Put(tree, p, node) \in Trees
  BY DEF Put, Trees

LEMMA CutIsTree ==
  ASSUME NEW tree \in Trees, NEW p
  PROVE  Cut(tree, p) \in Trees
  BY DEF Cut, Trees, Nodes

LEMMA ClipIsTree ==
  ASSUME NEW tree \in Trees, NEW p
  PROVE  Clip(tree, p) \in Trees
  BY DEF Clip, Trees, Nodes

LEMMA GraftIsTree ==
  ASSUME NEW tree \in Trees, NEW sub \in Trees
  PROVE  Graft(tree, sub) \in Trees
  BY DEF Graft, Trees

LEMMA MovedIsTree ==
  ASSUME NEW tree \in Trees, NEW src, NEW dst
  PROVE  Moved(tree, src, dst) \in Trees
<1>1. ASSUME NEW q \in Paths
      PROVE  (IF q \in Below(dst) /\ Rebase(q, dst, src) \in Paths
                THEN tree[Rebase(q, dst, src)]
                ELSE IF q \in Below(src) THEN Absent ELSE tree[q]) \in Nodes
  BY DEF Trees, Nodes
<1> QED
  BY <1>1 DEF Moved, Trees

(* So do the rules for the reason of the index.                            *)

LEMMA ReasonTypes ==
  ASSUME reason \in Reasons
  PROVE  /\ Healthy \in Reasons /\ MkdirReason \in Reasons /\ MoveReason \in Reasons
         /\ Reason("download-open", NoId) \in Reasons
         /\ Reason("download-metadata", NoId) \in Reasons
         /\ \A t \in TrashIds : TrashReason(t) \in Reasons /\ RestoreReason(t) \in Reasons
         /\ \A u \in Uploads : UploadReason(u) \in Reasons
         /\ \A r \in Reasons : Marked(r) \in Reasons /\ Cleared(r) \in Reasons
  BY DEF Reasons, Reason, Healthy, Multiple, MkdirReason, MoveReason, TrashReason,
         RestoreReason, UploadReason, Marked, Cleared

LEMMA StepTypes ==
  ASSUME NEW c \in Pcs, NEW p \in Paths \cup {Root}, NEW dst \in Paths \cup {Root},
         NEW r \in Reasons, NEW first \in BOOLEAN
  PROVE  Step(c, p, dst, r, first) \in Ops
  BY DEF Step, Ops

LEMMA OpTypes ==
  ASSUME op \in Ops
  PROVE  /\ \A c \in Pcs : [op EXCEPT !.pc = c] \in Ops
         /\ Idle \in Ops
         /\ op.reason \in Reasons
  BY DEF Ops, Idle, Step, Pcs, Healthy, Reason, Reasons

LEMMA NodeTypes == Dir \in Nodes /\ Absent \in Nodes /\ \A u \in Uploads : u \in Nodes
  BY ContentPlaneAssumption DEF Nodes

-----------------------------------------------------------------------------
(* Type correctness *)

LEMMA InitTypeOK == Init => TypeOK
<1> SUFFICES ASSUME Init PROVE TypeOK
  OBVIOUS
<1> USE DEF Init
<1>1. PlaneTypeOK
  BY ContentPlaneAssumption, EmptyIsTree
     DEF PlaneInit, PlaneTypeOK, Ops, Pcs, Idle, Step, Reasons, Reason, Healthy
<1>2. FilesTypeOK
  BY DEF FilesInit, FilesTypeOK, TrashStates, NotReading, Nodes
<1>3. UploadsTypeOK
  BY UploadsAssumption DEF UploadsInit, UploadsTypeOK, Statuses
<1> QED
  BY <1>1, <1>2, <1>3 DEF TypeOK

\* The two transactions that the file service and the startup share.
LEMMA CommitTrashTypes ==
  ASSUME TypeOK, NEW t \in TrashIds, DoCommitTrash(t)
  PROVE  /\ rows' \in Trees /\ hidden' \in [TrashIds -> Trees] /\ reason' \in Reasons
         /\ trashState' \in [TrashIds -> TrashStates]
         /\ trashPath' = trashPath
<1>1. /\ Cut(rows, trashPath[t]) \in Trees
      /\ Clip(rows, trashPath[t]) \in Trees
      /\ Cleared(TrashReason(t)) \in Reasons
  BY CutIsTree, ClipIsTree, ReasonTypes DEF TypeOK, PlaneTypeOK
<1> QED
  BY <1>1 DEF TypeOK, PlaneTypeOK, FilesTypeOK, DoCommitTrash, TrashStates

LEMMA FinishRestoreTypes ==
  ASSUME TypeOK, NEW t \in TrashIds, DoFinishRestore(t)
  PROVE  /\ rows' \in Trees /\ hidden' \in [TrashIds -> Trees] /\ reason' \in Reasons
         /\ trashState' \in [TrashIds -> TrashStates]
         /\ trashPath' \in [TrashIds -> Paths \cup {Root}]
<1>1. /\ Graft(rows, hidden[t]) \in Trees
      /\ Cleared(RestoreReason(t)) \in Reasons
  BY GraftIsTree, ReasonTypes DEF TypeOK, PlaneTypeOK
<1> QED
  BY <1>1, EmptyIsTree DEF TypeOK, PlaneTypeOK, FilesTypeOK, DoFinishRestore, TrashStates

\* A step that leaves the uploads alone, of the file service.
LEMMA FilesStepTypeOK ==
  ASSUME TypeOK, FilesStep, UNCHANGED uploadsVars
  PROVE  TypeOK'
<1> USE OpTypes, NodeTypes DEF TypeOK, PlaneTypeOK, FilesTypeOK, indexVars, filesVars, Goto, Done
<1>0. UploadsTypeOK'
  BY DEF UploadsTypeOK, uploadsVars
<1>1. CASE MkdirOnDisk
  <2>1. Put(files, op.path, Dir) \in Trees
    BY PutIsTree
  <2> QED
    BY <1>0, <1>1, <2>1 DEF MkdirOnDisk, Pcs
<1>2. CASE MkdirIndex
  <2>1. Put(rows, op.path, Dir) \in Trees /\ Cleared(op.reason) \in Reasons
    BY PutIsTree, ReasonTypes
  <2> QED
    BY <1>0, <1>2, <2>1 DEF MkdirIndex, Pcs
<1>3. CASE MkdirUndo
  <2>1. Put(files, op.path, Absent) \in Trees
    BY PutIsTree
  <2> QED
    BY <1>0, <1>3, <2>1 DEF MkdirUndo, Pcs
<1>4. CASE ClearMutation
  BY <1>0, <1>4, ReasonTypes DEF ClearMutation
<1>5. CASE MoveOnDisk
  <2>1. Moved(files, op.path, op.dest) \in Trees
    BY MovedIsTree
  <2> QED
    BY <1>0, <1>5, <2>1 DEF MoveOnDisk, Pcs
<1>6. CASE MoveIndex
  <2>1. Moved(rows, op.path, op.dest) \in Trees /\ Cleared(op.reason) \in Reasons
    BY MovedIsTree, ReasonTypes
  <2> QED
    BY <1>0, <1>6, <2>1 DEF MoveIndex, Pcs
<1>7. CASE MoveUndo
  <2>1. Moved(files, op.dest, op.path) \in Trees
    BY MovedIsTree
  <2> QED
    BY <1>0, <1>7, <2>1 DEF MoveUndo, Pcs
<1>8. ASSUME NEW t \in TrashIds, MoveToTrash(t) PROVE TypeOK'
  <2>1. Cut(files, op.path) \in Trees /\ Clip(files, op.path) \in Trees
    BY CutIsTree, ClipIsTree
  <2> QED
    BY <1>0, <1>8, <2>1 DEF MoveToTrash, Pcs
<1>9. ASSUME NEW t \in TrashIds, AbortTrash(t) PROVE TypeOK'
  BY <1>0, <1>9 DEF AbortTrash, TrashStates
<1>10. ASSUME NEW t \in TrashIds, CommitTrash(t) PROVE TypeOK'
  <2>1. CASE DoCommitTrash(t) /\ Done
    BY <1>0, <1>10, <2>1, CommitTrashTypes DEF CommitTrash
  <2>2. CASE Goto("mark") /\ UNCHANGED <<indexVars, trashState, trashPath>>
    BY <1>0, <1>10, <2>2 DEF CommitTrash, Pcs
  <2> QED
    BY <1>10, <2>1, <2>2 DEF CommitTrash
<1>11. ASSUME NEW t \in TrashIds, RestoreFromTrash(t) PROVE TypeOK'
  <2>1. Graft(files, trash[t]) \in Trees
    BY GraftIsTree
  <2> QED
    BY <1>0, <1>11, <2>1, EmptyIsTree DEF RestoreFromTrash, Pcs
<1>12. ASSUME NEW t \in TrashIds, RollbackRestore(t) PROVE TypeOK'
  BY <1>0, <1>12 DEF RollbackRestore, TrashStates
<1>13. ASSUME NEW t \in TrashIds, FinishRestore(t) PROVE TypeOK'
  <2>1. CASE DoFinishRestore(t) /\ Done
    BY <1>0, <1>13, <2>1, FinishRestoreTypes DEF FinishRestore
  <2>2. CASE Goto("mark") /\ UNCHANGED <<indexVars, trashState, trashPath>>
    BY <1>0, <1>13, <2>2 DEF FinishRestore, Pcs
  <2> QED
    BY <1>13, <2>1, <2>2 DEF FinishRestore
<1> QED
  BY <1>1, <1>2, <1>3, <1>4, <1>5, <1>6, <1>7, <1>8, <1>9, <1>10, <1>11, <1>12, <1>13 DEF FilesStep

\* A request to the file service, and a download.
LEMMA FilesRequestTypeOK ==
  ASSUME TypeOK, FilesRequest \/ Download, UNCHANGED uploadsVars
  PROVE  TypeOK'
<1> USE ReasonTypes DEF TypeOK, PlaneTypeOK, FilesTypeOK, planeVars, indexVars, filesVars
<1>0. UploadsTypeOK'
  BY DEF UploadsTypeOK, uploadsVars
<1>1. ASSUME NEW c \in {"mkdir", "move"}, NEW p \in Paths, NEW q \in Paths,
             NEW r \in {MkdirReason, MoveReason}, BeginMutation(c, p, q, r)
      PROVE  TypeOK'
  BY <1>0, <1>1, StepTypes DEF BeginMutation, Pcs
<1>2. ASSUME NEW t \in TrashIds, NEW p \in Paths, PrepareTrash(t, p) PROVE TypeOK'
  BY <1>0, <1>2, StepTypes DEF PrepareTrash, TrashStates, Pcs
<1>3. ASSUME NEW t \in TrashIds, BeginRestore(t) PROVE TypeOK'
  BY <1>0, <1>3, StepTypes DEF BeginRestore, TrashStates, Pcs
<1>4. ASSUME NEW d \in Readers, NEW p \in Paths, Lookup(d, p) PROVE TypeOK'
  <2>1. rows[p] \in Nodes
    BY DEF Trees
  <2> QED
    BY <1>0, <1>4, <2>1 DEF Lookup
<1>5. ASSUME NEW d \in Readers, OpenFile(d) PROVE TypeOK'
  BY <1>0, <1>5 DEF OpenFile, NotReading, Nodes
<1>6. ASSUME NEW d \in Readers, MarkDownload(d) PROVE TypeOK'
  BY <1>0, <1>6 DEF MarkDownload, NotReading, Nodes
<1> QED
  BY <1>1, <1>2, <1>3, <1>4, <1>5, <1>6 DEF FilesRequest, Download, CreateDirectory, Move

\* A step of an upload.
LEMMA UploadsTypes ==
  ASSUME TypeOK, NEW u \in Uploads, DoComplete(u) \/ DoResetFinalizing(u)
  PROVE  /\ DoComplete(u) => rows' \in Trees
         /\ status' \in [Uploads -> Statuses]
         /\ reason' \in Reasons
<1>1. ASSUME DoComplete(u) PROVE rows' \in Trees
  <2>1. target[u] \in Paths => Put(rows, target[u], files[target[u]]) \in Trees
    BY PutIsTree DEF TypeOK, PlaneTypeOK, Trees
  <2>2. target[u] \notin Paths => Put(rows, target[u], files[target[u]]) \in Trees
    BY DEF TypeOK, PlaneTypeOK, Trees, Put
  <2> QED
    BY <1>1, <2>1, <2>2 DEF DoComplete, TypeOK, PlaneTypeOK
<1> QED
  BY <1>1, ReasonTypes
     DEF TypeOK, PlaneTypeOK, UploadsTypeOK, DoComplete, DoResetFinalizing, Statuses

LEMMA CompleteStepTypeOK ==
  ASSUME TypeOK, CompleteStep, UNCHANGED filesVars
  PROVE  TypeOK'
<1> USE OpTypes DEF TypeOK, PlaneTypeOK, UploadsTypeOK, indexVars, Goto, Done
<1>0. FilesTypeOK'
  BY DEF FilesTypeOK, filesVars
<1>1. ASSUME NEW u \in Uploads, FinalizePart(u) PROVE TypeOK'
  <2>1. Put(files, op.path, u) \in Trees
    BY PutIsTree, NodeTypes
  <2> QED
    BY <1>0, <1>1, <2>1 DEF FinalizePart, Pcs
<1>2. ASSUME NEW u \in Uploads, ResetFinalizing(u) PROVE TypeOK'
  BY <1>0, <1>2, UploadsTypes DEF ResetFinalizing
<1>3. ASSUME NEW u \in Uploads, CompletePublished(u) PROVE TypeOK'
  <2>1. CASE DoComplete(u) /\ Done
    BY <1>0, <1>3, <2>1, UploadsTypes DEF CompletePublished
  <2>2. CASE (Goto("mark") \/ Done) /\ UNCHANGED <<rows, status, reason>>
    BY <1>0, <1>3, <2>2 DEF CompletePublished, Pcs
  <2> QED
    BY <1>3, <2>1, <2>2 DEF CompletePublished
<1> QED
  BY <1>1, <1>2, <1>3 DEF CompleteStep

LEMMA JobStepTypeOK ==
  ASSUME TypeOK, JobStep, UNCHANGED filesVars
  PROVE  TypeOK'
<1> USE UploadsAssumption DEF TypeOK, PlaneTypeOK, UploadsTypeOK, planeVars, indexVars, Statuses
<1>0. FilesTypeOK'
  BY DEF FilesTypeOK, filesVars
<1>1. ASSUME NEW u \in Uploads, CreateRow(u) PROVE TypeOK'
  BY <1>0, <1>1 DEF CreateRow
<1>2. ASSUME NEW u \in Uploads, CancelWithAudit(u) PROVE TypeOK'
  BY <1>0, <1>2 DEF CancelWithAudit, FinishUncompleted
<1>3. ASSUME NEW u \in Uploads, ExpireWithAudit(u) PROVE TypeOK'
  BY <1>0, <1>3 DEF ExpireWithAudit, FinishUncompleted
<1> QED
  BY <1>1, <1>2, <1>3 DEF JobStep

LEMMA UploadsRequestTypeOK ==
  ASSUME TypeOK, UploadsRequest \/ Background, UNCHANGED filesVars
  PROVE  TypeOK'
<1> USE UploadsAssumption
    DEF TypeOK, PlaneTypeOK, UploadsTypeOK, planeVars, indexVars, uploadsVars, Statuses
<1>0. FilesTypeOK'
  BY DEF FilesTypeOK, filesVars
<1>1. ASSUME NEW u \in Uploads, NEW p \in Targets, CreatePart(u, p) PROVE TypeOK'
  BY <1>0, <1>1 DEF CreatePart
<1>2. ASSUME NEW u \in Uploads, PutChunk(u) PROVE TypeOK'
  BY <1>0, <1>2 DEF PutChunk
<1>3. ASSUME NEW u \in Uploads, PrepareFinalization(u) \/ ResumeFinalization(u)
      PROVE  TypeOK'
  <2>1. \A c \in {"publish", "complete", "mark"}, first \in BOOLEAN :
          Step(c, target[u], Root, UploadReason(u), first) \in Ops
    BY StepTypes, ReasonTypes DEF Pcs
  <2> QED
    BY <1>0, <1>3, <2>1 DEF PrepareFinalization, ResumeFinalization
<1>4. ASSUME NEW u \in Uploads, NEW j \in {"cancel", "expire"}, RemovePart(u, j)
      PROVE  TypeOK'
  BY <1>0, <1>4 DEF RemovePart
<1>5. ASSUME NEW u \in Uploads, Expire(u) PROVE TypeOK'
  BY <1>0, <1>5 DEF Expire
<1>6. CASE CleanupError
  BY <1>0, <1>6 DEF CleanupError
<1> QED
  BY <1>1, <1>2, <1>3, <1>4, <1>5, <1>6
     DEF UploadsRequest, Background, Cancel, CleanupExpired

\* The startup, the end of the process, and the offline commands.
LEMMA StartupTypeOK ==
  ASSUME TypeOK, Startup
  PROVE  TypeOK'
<1> USE DEF TypeOK, PlaneTypeOK, FilesTypeOK, UploadsTypeOK, indexVars, filesVars, uploadsVars
<1>1. CASE Start \/ StartDegraded \/ FinishStartup \/ StartWithoutStorage
  BY <1>1 DEF Start, StartDegraded, FinishStartup, StartWithoutStorage
<1>2. ASSUME NEW t \in TrashIds, ReconcileTrash(t) PROVE TypeOK'
  <2>1. CASE DoCommitTrash(t) /\ UNCHANGED server
    BY <1>2, <2>1, CommitTrashTypes DEF ReconcileTrash
  <2>2. CASE DoFinishRestore(t) /\ UNCHANGED server
    BY <1>2, <2>2, FinishRestoreTypes DEF ReconcileTrash
  <2>3. CASE /\ ~(DoCommitTrash(t) /\ UNCHANGED server)
             /\ ~(DoFinishRestore(t) /\ UNCHANGED server)
    BY <1>2, <2>3 DEF ReconcileTrash, Refuse, TrashStates
  <2> QED
    BY <2>1, <2>2, <2>3
<1>3. ASSUME NEW u \in Uploads, ReconcileUpload(u) PROVE TypeOK'
  <2>1. CASE DoResetFinalizing(u) /\ UNCHANGED <<server, rows, hidden>>
    BY <1>3, <2>1, UploadsTypes DEF ReconcileUpload
  <2>2. CASE DoComplete(u) /\ UNCHANGED <<server, hidden>>
    BY <1>3, <2>2, UploadsTypes DEF ReconcileUpload
  <2>3. CASE /\ Refuse /\ UNCHANGED status
             /\ reason' \in {reason, Marked(UploadReason(u))}
    BY <1>3, <2>3, ReasonTypes DEF ReconcileUpload, Refuse
  <2> QED
    BY <1>3, <2>1, <2>2, <2>3 DEF ReconcileUpload
<1> QED
  BY <1>1, <1>2, <1>3 DEF Startup, Reconciliation

LEMMA OtherTypeOK ==
  ASSUME TypeOK, MarkNext \/ LoseStorage \/ Stop \/ Administration
  PROVE  TypeOK'
<1> USE DEF TypeOK, PlaneTypeOK, FilesTypeOK, UploadsTypeOK,
            planeVars, indexVars, filesVars, uploadsVars
<1>1. CASE MarkNext
  BY <1>1, ReasonTypes, OpTypes DEF MarkNext, MarkIndexUnhealthy, Done
<1>2. CASE LoseStorage
  BY <1>2 DEF LoseStorage
<1>3. CASE Stop
  BY <1>3, OpTypes DEF Stop, ForgetProcess, NotReading, Nodes
<1>4. CASE Reindex
  BY <1>4, EmptyIsTree, ReasonTypes DEF Reindex
<1>5. ASSUME NEW u \in Uploads, ReconcileUploadParts(u) PROVE TypeOK'
  BY <1>5 DEF ReconcileUploadParts
<1> QED
  BY <1>1, <1>2, <1>3, <1>4, <1>5 DEF Administration

LEMMA StutterTypeOK ==
  ASSUME TypeOK, UNCHANGED vars
  PROVE  TypeOK'
  BY DEF TypeOK, PlaneTypeOK, FilesTypeOK, UploadsTypeOK,
         vars, planeVars, indexVars, filesVars, uploadsVars

LEMMA StepTypeOK == TypeOK /\ [Next]_vars => TypeOK'
<1> SUFFICES ASSUME TypeOK, [Next]_vars PROVE TypeOK'
  OBVIOUS
<1>1. CASE FilesNext
  BY <1>1, FilesStepTypeOK, FilesRequestTypeOK DEF FilesNext
<1>2. CASE UploadsNext
  BY <1>2, CompleteStepTypeOK, JobStepTypeOK, UploadsRequestTypeOK DEF UploadsNext
<1> QED
  BY <1>1, <1>2, StartupTypeOK, OtherTypeOK, StutterTypeOK DEF Next

\* The state of the server is well formed: every operation, repair, startup
\* and offline command leaves trees, reasons, operations and uploads of
\* their kinds, and no upload records more chunks than it has.
THEOREM TypeCorrect == Spec => []TypeOK
  BY InitTypeOK, StepTypeOK, PTL DEF Spec

-----------------------------------------------------------------------------
(* OnlyFinishedVisible.  By itself it is not inductive: a reset after a    *)
(* failed publication makes an upload pending again, and that is right     *)
(* only because its part file is still there.  The invariant therefore     *)
(* says that no upload has a part file and a visible file at once, and     *)
(* what the operation inside the MutationCoordinator knows of its upload.  *)

LEMMA UploadsAreContents ==
  \A u \in Uploads : u # Absent /\ u # Dir /\ \A p \in Paths : InitialFiles[p] # u
  BY ContentPlaneAssumption, NamespaceAssumption

LEMMA IdleCompletesNothing ==
  ASSUME NEW u \in Uploads, op = Idle
  PROVE  ~Completing(u)
  BY DEF Completing, UploadReason, Idle, Step, Healthy, Reason

LEMMA ReasonsDiffer ==
  ASSUME NEW u \in Uploads
  PROVE  /\ UploadReason(u) # Healthy
         /\ UploadReason(u) # MkdirReason /\ UploadReason(u) # MoveReason
         /\ \A t \in TrashIds : UploadReason(u) # TrashReason(t) /\ UploadReason(u) # RestoreReason(t)
         /\ \A v \in Uploads : UploadReason(u) = UploadReason(v) => u = v
  BY DEF UploadReason, Healthy, MkdirReason, MoveReason, TrashReason, RestoreReason, Reason

LEMMA FileReasonsDiffer ==
  /\ MkdirReason # MoveReason
  /\ \A r \in {MkdirReason, MoveReason} : r # Healthy /\ r # Multiple
  /\ \A t \in TrashIds :
       /\ TrashReason(t) \notin {Healthy, Multiple, MkdirReason, MoveReason}
       /\ RestoreReason(t) \notin {Healthy, Multiple, MkdirReason, MoveReason}
  /\ \A s, t \in TrashIds :
       /\ TrashReason(t) # RestoreReason(s)
       /\ TrashReason(t) = TrashReason(s) => s = t
       /\ RestoreReason(t) = RestoreReason(s) => s = t
<1> USE DEF Healthy, Multiple, MkdirReason, MoveReason, TrashReason, RestoreReason, Reason
<1>1. /\ MkdirReason # MoveReason
      /\ \A r \in {MkdirReason, MoveReason} : r # Healthy /\ r # Multiple
  OBVIOUS
<1>2. \A t \in TrashIds :
        /\ TrashReason(t) \notin {Healthy, Multiple, MkdirReason, MoveReason}
        /\ RestoreReason(t) \notin {Healthy, Multiple, MkdirReason, MoveReason}
  OBVIOUS
<1>3. \A s, t \in TrashIds :
        /\ TrashReason(t) # RestoreReason(s)
        /\ TrashReason(t) = TrashReason(s) => s = t
        /\ RestoreReason(t) = RestoreReason(s) => s = t
  OBVIOUS
<1> QED
  BY <1>1, <1>2, <1>3

(* No operator on trees shows a content that was not there.                *)

LEMMA PutShows ==
  ASSUME NEW tree \in Trees, NEW p, NEW node, NEW c, InTree(Put(tree, p, node), c)
  PROVE  InTree(tree, c) \/ node = c
  BY DEF InTree, Put, Trees

LEMMA CutShows ==
  ASSUME NEW tree, NEW p, NEW c, c # Absent, InTree(Cut(tree, p), c)
  PROVE  InTree(tree, c)
  BY DEF InTree, Cut

LEMMA ClipShows ==
  ASSUME NEW tree, NEW p, NEW c, c # Absent, InTree(Clip(tree, p), c)
  PROVE  InTree(tree, c)
  BY DEF InTree, Clip

LEMMA GraftShows ==
  ASSUME NEW tree, NEW sub, NEW c, InTree(Graft(tree, sub), c)
  PROVE  InTree(tree, c) \/ InTree(sub, c)
  BY DEF InTree, Graft

LEMMA MovedShows ==
  ASSUME NEW tree, NEW src, NEW dst, NEW c, c # Absent, InTree(Moved(tree, src, dst), c)
  PROVE  InTree(tree, c)
  BY DEF InTree, Moved

LEMMA EmptyShows ==
  ASSUME NEW c, c # Absent
  PROVE  ~InTree(EmptyTree, c)
  BY DEF InTree, EmptyTree

LEMMA InitIInv == Init => IInv
<1> SUFFICES ASSUME Init PROVE IInv
  OBVIOUS
<1>1. OpInv
  BY IdleCompletesNothing DEF Init, PlaneInit, UploadsInit, OpInv
<1>2. VisibleInv
  BY UploadsAreContents, EmptyShows DEF Init, PlaneInit, VisibleInv, Visible, InTree
<1> QED
  BY <1>1, <1>2, InitTypeOK DEF IInv

(* The file service moves what is visible and makes nothing visible.      *)

LEMMA FilesStepShows ==
  ASSUME TypeOK, FilesStep, NEW u \in Uploads, Visible(u)'
  PROVE  Visible(u)
<1> USE UploadsAreContents, NodeTypes DEF TypeOK, PlaneTypeOK, Visible
<1>1. CASE MkdirOnDisk \/ MkdirUndo
  BY <1>1, PutShows DEF MkdirOnDisk, MkdirUndo
<1>2. CASE MkdirIndex \/ ClearMutation \/ MoveIndex
  BY <1>2 DEF MkdirIndex, ClearMutation, MoveIndex
<1>3. CASE MoveOnDisk \/ MoveUndo
  BY <1>3, MovedShows DEF MoveOnDisk, MoveUndo
<1>4. ASSUME NEW t \in TrashIds, MoveToTrash(t) PROVE Visible(u)
  <2>1. \/ UNCHANGED <<files, trash>>
        \/ /\ files' = Cut(files, op.path)
           /\ trash' = [trash EXCEPT ![t] = Clip(files, op.path)]
    BY <1>4 DEF MoveToTrash
  <2>2. InTree(files', u) => Visible(u)
    BY <2>1, CutShows
  <2>3. ASSUME NEW x \in TrashIds, InTree(trash'[x], u) PROVE Visible(u)
    BY <2>1, <2>3, ClipShows
  <2> QED
    BY <2>2, <2>3
<1>5. ASSUME NEW t \in TrashIds, RestoreFromTrash(t) PROVE Visible(u)
  <2>1. \/ UNCHANGED <<files, trash>>
        \/ /\ files' = Graft(files, trash[t])
           /\ trash' = [trash EXCEPT ![t] = EmptyTree]
    BY <1>5 DEF RestoreFromTrash
  <2>2. InTree(files', u) => Visible(u)
    BY <2>1, GraftShows
  <2>3. ASSUME NEW x \in TrashIds, InTree(trash'[x], u) PROVE Visible(u)
    BY <2>1, <2>3, EmptyShows
  <2> QED
    BY <2>2, <2>3
<1>6. ASSUME NEW t \in TrashIds,
             AbortTrash(t) \/ CommitTrash(t) \/ RollbackRestore(t) \/ FinishRestore(t)
      PROVE  Visible(u)
  BY <1>6 DEF AbortTrash, CommitTrash, RollbackRestore, FinishRestore
<1> QED
  BY <1>1, <1>2, <1>3, <1>4, <1>5, <1>6 DEF FilesStep

\* Its operations never become a publication.
LEMMA FilesStepOp ==
  ASSUME FilesStep
  PROVE  /\ server' = server /\ op # Idle
         /\ \/ op' = Idle
            \/ \E c \in Pcs \ {"publish", "reset", "complete"} : op' = [op EXCEPT !.pc = c]
<1> USE DEF At, Goto, Done, Pcs
<1>0. op.pc # "idle" => op # Idle
  BY DEF Idle, Step
<1>1. CASE MkdirOnDisk \/ MkdirIndex \/ MkdirUndo \/ ClearMutation
  BY <1>0, <1>1 DEF MkdirOnDisk, MkdirIndex, MkdirUndo, ClearMutation
<1>2. CASE MoveOnDisk \/ MoveIndex \/ MoveUndo
  BY <1>0, <1>2 DEF MoveOnDisk, MoveIndex, MoveUndo
<1>3. CASE \E t \in TrashIds : MoveToTrash(t) \/ AbortTrash(t) \/ CommitTrash(t)
  BY <1>0, <1>3 DEF MoveToTrash, AbortTrash, CommitTrash
<1>4. CASE \E t \in TrashIds : RestoreFromTrash(t) \/ RollbackRestore(t) \/ FinishRestore(t)
  BY <1>0, <1>4 DEF RestoreFromTrash, RollbackRestore, FinishRestore
<1> QED
  BY <1>1, <1>2, <1>3, <1>4 DEF FilesStep

LEMMA FilesNextIInv ==
  ASSUME IInv, FilesNext
  PROVE  OpInv' /\ VisibleInv'
<1> USE DEF IInv, FilesNext, uploadsVars
<1>1. CASE FilesStep
  <2>1. VisibleInv'
    BY <1>1, FilesStepShows DEF VisibleInv
  <2>2. ASSUME NEW u \in Uploads, Completing(u)'
        PROVE  Completing(u) /\ op'.pc \notin {"publish", "reset"}
    BY <1>1, <2>2, FilesStepOp, ReasonsDiffer
       DEF Completing, Idle, Step, TypeOK, PlaneTypeOK, Ops
  <2>3. OpInv'
    BY <1>1, <2>2, FilesStepOp DEF OpInv
  <2> QED
    BY <2>1, <2>3
<1>2. CASE FilesRequest
  <2>1. /\ UNCHANGED <<files, trash, server>> /\ server = "serving"
        /\ \A u \in Uploads : op'.reason # UploadReason(u)
    <3>1. CASE \E p \in Paths : CreateDirectory(p)
      BY <1>2, <3>1, ReasonsDiffer DEF CreateDirectory, BeginMutation, Accepting, Step
    <3>2. CASE \E p, q \in Paths : Move(p, q)
      BY <1>2, <3>2, ReasonsDiffer DEF Move, BeginMutation, Accepting, Step
    <3>3. CASE \E t \in TrashIds, p \in Paths : PrepareTrash(t, p)
      BY <1>2, <3>3, ReasonsDiffer DEF PrepareTrash, Accepting, Step
    <3>4. CASE \E t \in TrashIds : BeginRestore(t)
      BY <1>2, <3>4, ReasonsDiffer DEF BeginRestore, Accepting, Step
    <3> QED
      BY <1>2, <3>1, <3>2, <3>3, <3>4 DEF FilesRequest
  <2> QED
    BY <2>1 DEF OpInv, VisibleInv, Visible, Completing
<1>3. CASE Download
  BY <1>3 DEF Download, Lookup, OpenFile, MarkDownload, planeVars,
              OpInv, VisibleInv, Visible, Completing
<1> QED
  BY <1>1, <1>2, <1>3

\* The steps of a completion: its own upload, and then all the others.
LEMMA CompleteStepIInv ==
  ASSUME IInv, CompleteStep
  PROVE  OpInv' /\ VisibleInv'
<1> USE DEF IInv, OpInv, VisibleInv, Goto, Done, At
<1>1. ASSUME NEW u \in Uploads, FinalizePart(u) PROVE OpInv' /\ VisibleInv'
  <2>1. /\ Completing(u) /\ part[u] /\ status[u] = "finalizing" /\ job[u] = "none"
        /\ op.pc = "publish" /\ op # Idle
    BY <1>1 DEF FinalizePart, Idle, Step
  <2>2. /\ UNCHANGED <<server, status, job, trash>>
        /\ \/ UNCHANGED <<files, part>>
           \/ files' = Put(files, op.path, u) /\ part' = [part EXCEPT ![u] = FALSE]
    BY <1>1 DEF FinalizePart
  <2>3. \A v \in Uploads \ {u} : ~Completing(v) /\ ~Completing(v)'
    BY <1>1, <2>1, ReasonsDiffer DEF FinalizePart, Completing, Idle, Step, TypeOK, PlaneTypeOK, Ops
  <2>4. \A v \in Uploads : Visible(v)' => Visible(v) \/ (v = u /\ part' = [part EXCEPT ![u] = FALSE])
    BY <2>2, PutShows DEF Visible, TypeOK, PlaneTypeOK
  <2>5. Completing(u)' /\ op'.pc \in {"publish", "reset"} => UNCHANGED part
    BY <1>1, <2>1, ReasonsDiffer DEF FinalizePart, Completing, Idle, Step, TypeOK, PlaneTypeOK, Ops
  <2>6. OpInv'
    BY <2>1, <2>2, <2>3, <2>5 DEF TypeOK, UploadsTypeOK
  <2>7. VisibleInv'
    BY <2>1, <2>2, <2>4 DEF TypeOK, UploadsTypeOK
  <2> QED
    BY <2>6, <2>7
<1>2. ASSUME NEW u \in Uploads, ResetFinalizing(u) PROVE OpInv' /\ VisibleInv'
  <2>1. /\ Completing(u) /\ part[u] /\ job[u] = "none" /\ op' = Idle
        /\ UNCHANGED <<server, files, trash, part, job>>
        /\ UNCHANGED status \/ status' = [status EXCEPT ![u] = "pending"]
    BY <1>2 DEF ResetFinalizing, DoResetFinalizing
  <2>2. \A v \in Uploads : ~Completing(v)'
    BY <2>1, ReasonsDiffer DEF Completing, Idle, Step
  <2> QED
    BY <2>1, <2>2 DEF Visible, TypeOK, UploadsTypeOK
<1>3. ASSUME NEW u \in Uploads, CompletePublished(u) PROVE OpInv' /\ VisibleInv'
  <2>1. /\ Completing(u) /\ status[u] = "finalizing" /\ job[u] = "none" /\ op # Idle
        /\ UNCHANGED <<server, files, trash, part, job>>
    BY <1>3 DEF CompletePublished, Idle, Step
  <2>2. \/ op' = Idle /\ status' = [status EXCEPT ![u] = "completed"]
        \/ UNCHANGED status /\ (op' = Idle \/ op' = [op EXCEPT !.pc = "mark"])
    BY <1>3 DEF CompletePublished, DoComplete
  <2>3. \A v \in Uploads : Completing(v)' => UNCHANGED status /\ Completing(v)
                                          /\ op'.pc \notin {"publish", "reset"}
    BY <2>2, ReasonsDiffer DEF Completing, Idle, Step, TypeOK, PlaneTypeOK, Ops
  <2> QED
    BY <2>1, <2>2, <2>3 DEF Visible, TypeOK, UploadsTypeOK
<1> QED
  BY <1>1, <1>2, <1>3 DEF CompleteStep

LEMMA JobStepIInv ==
  ASSUME IInv, JobStep
  PROVE  OpInv' /\ VisibleInv'
<1> USE DEF IInv, OpInv, VisibleInv, Visible, Completing, TypeOK, UploadsTypeOK, planeVars
<1>1. ASSUME NEW u \in Uploads, CreateRow(u) PROVE OpInv' /\ VisibleInv'
  <2>1. /\ status[u] = "none" /\ ~Visible(u) /\ ~Completing(u)
        /\ UNCHANGED planeVars
        /\ job' = [job EXCEPT ![u] = "none"]
        /\ part' \in {part, [part EXCEPT ![u] = FALSE]}
        /\ status' \in {status, [status EXCEPT ![u] = "pending"]}
    BY <1>1 DEF CreateRow
  <2> QED
    BY <2>1
<1>2. ASSUME NEW u \in Uploads, CancelWithAudit(u) \/ ExpireWithAudit(u)
      PROVE  OpInv' /\ VisibleInv'
  <2>1. /\ job[u] # "none"
        /\ UNCHANGED <<files, trash, op, part>>
        /\ server' \in {server, "stopping"}
        /\ job' = [job EXCEPT ![u] = "none"]
        /\ \/ UNCHANGED status
           \/ /\ status[u] = "pending"
              /\ status' \in {[status EXCEPT ![u] = "cancelled"], [status EXCEPT ![u] = "expired"]}
    BY <1>2 DEF CancelWithAudit, ExpireWithAudit, FinishUncompleted
  <2> QED
    BY <2>1
<1> QED
  BY <1>1, <1>2 DEF JobStep

LEMMA UploadsRequestIInv ==
  ASSUME IInv, UploadsRequest \/ Background
  PROVE  OpInv' /\ VisibleInv'
<1> USE DEF IInv, OpInv, VisibleInv, Visible, TypeOK, UploadsTypeOK, planeVars, uploadsVars
<1>1. ASSUME NEW u \in Uploads, NEW p \in Targets, CreatePart(u, p) PROVE OpInv' /\ VisibleInv'
  BY <1>1 DEF CreatePart, Accepting, Completing
<1>2. ASSUME NEW u \in Uploads, PutChunk(u) \/ Expire(u) PROVE OpInv' /\ VisibleInv'
  BY <1>2 DEF PutChunk, Expire, Completing
<1>3. ASSUME NEW u \in Uploads, PrepareFinalization(u) PROVE OpInv' /\ VisibleInv'
  <2>1. /\ server = "serving" /\ job[u] = "none" /\ part[u]
        /\ UNCHANGED <<server, files, trash, part, job>>
        /\ status' = [status EXCEPT ![u] = "finalizing"]
        /\ op'.reason = UploadReason(u)
    BY <1>3 DEF PrepareFinalization, Accepting, Unlocked, Step
  <2>2. \A v \in Uploads : Completing(v)' => v = u
    BY <2>1, ReasonsDiffer DEF Completing
  <2> QED
    BY <2>1, <2>2
<1>4. ASSUME NEW u \in Uploads, ResumeFinalization(u) PROVE OpInv' /\ VisibleInv'
  <2>1. /\ server = "serving" /\ job[u] = "none" /\ status[u] = "finalizing"
        /\ UNCHANGED <<server, files, trash, part, job, status>>
        /\ op'.reason = UploadReason(u) /\ op'.pc \in {"complete", "mark"}
    BY <1>4 DEF ResumeFinalization, Accepting, Unlocked, Step
  <2>2. \A v \in Uploads : Completing(v)' => v = u
    BY <2>1, ReasonsDiffer DEF Completing
  <2> QED
    BY <2>1, <2>2
<1>5. ASSUME NEW u \in Uploads, NEW j \in {"cancel", "expire"}, RemovePart(u, j),
             server = "serving"
      PROVE  OpInv' /\ VisibleInv'
  BY <1>5 DEF RemovePart, Unlocked, Completing
<1>6. CASE CleanupError
  BY <1>6 DEF CleanupError, Completing
<1> QED
  BY <1>1, <1>2, <1>3, <1>4, <1>5, <1>6
     DEF UploadsRequest, Background, Cancel, Accepting, CleanupExpired

LEMMA StartupIInv ==
  ASSUME IInv, Startup
  PROVE  OpInv' /\ VisibleInv'
<1> USE DEF IInv, OpInv, VisibleInv, Visible, Completing, TypeOK, UploadsTypeOK, uploadsVars, Down
<1>1. CASE Start \/ StartDegraded \/ FinishStartup \/ StartWithoutStorage
  BY <1>1 DEF Start, StartDegraded, FinishStartup, StartWithoutStorage, Reconciling
<1>2. ASSUME NEW t \in TrashIds, ReconcileTrash(t) PROVE OpInv' /\ VisibleInv'
  BY <1>2 DEF ReconcileTrash, Reconciling
<1>3. ASSUME NEW u \in Uploads, ReconcileUpload(u) PROVE OpInv' /\ VisibleInv'
  <2>1. /\ server = "starting" /\ status[u] = "finalizing"
        /\ UNCHANGED <<files, trash, op, part, job>>
        /\ \/ UNCHANGED status
           \/ status' = [status EXCEPT ![u] = "completed"]
           \/ part[u] /\ status' = [status EXCEPT ![u] = "pending"]
    BY <1>3 DEF ReconcileUpload, Reconciling, PendingUploads, ResetDue,
                DoResetFinalizing, DoComplete
  <2>2. \A v \in Uploads : ~Completing(v)
    BY <2>1, IdleCompletesNothing
  <2> QED
    BY <2>1, <2>2
<1> QED
  BY <1>1, <1>2, <1>3 DEF Startup, Reconciliation

LEMMA OtherIInv ==
  ASSUME IInv, MarkNext \/ LoseStorage \/ Stop \/ Administration
  PROVE  OpInv' /\ VisibleInv'
<1> USE DEF IInv, OpInv, VisibleInv, Visible, Completing, TypeOK, UploadsTypeOK,
            planeVars, uploadsVars
<1>0. \A u \in Uploads : UploadReason(u) # Idle.reason
  BY ReasonsDiffer DEF Idle, Step
<1>1. CASE MarkNext
  BY <1>0, <1>1 DEF MarkNext, MarkIndexUnhealthy, Done
<1>2. CASE LoseStorage
  BY <1>2 DEF LoseStorage
<1>3. CASE Stop
  BY <1>0, <1>3 DEF Stop, ForgetProcess
<1>4. CASE Reindex
  BY <1>4 DEF Reindex
<1>5. ASSUME NEW u \in Uploads, ReconcileUploadParts(u) PROVE OpInv' /\ VisibleInv'
  <2>1. ~Completing(u)
    BY <1>5, IdleCompletesNothing DEF ReconcileUploadParts, Down
  <2> QED
    BY <1>5, <2>1 DEF ReconcileUploadParts
<1> QED
  BY <1>1, <1>2, <1>3, <1>4, <1>5 DEF Administration

LEMMA StepIInv == IInv /\ [Next]_vars => IInv'
<1> SUFFICES ASSUME IInv, [Next]_vars PROVE IInv'
  OBVIOUS
<1>1. TypeOK'
  BY StepTypeOK DEF IInv
<1>2. CASE UploadsNext
  BY <1>1, <1>2, CompleteStepIInv, JobStepIInv, UploadsRequestIInv DEF UploadsNext, IInv
<1>3. CASE UNCHANGED vars
  BY <1>1, <1>3 DEF IInv, OpInv, VisibleInv, Visible, Completing, vars, planeVars, uploadsVars
<1> QED
  BY <1>1, <1>2, <1>3, FilesNextIInv, StartupIInv, OtherIInv DEF Next, IInv

\* Only what an upload has completely received is ever visible: no cancel,
\* expiry, failed or repeated completion, crash or reconciliation leaves a
\* file of an unfinished or closed upload in files/ or in the trash.
THEOREM UnfinishedIsInvisible == Spec => []OnlyFinishedVisible
<1>1. IInv => OnlyFinishedVisible
  BY DEF IInv, VisibleInv, Visible, InTree, OnlyFinishedVisible, InFiles, InTrash
<1> QED
  BY InitIInv, StepIInv, <1>1, PTL DEF Spec

(***************************************************************************)
(* The storage root.                                                       *)
(***************************************************************************)

LEMMA InitRootInv == Init => RootInv
<1> SUFFICES ASSUME Init PROVE RootInv
  OBVIOUS
<1> USE DEF Init, PlaneInit, FilesInit, UploadsInit
<1>1. WellFormed(files)
  BY ContentPlaneAssumption
<1>2. TrashInv
  BY DEF TrashInv, SubtreeAt, EmptyTree, Below
<1>3. op.pc = "idle" /\ op.reason = Healthy
  BY DEF Idle, Step
<1>4. MkdirAndMoveInv /\ TrashOpInv /\ PublishInv
  BY <1>3, ReasonsDiffer, FileReasonsDiffer DEF MkdirAndMoveInv, TrashOpInv, PublishInv, Completing
<1>5. TargetInv
  BY DEF TargetInv
<1>6. OnePlace
  <2>1. ASSUME NEW c \in Contents, NEW p \in Paths, NEW q \in Paths,
               files[p] = c, files[q] = c
        PROVE  p = q
    BY <2>1, ContentPlaneAssumption
  <2>2. \A c \in Contents, t \in TrashIds : ~InTree(trash[t], c)
    BY EmptyShows, NamespaceAssumption
  <2> QED
    BY <2>1, <2>2 DEF OnePlace, InTree
<1>7. Kept
  BY ContentPlaneAssumption DEF Kept, Visible, InTree
<1> QED
  BY <1>1, <1>2, <1>4, <1>5, <1>6, <1>7 DEF RootInv

LEMMA GotoFields ==
  ASSUME op \in Ops, NEW c, Goto(c)
  PROVE  /\ op'.pc = c
         /\ op'.path = op.path /\ op'.dest = op.dest
         /\ op'.reason = op.reason /\ op'.first = op.first
  BY DEF Goto, Ops

LEMMA IdleKeepsNothing ==
  ASSUME op' = Idle
  PROVE  MkdirAndMoveInv' /\ TrashOpInv' /\ PublishInv'
<1>1. op'.pc = "idle" /\ op'.reason = Healthy
  BY DEF Idle, Step
<1> QED
  BY <1>1, ReasonsDiffer, FileReasonsDiffer DEF MkdirAndMoveInv, TrashOpInv, PublishInv, Completing

\* The operation of a trash entry is at one of its own steps.
LEMMA NotOfTrash ==
  ASSUME TrashOpInv,
         op.pc \notin {"trash", "trash-abort", "trash-commit", "restore",
                       "restore-rollback", "restore-finish", "mark"},
         NEW t \in TrashIds
  PROVE  op.reason # TrashReason(t) /\ op.reason # RestoreReason(t)
  BY DEF TrashOpInv

LEMMA RootFrame ==
  ASSUME RootInv, UNCHANGED <<files, trash, trashState, trashPath>>
  PROVE  /\ WellFormed(files)' /\ TrashInv' /\ OnePlace'
         /\ \A c : Visible(c)' <=> Visible(c)
<1> USE DEF RootInv
<1>1. WellFormed(files)'
  BY DEF WellFormed
<1>2. TrashInv'
  BY DEF TrashInv, SubtreeAt
<1>3. OnePlace'
  BY DEF OnePlace, InTree
<1>4. \A c : Visible(c)' <=> Visible(c)
  BY DEF Visible, InTree
<1> QED
  BY <1>1, <1>2, <1>3, <1>4

\* A step that replaces files/ only.
LEMMA FilesFrame ==
  ASSUME RootInv, UNCHANGED <<trash, trashState, trashPath>>,
         \A c \in Contents, p, q \in Paths : files'[p] = c /\ files'[q] = c => p = q,
         \A c \in Contents : InTree(files', c) <=> InTree(files, c)
  PROVE  /\ TrashInv' /\ OnePlace'
         /\ \A c \in Contents : Visible(c)' <=> Visible(c)
<1> USE DEF RootInv
<1>2. TrashInv'
  BY DEF TrashInv, SubtreeAt
<1>3. OnePlace'
  BY DEF OnePlace, InTree
<1>4. \A c \in Contents : Visible(c)' <=> Visible(c)
  BY DEF Visible
<1> QED
  BY <1>2, <1>3, <1>4

\* What an operator on files/ has to do to files/ for that.
LEMMA PutFrame ==
  ASSUME NEW tree \in Trees, NEW p \in Paths, tree[p] \notin Contents,
         NEW node, node \notin Contents
  PROVE  /\ \A c \in Contents : InTree(Put(tree, p, node), c) <=> InTree(tree, c)
         /\ \A c \in Contents, q, r \in Paths :
              Put(tree, p, node)[q] = c /\ Put(tree, p, node)[r] = c => tree[q] = c /\ tree[r] = c
<1>1. \A q \in Paths : Put(tree, p, node)[q] = IF q = p THEN node ELSE tree[q]
  BY DEF Put, Trees
<1> QED
  BY <1>1 DEF InTree

LEMMA MovedFrame ==
  ASSUME NEW tree, WellFormed(tree), NEW src \in Paths, NEW dst \in Paths,
         CanRename(tree, src, dst), Fits(tree, src, dst),
         \A c \in Contents, p, q \in Paths : tree[p] = c /\ tree[q] = c => p = q
  PROVE  /\ \A c \in Contents : InTree(Moved(tree, src, dst), c) <=> InTree(tree, c)
         /\ \A c \in Contents, p, q \in Paths :
              Moved(tree, src, dst)[p] = c /\ Moved(tree, src, dst)[q] = c => p = q
<1>0. \A c \in Contents : c # Absent
  BY NamespaceAssumption
<1>1. ASSUME NEW c \in Contents, InTree(Moved(tree, src, dst), c) PROVE InTree(tree, c)
  BY <1>0, <1>1, MovedShows
<1>2. ASSUME NEW c \in Contents, InTree(tree, c) PROVE InTree(Moved(tree, src, dst), c)
  BY <1>0, <1>2, MovedTakesAlong DEF InTree
<1>3. ASSUME NEW c \in Contents, NEW p \in Paths, NEW q \in Paths,
             Moved(tree, src, dst)[p] = c, Moved(tree, src, dst)[q] = c
      PROVE  p = q
  <2>1. \A r, s \in Paths : tree[r] = c /\ tree[s] = c => r = s
    OBVIOUS
  <2> QED
    BY <1>0, <1>3, <2>1, MovedOnce
<1> QED
  BY <1>1, <1>2, <1>3

FilesKept ==
  /\ WellFormed(files)' /\ TrashInv' /\ MkdirAndMoveInv' /\ TrashOpInv' /\ OnePlace'
  /\ \A c \in Contents : Visible(c)' <=> Visible(c)

LEMMA MkdirAndMoveRoot ==
  ASSUME RootIInv,
         \/ MkdirOnDisk \/ MkdirIndex \/ MkdirUndo \/ ClearMutation
         \/ MoveOnDisk \/ MoveIndex \/ MoveUndo
  PROVE  FilesKept
<1>0. /\ files \in Trees /\ op \in Ops /\ RootInv
      /\ WellFormed(files) /\ MkdirAndMoveInv /\ TrashOpInv /\ OnePlace
      /\ Dir \notin Contents /\ Absent \notin Contents /\ Dir # Absent
  BY NamespaceAssumption DEF RootIInv, IInv, TypeOK, PlaneTypeOK, RootInv
<1>1. /\ UNCHANGED <<trash, trashState, trashPath>>
      /\ \A t \in TrashIds : op.reason # TrashReason(t) /\ op.reason # RestoreReason(t)
  <2>1. /\ UNCHANGED <<trash, trashState, trashPath>>
        /\ op.pc \in {"mkdir", "mkdir-index", "mkdir-undo", "clear",
                      "move", "move-index", "move-undo"}
    BY DEF MkdirOnDisk, MkdirIndex, MkdirUndo, ClearMutation, MoveOnDisk, MoveIndex,
           MoveUndo, filesVars, At
  <2> QED
    BY <1>0, <2>1, NotOfTrash
<1>2. ASSUME NEW c, Goto(c) PROVE TrashOpInv'
  BY <1>0, <1>1, <1>2, GotoFields DEF TrashOpInv
<1>3. ASSUME UNCHANGED files
      PROVE  /\ WellFormed(files)' /\ TrashInv' /\ OnePlace'
             /\ \A c : Visible(c)' <=> Visible(c)
  BY <1>0, <1>1, <1>3, RootFrame
<1>4. ASSUME Done PROVE MkdirAndMoveInv' /\ TrashOpInv'
  BY <1>4, IdleKeepsNothing DEF Done
<1>5. ASSUME Goto("clear") PROVE MkdirAndMoveInv' /\ TrashOpInv'
  BY <1>0, <1>2, <1>5, GotoFields DEF MkdirAndMoveInv
<1>6. ASSUME files' \in {Put(files, op.path, Dir), Put(files, op.path, Absent)},
             op.path \in Paths, files[op.path] \notin Contents
      PROVE  /\ TrashInv' /\ OnePlace'
             /\ \A c \in Contents : Visible(c)' <=> Visible(c)
  <2>1. \A c \in Contents : InTree(files', c) <=> InTree(files, c)
    BY <1>0, <1>6, PutFrame
  <2>2. \A c \in Contents, p, q \in Paths : files'[p] = c /\ files'[q] = c => p = q
    BY <1>0, <1>6, PutFrame DEF OnePlace
  <2> QED
    BY <1>0, <1>1, <2>1, <2>2, FilesFrame
<1>7. CASE MkdirOnDisk
  <2>1. CASE Goto("clear") /\ UNCHANGED files
    BY <1>3, <1>5, <2>1 DEF FilesKept
  <2>2. CASE /\ IsFree(files, op.path) /\ files' = Put(files, op.path, Dir)
             /\ (Goto("mkdir-undo") \/ Goto("mkdir-index"))
    <3>1. op.path \in Paths /\ files[op.path] = Absent
      BY <1>0, <1>7, <2>2 DEF MkdirOnDisk, At, MkdirAndMoveInv, IsFree
    <3>2. WellFormed(files)'
      BY <1>0, <2>2, <3>1, PutIsWellFormed DEF WellFormed
    <3>3. MkdirAndMoveInv'
      <4>1. files'[op.path] = Dir
        BY <1>0, <2>2, <3>1 DEF Put, Trees
      <4>2. \A q \in Below(op.path) \ {op.path} : files'[q] = Absent
        BY <1>0, <2>2, <3>1, FreePlace DEF Put, Trees, Below
      <4> QED
        BY <1>0, <2>2, <3>1, <4>1, <4>2, GotoFields DEF MkdirAndMoveInv
    <3> QED
      BY <1>0, <1>2, <1>6, <2>2, <3>1, <3>2, <3>3 DEF FilesKept
  <2> QED
    BY <1>7, <2>1, <2>2 DEF MkdirOnDisk
<1>8. CASE MkdirIndex
  <2>1. UNCHANGED files /\ (Done \/ Goto("mkdir-undo")) /\ op.pc = "mkdir-index"
    BY <1>8 DEF MkdirIndex, At
  <2>2. ASSUME Goto("mkdir-undo") PROVE MkdirAndMoveInv' /\ TrashOpInv'
    BY <1>0, <1>2, <2>1, <2>2, GotoFields DEF MkdirAndMoveInv
  <2> QED
    BY <1>3, <1>4, <2>1, <2>2 DEF FilesKept
<1>9. CASE MkdirUndo
  <2>1. CASE UNCHANGED files /\ Done
    BY <1>3, <1>4, <2>1 DEF FilesKept
  <2>2. CASE files' = Put(files, op.path, Absent) /\ Goto("clear")
    <3>1. /\ op.path \in Paths /\ files[op.path] = Dir
          /\ \A q \in Below(op.path) \ {op.path} : files[q] = Absent
      BY <1>0, <1>9 DEF MkdirUndo, At, MkdirAndMoveInv
    <3>2. WellFormed(files)'
      BY <1>0, <2>2, <3>1, RemovalIsWellFormed DEF WellFormed
    <3> QED
      BY <1>0, <1>5, <1>6, <2>2, <3>1, <3>2 DEF FilesKept
  <2> QED
    BY <1>9, <2>1, <2>2 DEF MkdirUndo
<1>10. CASE ClearMutation
  BY <1>3, <1>4, <1>10 DEF ClearMutation, FilesKept
<1>11. ASSUME NEW src \in Paths, NEW dst \in Paths, CanRename(files, src, dst),
              Fits(files, src, dst), files' = Moved(files, src, dst)
       PROVE  /\ WellFormed(files)' /\ Fits(files', dst, src)
              /\ TrashInv' /\ OnePlace'
              /\ \A c \in Contents : Visible(c)' <=> Visible(c)
  <2>1. WellFormed(files)'
    BY <1>0, <1>11, MovedIsWellFormed DEF WellFormed
  <2>2. Fits(files', dst, src)
    BY <1>0, <1>11, MovedTakesAlong
  <2>3. \A c \in Contents : InTree(files', c) <=> InTree(files, c)
    BY <1>0, <1>11, MovedFrame DEF OnePlace
  <2>4. \A c \in Contents, p, q \in Paths : files'[p] = c /\ files'[q] = c => p = q
    BY <1>0, <1>11, MovedFrame DEF OnePlace
  <2> QED
    BY <1>0, <1>1, <2>1, <2>2, <2>3, <2>4, FilesFrame
<1>12. CASE MoveOnDisk
  <2>1. CASE UNCHANGED files /\ Goto("clear")
    BY <1>3, <1>5, <2>1 DEF FilesKept
  <2>2. CASE /\ CanRename(files, op.path, op.dest) /\ Goto("move-index")
             /\ files' = Moved(files, op.path, op.dest)
    <3>1. op.path \in Paths /\ op.dest \in Paths /\ Fits(files, op.path, op.dest)
      BY <1>0, <1>12 DEF MoveOnDisk, At, MkdirAndMoveInv
    <3>2. /\ WellFormed(files)' /\ Fits(files', op.dest, op.path)
          /\ TrashInv' /\ OnePlace'
          /\ \A c \in Contents : Visible(c)' <=> Visible(c)
      BY <1>11, <2>2, <3>1
    <3>3. MkdirAndMoveInv' /\ TrashOpInv'
      BY <1>0, <1>2, <2>2, <3>1, <3>2, GotoFields DEF MkdirAndMoveInv, Fits
    <3> QED
      BY <3>2, <3>3 DEF FilesKept
  <2> QED
    BY <1>12, <2>1, <2>2 DEF MoveOnDisk
<1>13. CASE MoveIndex
  <2>1. UNCHANGED files /\ (Done \/ Goto("move-undo")) /\ op.pc = "move-index"
    BY <1>13 DEF MoveIndex, At
  <2>2. ASSUME Goto("move-undo") PROVE MkdirAndMoveInv' /\ TrashOpInv'
    BY <1>0, <1>2, <2>1, <2>2, GotoFields DEF MkdirAndMoveInv, Fits
  <2> QED
    BY <1>3, <1>4, <2>1, <2>2 DEF FilesKept
<1>14. CASE MoveUndo
  <2>1. CASE UNCHANGED files /\ Done
    BY <1>3, <1>4, <2>1 DEF FilesKept
  <2>2. CASE /\ CanRename(files, op.dest, op.path) /\ Goto("clear")
             /\ files' = Moved(files, op.dest, op.path)
    <3>1. op.path \in Paths /\ op.dest \in Paths /\ Fits(files, op.dest, op.path)
      BY <1>0, <1>14 DEF MoveUndo, At, MkdirAndMoveInv
    <3> QED
      BY <1>5, <1>11, <2>2, <3>1 DEF FilesKept
  <2> QED
    BY <1>14, <2>1, <2>2 DEF MoveUndo
<1> QED
  BY <1>7, <1>8, <1>9, <1>10, <1>12, <1>13, <1>14

\* A step that changes the row of one trash entry only.
LEMMA EntryFrame ==
  ASSUME RootIInv, UNCHANGED <<files, trash>>, NEW t \in TrashIds,
         \A s \in TrashIds \ {t} :
           trashState'[s] = trashState[s] /\ trashPath'[s] = trashPath[s],
         \/ trash[t] = EmptyTree
         \/ trashPath'[t] = trashPath[t] /\ trashState'[t] # "none",
         trashState'[t] = "none" \/ trashPath'[t] \in Paths,
         trashState'[t] = "trashed" => trash[t] # EmptyTree
  PROVE  /\ WellFormed(files)' /\ TrashInv' /\ OnePlace'
         /\ \A c : Visible(c)' <=> Visible(c)
<1> USE DEF RootIInv, RootInv
<1>1. WellFormed(files)'
  BY DEF WellFormed
<1>2. TrashInv'
  <2>1. ASSUME NEW s \in TrashIds \ {t}
        PROVE  /\ SubtreeAt(trash'[s], trashPath'[s])
               /\ trashState'[s] = "none" => trash'[s] = EmptyTree
               /\ trashState'[s] # "none" => trashPath'[s] \in Paths
               /\ trashState'[s] = "trashed" => trash'[s] # EmptyTree
    BY <2>1 DEF TrashInv
  <2>2. SubtreeAt(trash'[t], trashPath'[t])
    <3>1. CASE trash[t] = EmptyTree
      BY <3>1 DEF SubtreeAt, EmptyTree, Below
    <3>2. CASE trashPath'[t] = trashPath[t]
      BY <3>2 DEF TrashInv
    <3> QED
      BY <3>1, <3>2
  <2> QED
    BY <2>1, <2>2 DEF TrashInv
<1>3. OnePlace'
  BY DEF OnePlace, InTree
<1>4. \A c : Visible(c)' <=> Visible(c)
  BY DEF Visible, InTree
<1> QED
  BY <1>1, <1>2, <1>3, <1>4

LEMMA TrashStepRoot ==
  ASSUME RootIInv, NEW t \in TrashIds, MoveToTrash(t) \/ AbortTrash(t) \/ CommitTrash(t)
  PROVE  FilesKept
<1>0. /\ files \in Trees /\ op \in Ops /\ trash \in [TrashIds -> Trees]
      /\ trashState \in [TrashIds -> TrashStates]
      /\ trashPath \in [TrashIds -> Paths \cup {Root}] /\ RootInv
      /\ WellFormed(files) /\ TrashOpInv /\ OnePlace /\ TrashInv
      /\ \A c \in Contents : c # Absent
  BY NamespaceAssumption DEF RootIInv, IInv, TypeOK, PlaneTypeOK, FilesTypeOK, RootInv
<1>1. /\ op.reason = TrashReason(t) /\ op.path = trashPath[t] /\ trashState[t] = "trashing"
      /\ op.path \in Paths
  BY <1>0 DEF MoveToTrash, AbortTrash, CommitTrash, TrashOpInv, TrashInv
<1>2. \A s \in TrashIds : /\ op.reason = TrashReason(s) => s = t
                          /\ op.reason # RestoreReason(s)
  BY <1>1, FileReasonsDiffer
<1>3. ASSUME Done PROVE MkdirAndMoveInv' /\ TrashOpInv'
  BY <1>3, IdleKeepsNothing DEF Done
<1>4. ASSUME NEW c \in {"trash-abort", "trash-commit", "mark"}, Goto(c),
             UNCHANGED <<trashState, trashPath>>,
             c = "trash-abort" => trash'[t] = EmptyTree,
             c = "trash-commit" => trash'[t] # EmptyTree /\ files'[op.path] = Absent
      PROVE  MkdirAndMoveInv' /\ TrashOpInv'
  <2>1. /\ op'.pc = c /\ op'.path = op.path /\ op'.reason = op.reason
    BY <1>0, <1>4, GotoFields
  <2>2. MkdirAndMoveInv'
    BY <1>4, <2>1 DEF MkdirAndMoveInv
  <2>3. TrashOpInv'
    BY <1>1, <1>2, <1>4, <2>1 DEF TrashOpInv
  <2> QED
    BY <2>2, <2>3
<1>5. CASE MoveToTrash(t)
  <2>0. UNCHANGED <<trashState, trashPath>> /\ op.pc = "trash"
    BY <1>5 DEF MoveToTrash, At, filesVars
  <2>1. CASE Goto("trash-abort") /\ UNCHANGED <<files, trash>>
    BY <1>0, <1>1, <1>4, <2>0, <2>1, RootFrame DEF FilesKept, TrashOpInv
  <2>2. CASE /\ files[op.path] # Absent /\ trash[t] = EmptyTree
             /\ files' = Cut(files, op.path)
             /\ trash' = [trash EXCEPT ![t] = Clip(files, op.path)]
             /\ Goto("trash-commit")
    <3>1. \A q \in Paths :
            /\ files'[q] = IF q \in Below(op.path) THEN Absent ELSE files[q]
            /\ trash'[t][q] = IF q \in Below(op.path) THEN files[q] ELSE Absent
      BY <1>0, <2>2 DEF Cut, Clip
    <3>2. \A s \in TrashIds \ {t} : trash'[s] = trash[s]
      BY <1>0, <2>2
    <3>3. op.path \in Below(op.path)
      BY <1>1, BelowIsOrder
    <3>4. WellFormed(files)'
      BY <1>0, <1>1, <2>2, CutIsWellFormed DEF WellFormed
    <3>5. TrashInv'
      <4>1. SubtreeAt(trash'[t], trashPath'[t])
        BY <1>0, <1>1, <2>0, <2>2, CutIsWellFormed DEF SubtreeAt
      <4> QED
        BY <1>0, <1>1, <2>0, <3>2, <4>1 DEF TrashInv
    <3>6. MkdirAndMoveInv' /\ TrashOpInv'
      <4>1. trash'[t] # EmptyTree /\ files'[op.path] = Absent
        BY <1>1, <2>2, <3>1, <3>3 DEF EmptyTree
      <4> QED
        BY <1>4, <2>0, <2>2, <4>1
    <3>7. ASSUME NEW c \in Contents
          PROVE  /\ \A q \in Paths : /\ files'[q] = c => files[q] = c
                                     /\ trash'[t][q] = c => files[q] = c
                                     /\ files[q] = c => files'[q] = c \/ trash'[t][q] = c
                                     /\ ~(files'[q] = c /\ trash'[t][q] = c)
                                     /\ trash[t][q] # c
      BY <1>0, <2>2, <3>1 DEF EmptyTree
    <3>8. OnePlace'
      <4> SUFFICES ASSUME NEW c \in Contents
                   PROVE  /\ \A p, q \in Paths : files'[p] = c /\ files'[q] = c => p = q
                          /\ \A s \in TrashIds : ~(InTree(files', c) /\ InTree(trash'[s], c))
                          /\ \A s, r \in TrashIds : \A p, q \in Paths :
                               trash'[s][p] = c /\ trash'[r][q] = c => s = r /\ p = q
        BY DEF OnePlace
      <4>1. \A p, q \in Paths : files'[p] = c /\ files'[q] = c => p = q
        BY <1>0, <3>7 DEF OnePlace
      <4>2. ASSUME NEW s \in TrashIds, InTree(files', c), InTree(trash'[s], c) PROVE FALSE
        BY <1>0, <3>2, <3>7, <4>2 DEF OnePlace, InTree
      <4>3. ASSUME NEW s \in TrashIds, NEW r \in TrashIds, NEW p \in Paths, NEW q \in Paths,
                   trash'[s][p] = c, trash'[r][q] = c
            PROVE  s = r /\ p = q
        BY <1>0, <3>2, <3>7, <4>3 DEF OnePlace, InTree
      <4> QED
        BY <4>1, <4>2, <4>3
    <3>9. ASSUME NEW c \in Contents PROVE Visible(c)' <=> Visible(c)
      BY <3>2, <3>7 DEF Visible, InTree
    <3> QED
      BY <3>4, <3>5, <3>6, <3>8, <3>9 DEF FilesKept
  <2> QED
    BY <1>5, <2>1, <2>2 DEF MoveToTrash
<1>6. CASE AbortTrash(t)
  <2>1. trash[t] = EmptyTree /\ Done /\ UNCHANGED <<files, trash>>
    BY <1>0, <1>1, <1>6 DEF AbortTrash, At, TrashOpInv
  <2>2. CASE UNCHANGED <<trashState, trashPath>>
    BY <1>0, <1>3, <2>1, <2>2, RootFrame DEF FilesKept
  <2>3. CASE /\ trashState' = [trashState EXCEPT ![t] = "none"]
             /\ trashPath' = [trashPath EXCEPT ![t] = Root]
    BY <1>0, <1>3, <2>1, <2>3, EntryFrame DEF FilesKept
  <2> QED
    BY <1>6, <2>2, <2>3 DEF AbortTrash
<1>7. CASE CommitTrash(t)
  <2>1. /\ trash[t] # EmptyTree /\ UNCHANGED <<files, trash>>
    BY <1>0, <1>1, <1>7 DEF CommitTrash, At, TrashOpInv
  <2>2. CASE Goto("mark") /\ UNCHANGED <<trashState, trashPath>>
    BY <1>0, <1>4, <2>1, <2>2, RootFrame DEF FilesKept
  <2>3. CASE DoCommitTrash(t) /\ Done
    BY <1>0, <1>1, <1>3, <2>1, <2>3, EntryFrame DEF FilesKept, DoCommitTrash
  <2> QED
    BY <1>7, <2>2, <2>3 DEF CommitTrash
<1> QED
  BY <1>5, <1>6, <1>7

LEMMA RestoreStepRoot ==
  ASSUME RootIInv, NEW t \in TrashIds,
         RestoreFromTrash(t) \/ RollbackRestore(t) \/ FinishRestore(t)
  PROVE  FilesKept
<1>0. /\ files \in Trees /\ op \in Ops /\ trash \in [TrashIds -> Trees]
      /\ trashState \in [TrashIds -> TrashStates]
      /\ trashPath \in [TrashIds -> Paths \cup {Root}] /\ RootInv
      /\ WellFormed(files) /\ TrashOpInv /\ OnePlace /\ TrashInv
      /\ \A c \in Contents : c # Absent
  BY NamespaceAssumption DEF RootIInv, IInv, TypeOK, PlaneTypeOK, FilesTypeOK, RootInv
<1>1. /\ op.reason = RestoreReason(t) /\ op.path = trashPath[t] /\ trashState[t] = "restoring"
      /\ op.path \in Paths
  BY <1>0 DEF RestoreFromTrash, RollbackRestore, FinishRestore, TrashOpInv, TrashInv
<1>2. \A s \in TrashIds : /\ op.reason = RestoreReason(s) => s = t
                          /\ op.reason # TrashReason(s)
  BY <1>1, FileReasonsDiffer
<1>3. ASSUME Done PROVE MkdirAndMoveInv' /\ TrashOpInv'
  BY <1>3, IdleKeepsNothing DEF Done
<1>4. ASSUME NEW c \in {"restore-rollback", "restore-finish", "mark"}, Goto(c),
             UNCHANGED <<trashState, trashPath>>,
             c = "restore-rollback" => trash'[t] # EmptyTree,
             c = "restore-finish" => trash'[t] = EmptyTree
      PROVE  MkdirAndMoveInv' /\ TrashOpInv'
  <2>1. /\ op'.pc = c /\ op'.path = op.path /\ op'.reason = op.reason
    BY <1>0, <1>4, GotoFields
  <2>2. MkdirAndMoveInv'
    BY <1>4, <2>1 DEF MkdirAndMoveInv
  <2>3. TrashOpInv'
    BY <1>1, <1>2, <1>4, <2>1 DEF TrashOpInv
  <2> QED
    BY <2>2, <2>3
<1>5. CASE RestoreFromTrash(t)
  <2>0. /\ UNCHANGED <<trashState, trashPath>> /\ op.pc = "restore"
        /\ trash[t] # EmptyTree
    BY <1>0, <1>1, <1>5 DEF RestoreFromTrash, At, filesVars, TrashOpInv
  <2>1. CASE Goto("restore-rollback") /\ UNCHANGED <<files, trash>>
    BY <1>0, <1>4, <2>0, <2>1, RootFrame DEF FilesKept
  <2>2. CASE /\ IsFree(files, op.path)
             /\ files' = Graft(files, trash[t])
             /\ trash' = [trash EXCEPT ![t] = EmptyTree]
             /\ Goto("restore-finish")
    <3>1. \A q \in Paths :
            /\ files'[q] = IF trash[t][q] = Absent THEN files[q] ELSE trash[t][q]
            /\ trash'[t][q] = Absent
      BY <1>0, <2>2 DEF Graft, EmptyTree
    <3>2. /\ trash'[t] = EmptyTree
          /\ \A s \in TrashIds \ {t} : trash'[s] = trash[s]
      BY <1>0, <2>2
    <3>3. \A q \in Paths : trash[t][q] # Absent => files[q] = Absent
      BY <1>0, <1>1, <2>2, FreePlace DEF TrashInv, SubtreeAt
    <3>4. WellFormed(files)'
      <4>1. SubtreeAt(trash[t], op.path)
        BY <1>0, <1>1 DEF TrashInv
      <4>2. WellFormed(Graft(files, trash[t]))
        BY <1>0, <1>1, <2>2, <4>1, GraftIsWellFormed DEF SubtreeAt
      <4> QED
        BY <2>2, <4>2 DEF WellFormed
    <3>5. TrashInv'
      <4>1. SubtreeAt(trash'[t], trashPath'[t])
        BY <3>2 DEF SubtreeAt, EmptyTree, Below
      <4> QED
        BY <1>0, <1>1, <2>0, <3>2, <4>1 DEF TrashInv
    <3>6. MkdirAndMoveInv' /\ TrashOpInv'
      BY <1>4, <2>0, <2>2, <3>2
    <3>7. ASSUME NEW c \in Contents
          PROVE  /\ \A q \in Paths : /\ files'[q] = c <=> files[q] = c \/ trash[t][q] = c
                                     /\ trash'[t][q] # c
      BY <1>0, <3>1, <3>3
    <3>8. OnePlace'
      <4> SUFFICES ASSUME NEW c \in Contents
                   PROVE  /\ \A p, q \in Paths : files'[p] = c /\ files'[q] = c => p = q
                          /\ \A s \in TrashIds : ~(InTree(files', c) /\ InTree(trash'[s], c))
                          /\ \A s, r \in TrashIds : \A p, q \in Paths :
                               trash'[s][p] = c /\ trash'[r][q] = c => s = r /\ p = q
        BY DEF OnePlace
      <4>1. ASSUME NEW p \in Paths, NEW q \in Paths, files'[p] = c, files'[q] = c
            PROVE  p = q
        BY <1>0, <3>7, <4>1 DEF OnePlace, InTree
      <4>2. ASSUME NEW s \in TrashIds, InTree(files', c), InTree(trash'[s], c) PROVE FALSE
        BY <1>0, <3>2, <3>7, <4>2 DEF OnePlace, InTree
      <4>3. ASSUME NEW s \in TrashIds, NEW r \in TrashIds, NEW p \in Paths, NEW q \in Paths,
                   trash'[s][p] = c, trash'[r][q] = c
            PROVE  s = r /\ p = q
        BY <1>0, <3>2, <3>7, <4>3 DEF OnePlace, InTree
      <4> QED
        BY <4>1, <4>2, <4>3
    <3>9. ASSUME NEW c \in Contents PROVE Visible(c)' <=> Visible(c)
      BY <3>2, <3>7 DEF Visible, InTree
    <3> QED
      BY <3>4, <3>5, <3>6, <3>8, <3>9 DEF FilesKept
  <2> QED
    BY <1>5, <2>1, <2>2 DEF RestoreFromTrash
<1>6. CASE RollbackRestore(t)
  <2>1. /\ trash[t] # EmptyTree /\ Done /\ UNCHANGED <<files, trash, trashPath>>
    BY <1>0, <1>1, <1>6 DEF RollbackRestore, At, TrashOpInv
  <2>2. CASE UNCHANGED trashState
    BY <1>0, <1>3, <2>1, <2>2, RootFrame DEF FilesKept
  <2>3. CASE trashState' = [trashState EXCEPT ![t] = "trashed"]
    BY <1>0, <1>1, <1>3, <2>1, <2>3, EntryFrame DEF FilesKept
  <2> QED
    BY <1>6, <2>2, <2>3 DEF RollbackRestore
<1>7. CASE FinishRestore(t)
  <2>1. /\ trash[t] = EmptyTree /\ UNCHANGED <<files, trash>>
    BY <1>0, <1>1, <1>7 DEF FinishRestore, At, TrashOpInv
  <2>2. CASE Goto("mark") /\ UNCHANGED <<trashState, trashPath>>
    BY <1>0, <1>4, <2>1, <2>2, RootFrame DEF FilesKept
  <2>3. CASE DoFinishRestore(t) /\ Done
    BY <1>0, <1>3, <2>1, <2>3, EntryFrame DEF FilesKept, DoFinishRestore
  <2> QED
    BY <1>7, <2>2, <2>3 DEF FinishRestore
<1> QED
  BY <1>5, <1>6, <1>7

\* The step of an operation of the file service.
LEMMA FilesStepRoot ==
  ASSUME RootIInv, FilesStep, UNCHANGED uploadsVars
  PROVE  RootInv' /\ \A c \in Contents : Visible(c)' <=> Visible(c)
<1>1. FilesKept
  BY MkdirAndMoveRoot, TrashStepRoot, RestoreStepRoot DEF FilesStep
<1>2. PublishInv'
  <2>1. CASE op' = Idle
    BY <2>1, IdleKeepsNothing
  <2>2. ASSUME NEW c \in Pcs \ {"publish", "reset", "complete"}, op' = [op EXCEPT !.pc = c]
        PROVE  PublishInv'
    <3>1. op'.pc # "complete" /\ op'.path = op.path /\ op'.reason = op.reason
      BY <2>2 DEF RootIInv, IInv, TypeOK, PlaneTypeOK, Ops
    <3> QED
      BY <3>1 DEF RootIInv, RootInv, PublishInv, Completing, uploadsVars
  <2> QED
    BY <2>1, <2>2, FilesStepOp
<1>3. TargetInv' /\ Kept'
  BY <1>1, ContentPlaneAssumption DEF RootIInv, RootInv, TargetInv, Kept, FilesKept, uploadsVars
<1> QED
  BY <1>1, <1>2, <1>3 DEF FilesKept, RootInv

\* A request to the file service, and a download.
LEMMA FilesRequestRoot ==
  ASSUME RootIInv, FilesRequest \/ Download, UNCHANGED uploadsVars
  PROVE  RootInv' /\ \A c \in Contents : Visible(c)' <=> Visible(c)
<1>0. /\ RootInv /\ TrashInv /\ UNCHANGED <<files, trash>>
      /\ trashState \in [TrashIds -> TrashStates]
      /\ trashPath \in [TrashIds -> Paths \cup {Root}]
  BY DEF RootIInv, RootInv, IInv, TypeOK, FilesTypeOK, FilesRequest, Download, CreateDirectory,
         Move, BeginMutation, PrepareTrash, BeginRestore, Lookup, OpenFile, MarkDownload, planeVars
<1>1. ASSUME \A c : Visible(c)' <=> Visible(c) PROVE TargetInv' /\ Kept'
  BY <1>0, <1>1 DEF RootInv, TargetInv, Kept, uploadsVars
<1>2. ASSUME NEW c \in {"mkdir", "move"}, NEW p \in Paths, NEW q \in Paths,
             NEW r \in {MkdirReason, MoveReason}, BeginMutation(c, p, q, r),
             c = "move" => Fits(files, p, q)
      PROVE  RootInv' /\ \A x : Visible(x)' <=> Visible(x)
  <2>1. /\ op'.pc = c /\ op'.path = p /\ op'.dest = q /\ op'.reason = r
        /\ UNCHANGED <<trashState, trashPath>>
    BY <1>2 DEF BeginMutation, Step, filesVars
  <2>2. MkdirAndMoveInv'
    BY <1>0, <1>2, <2>1 DEF MkdirAndMoveInv, Fits
  <2>3. TrashOpInv' /\ PublishInv'
    BY <1>2, <2>1, ReasonsDiffer, FileReasonsDiffer DEF TrashOpInv, PublishInv, Completing
  <2> QED
    BY <1>0, <1>1, <2>1, <2>2, <2>3, RootFrame DEF RootInv
<1>3. ASSUME NEW t \in TrashIds, NEW p \in Paths, PrepareTrash(t, p)
      PROVE  RootInv' /\ \A x : Visible(x)' <=> Visible(x)
  <2>1. /\ op'.pc = "trash" /\ op'.path = p /\ op'.reason = TrashReason(t)
        /\ trashState[t] = "none" /\ trash[t] = EmptyTree
        /\ trashState' = [trashState EXCEPT ![t] = "trashing"]
        /\ trashPath' = [trashPath EXCEPT ![t] = p]
    BY <1>0, <1>3 DEF PrepareTrash, Step, TrashInv
  <2>2. /\ trashState'[t] = "trashing" /\ trashPath'[t] = p
        /\ \A s \in TrashIds \ {t} :
             trashState'[s] = trashState[s] /\ trashPath'[s] = trashPath[s]
    BY <1>0, <2>1
  <2>3. MkdirAndMoveInv' /\ TrashOpInv' /\ PublishInv'
    BY <1>0, <2>1, <2>2, ReasonsDiffer, FileReasonsDiffer
       DEF MkdirAndMoveInv, TrashOpInv, PublishInv, Completing
  <2>4. /\ WellFormed(files)' /\ TrashInv' /\ OnePlace' /\ \A c : Visible(c)' <=> Visible(c)
    BY <1>0, <2>1, <2>2, EntryFrame
  <2> QED
    BY <1>1, <2>3, <2>4 DEF RootInv
<1>4. ASSUME NEW t \in TrashIds, BeginRestore(t)
      PROVE  RootInv' /\ \A x : Visible(x)' <=> Visible(x)
  <2>1. /\ op'.pc = "restore" /\ op'.path = trashPath[t] /\ op'.reason = RestoreReason(t)
        /\ trashState[t] = "trashed" /\ trash[t] # EmptyTree /\ trashPath[t] \in Paths
        /\ trashState' = [trashState EXCEPT ![t] = "restoring"]
        /\ trashPath' = trashPath
    BY <1>0, <1>4 DEF BeginRestore, Step, TrashInv
  <2>2. /\ trashState'[t] = "restoring"
        /\ \A s \in TrashIds \ {t} : trashState'[s] = trashState[s]
    BY <1>0, <2>1
  <2>3. MkdirAndMoveInv' /\ TrashOpInv' /\ PublishInv'
    BY <1>0, <2>1, <2>2, ReasonsDiffer, FileReasonsDiffer
       DEF MkdirAndMoveInv, TrashOpInv, PublishInv, Completing
  <2>4. /\ WellFormed(files)' /\ TrashInv' /\ OnePlace' /\ \A c : Visible(c)' <=> Visible(c)
    BY <1>0, <2>1, <2>2, EntryFrame
  <2> QED
    BY <1>1, <2>3, <2>4 DEF RootInv
<1>5. CASE Download
  <2>1. UNCHANGED <<planeVars, trashState, trashPath>>
    BY <1>5 DEF Download, Lookup, OpenFile, MarkDownload
  <2>2. MkdirAndMoveInv' /\ TrashOpInv' /\ PublishInv'
    BY <1>0, <2>1 DEF RootInv, planeVars, uploadsVars, MkdirAndMoveInv, Fits, TrashOpInv, PublishInv,
                      Completing
  <2> QED
    BY <1>0, <1>1, <2>1, <2>2, RootFrame DEF RootInv
<1> QED
  BY <1>2, <1>3, <1>4, <1>5 DEF FilesRequest, CreateDirectory, Move

\* A step of an upload that leaves the storage root alone: what is left is
\* the operation, the targets, and that finalizing begins with a part.
LEMMA UploadFrame ==
  ASSUME RootIInv, UNCHANGED <<files, trash, trashState, trashPath>>,
         MkdirAndMoveInv' /\ TrashOpInv' /\ PublishInv', TargetInv',
         \A u \in Uploads :
           /\ status'[u] \in {"finalizing", "completed"} =>
                status[u] \in {"finalizing", "completed"} \/ part[u]
           /\ status'[u] \in {"finalizing", "completed"} /\ part[u] => part'[u]
  PROVE  RootInv' /\ \A c \in Contents : Visible(c)' <=> Visible(c)
<1>1. /\ WellFormed(files)' /\ TrashInv' /\ OnePlace' /\ \A c : Visible(c)' <=> Visible(c)
  BY RootFrame DEF RootIInv
<1>2. Kept'
  BY <1>1 DEF RootIInv, RootInv, Kept
<1> QED
  BY <1>1, <1>2 DEF RootInv

LEMMA SameOp ==
  ASSUME RootInv, UNCHANGED <<op, files, trash, trashState, trashPath>>,
         \A u \in Uploads : Completing(u) => UNCHANGED <<target[u], part[u]>>
  PROVE  MkdirAndMoveInv' /\ TrashOpInv' /\ PublishInv'
  BY DEF RootInv, MkdirAndMoveInv, Fits, TrashOpInv, PublishInv, Completing

LEMMA CompleteStepRoot ==
  ASSUME RootIInv, CompleteStep, UNCHANGED filesVars
  PROVE  RootInv' /\ \A c \in Contents : Visible(c) => Visible(c)'
<1>0. /\ files \in Trees /\ op \in Ops /\ trash \in [TrashIds -> Trees]
      /\ part \in [Uploads -> BOOLEAN] /\ status \in [Uploads -> Statuses]
      /\ RootInv /\ IInv /\ OpInv /\ VisibleInv
      /\ WellFormed(files) /\ TrashOpInv /\ PublishInv /\ OnePlace /\ Kept
      /\ UNCHANGED <<trashState, trashPath>>
      /\ Uploads \subseteq Contents
  BY ContentPlaneAssumption
     DEF RootIInv, IInv, TypeOK, PlaneTypeOK, UploadsTypeOK, RootInv, filesVars
<1>1. ASSUME Done PROVE MkdirAndMoveInv' /\ TrashOpInv' /\ PublishInv'
  BY <1>1, IdleKeepsNothing DEF Done
<1>2. ASSUME NEW u \in Uploads, Completing(u),
             NEW c \in {"reset", "complete", "mark"}, Goto(c),
             target' = target, c = "complete" => ~part'[u]
      PROVE  MkdirAndMoveInv' /\ TrashOpInv' /\ PublishInv'
  <2>1. /\ op'.pc = c /\ op'.path = op.path /\ op'.reason = UploadReason(u)
    BY <1>0, <1>2, GotoFields DEF Completing
  <2>2. MkdirAndMoveInv'
    BY <1>2, <2>1 DEF MkdirAndMoveInv
  <2>3. TrashOpInv'
    BY <2>1, ReasonsDiffer DEF TrashOpInv
  <2>4. PublishInv'
    BY <1>0, <1>2, <2>1, ReasonsDiffer DEF PublishInv, Completing
  <2> QED
    BY <2>2, <2>3, <2>4
<1>3. ASSUME NEW u \in Uploads, FinalizePart(u)
      PROVE  RootInv' /\ \A c \in Contents : Visible(c) => Visible(c)'
  <2>1. /\ Completing(u) /\ status[u] = "finalizing" /\ part[u] /\ ~Visible(u)
        /\ op.path = target[u] /\ op.path \in Paths
        /\ UNCHANGED <<trash, target, status, job>>
    BY <1>0, <1>3 DEF FinalizePart, At, OpInv, VisibleInv, PublishInv
  <2>2. TargetInv'
    BY <1>0, <2>1 DEF RootInv, TargetInv
  <2>3. CASE UNCHANGED <<files, part>> /\ (Done \/ Goto("reset"))
    <3>1. MkdirAndMoveInv' /\ TrashOpInv' /\ PublishInv'
      BY <1>1, <1>2, <2>1, <2>3
    <3> QED
      BY <1>0, <2>1, <2>2, <2>3, <3>1, UploadFrame
  <2>4. CASE /\ IsFree(files, op.path)
             /\ files' = Put(files, op.path, u)
             /\ part' = [part EXCEPT ![u] = FALSE]
             /\ Goto("complete")
    <3>1. /\ \A q \in Paths : files'[q] = IF q = op.path THEN u ELSE files[q]
          /\ \A v \in Uploads : part'[v] = (v # u /\ part[v])
      BY <1>0, <2>4 DEF Put, Trees
    <3>2. MkdirAndMoveInv' /\ TrashOpInv' /\ PublishInv'
      BY <1>2, <2>1, <2>4, <3>1
    <3>3. WellFormed(files)'
      BY <1>0, <2>1, <2>4, PutIsWellFormed DEF WellFormed
    <3>4. TrashInv'
      BY <1>0, <2>1 DEF RootInv, TrashInv, SubtreeAt
    <3>5. files[op.path] \notin Contents
      BY <2>4, NamespaceAssumption DEF IsFree
    <3>6. ASSUME NEW c \in Contents PROVE Visible(c)' <=> Visible(c) \/ c = u
      BY <2>1, <3>1, <3>5 DEF Visible, InTree
    <3>7. OnePlace'
      <4> SUFFICES ASSUME NEW c \in Contents
                   PROVE  /\ \A p, q \in Paths : files'[p] = c /\ files'[q] = c => p = q
                          /\ \A s \in TrashIds : ~(InTree(files', c) /\ InTree(trash[s], c))
                          /\ \A s, r \in TrashIds : \A p, q \in Paths :
                               trash[s][p] = c /\ trash[r][q] = c => s = r /\ p = q
        BY <2>1 DEF OnePlace
      <4>1. CASE c = u
        BY <2>1, <3>1, <4>1 DEF Visible, InTree
      <4>2. CASE c # u
        BY <1>0, <3>1, <4>2 DEF OnePlace, InTree
      <4> QED
        BY <4>1, <4>2
    <3>8. Kept'
      BY <1>0, <2>1, <3>1, <3>6 DEF Kept
    <3> QED
      BY <2>2, <3>2, <3>3, <3>4, <3>6, <3>7, <3>8 DEF RootInv
  <2> QED
    BY <1>3, <2>3, <2>4 DEF FinalizePart
<1>4. ASSUME NEW u \in Uploads, ResetFinalizing(u) \/ CompletePublished(u)
      PROVE  RootInv' /\ \A c \in Contents : Visible(c) => Visible(c)'
  <2>1. /\ Completing(u) /\ status[u] = "finalizing"
        /\ UNCHANGED <<files, trash, target, part, job>>
        /\ \/ UNCHANGED status
           \/ status' \in {[status EXCEPT ![u] = "pending"], [status EXCEPT ![u] = "completed"]}
        /\ Done \/ Goto("mark")
    BY <1>0, <1>4 DEF ResetFinalizing, CompletePublished, DoResetFinalizing, DoComplete, OpInv
  <2>2. MkdirAndMoveInv' /\ TrashOpInv' /\ PublishInv'
    BY <1>1, <1>2, <2>1
  <2>3. TargetInv'
    BY <1>0, <2>1 DEF RootInv, TargetInv
  <2> QED
    BY <1>0, <2>1, <2>2, <2>3, UploadFrame
<1> QED
  BY <1>3, <1>4 DEF CompleteStep

LEMMA JobStepRoot ==
  ASSUME RootIInv, JobStep, UNCHANGED filesVars
  PROVE  RootInv' /\ \A c \in Contents : Visible(c) => Visible(c)'
<1>0. /\ part \in [Uploads -> BOOLEAN] /\ status \in [Uploads -> Statuses]
      /\ target \in [Uploads -> Targets \cup {Root}]
      /\ job \in [Uploads -> {"none", "create", "cancel", "expire"}]
      /\ RootInv /\ OpInv /\ TargetInv /\ UNCHANGED <<trashState, trashPath>>
  BY DEF RootIInv, IInv, TypeOK, UploadsTypeOK, RootInv, filesVars
<1>1. ASSUME NEW u \in Uploads, CreateRow(u)
      PROVE  RootInv' /\ \A c \in Contents : Visible(c) => Visible(c)'
  <2>1. /\ status[u] = "none" /\ job[u] = "create" /\ ~Completing(u)
        /\ UNCHANGED <<op, files, trash>>
        /\ job' = [job EXCEPT ![u] = "none"]
        /\ part' \in {part, [part EXCEPT ![u] = FALSE]}
        /\ \/ status' = [status EXCEPT ![u] = "pending"] /\ UNCHANGED target
           \/ UNCHANGED status /\ target' = [target EXCEPT ![u] = Root]
    BY <1>0, <1>1 DEF CreateRow, OpInv, planeVars
  <2>2. MkdirAndMoveInv' /\ TrashOpInv' /\ PublishInv'
    BY <1>0, <2>1, SameOp
  <2>3. TargetInv'
    BY <1>0, <2>1 DEF TargetInv
  <2> QED
    BY <1>0, <2>1, <2>2, <2>3, UploadFrame
<1>2. ASSUME NEW u \in Uploads, CancelWithAudit(u) \/ ExpireWithAudit(u)
      PROVE  RootInv' /\ \A c \in Contents : Visible(c) => Visible(c)'
  <2>1. /\ UNCHANGED <<op, files, trash, target, part>>
        /\ job' = [job EXCEPT ![u] = "none"]
        /\ \/ UNCHANGED status
           \/ /\ status[u] = "pending"
              /\ status' \in {[status EXCEPT ![u] = "cancelled"], [status EXCEPT ![u] = "expired"]}
    BY <1>2 DEF CancelWithAudit, ExpireWithAudit, FinishUncompleted, planeVars
  <2>2. MkdirAndMoveInv' /\ TrashOpInv' /\ PublishInv'
    BY <1>0, <2>1, SameOp
  <2>3. TargetInv'
    BY <1>0, <2>1 DEF TargetInv
  <2> QED
    BY <1>0, <2>1, <2>2, <2>3, UploadFrame
<1> QED
  BY <1>1, <1>2 DEF JobStep

LEMMA UploadsRequestRoot ==
  ASSUME RootIInv, UploadsRequest \/ Background, UNCHANGED filesVars
  PROVE  RootInv' /\ \A c \in Contents : Visible(c) => Visible(c)'
<1>0. /\ part \in [Uploads -> BOOLEAN] /\ status \in [Uploads -> Statuses]
      /\ target \in [Uploads -> Targets \cup {Root}]
      /\ job \in [Uploads -> {"none", "create", "cancel", "expire"}]
      /\ RootInv /\ OpInv /\ TargetInv /\ UNCHANGED <<trashState, trashPath>>
      /\ \A u \in Uploads : op = Idle => ~Completing(u)
  BY IdleCompletesNothing DEF RootIInv, IInv, TypeOK, UploadsTypeOK, RootInv, filesVars
<1>1. ASSUME NEW u \in Uploads, NEW p \in Targets, CreatePart(u, p)
      PROVE  RootInv' /\ \A c \in Contents : Visible(c) => Visible(c)'
  <2>1. /\ status[u] = "none" /\ ~Completing(u)
        /\ UNCHANGED <<op, files, trash, status>>
        /\ part' = [part EXCEPT ![u] = TRUE]
        /\ target' = [target EXCEPT ![u] = p] /\ p \in Paths
        /\ job' = [job EXCEPT ![u] = "create"]
    BY <1>0, <1>1, UploadsAssumption DEF CreatePart, OpInv, planeVars
  <2>2. MkdirAndMoveInv' /\ TrashOpInv' /\ PublishInv'
    BY <1>0, <2>1, SameOp
  <2>3. TargetInv'
    BY <1>0, <2>1 DEF TargetInv
  <2> QED
    BY <1>0, <2>1, <2>2, <2>3, UploadFrame
<1>2. ASSUME NEW u \in Uploads, PutChunk(u) \/ Expire(u)
      PROVE  RootInv' /\ \A c \in Contents : Visible(c) => Visible(c)'
  <2>1. UNCHANGED <<op, files, trash, status, part, target, job>>
    BY <1>2 DEF PutChunk, Expire, planeVars
  <2>2. MkdirAndMoveInv' /\ TrashOpInv' /\ PublishInv'
    BY <1>0, <2>1, SameOp
  <2>3. TargetInv'
    BY <1>0, <2>1 DEF TargetInv
  <2> QED
    BY <1>0, <2>1, <2>2, <2>3, UploadFrame
<1>3. ASSUME NEW u \in Uploads, PrepareFinalization(u) \/ ResumeFinalization(u)
      PROVE  RootInv' /\ \A c \in Contents : Visible(c) => Visible(c)'
  <2>1. /\ status[u] \in {"pending", "finalizing"}
        /\ UNCHANGED <<files, trash, part, target, job>>
        /\ \/ status' = [status EXCEPT ![u] = "finalizing"] /\ part[u] /\ op'.pc = "publish"
           \/ UNCHANGED status /\ ~part[u] /\ op'.pc \in {"complete", "mark"}
        /\ op'.path = target[u] /\ op'.reason = UploadReason(u)
    BY <1>3 DEF PrepareFinalization, ResumeFinalization, Step, uploadsVars
  <2>2. MkdirAndMoveInv' /\ TrashOpInv' /\ PublishInv'
    BY <1>0, <2>1, ReasonsDiffer DEF MkdirAndMoveInv, TrashOpInv, PublishInv, Completing, TargetInv
  <2>3. TargetInv'
    BY <1>0, <2>1 DEF TargetInv
  <2> QED
    BY <1>0, <2>1, <2>2, <2>3, UploadFrame
<1>4. ASSUME NEW u \in Uploads, NEW j \in {"cancel", "expire"}, RemovePart(u, j)
      PROVE  RootInv' /\ \A c \in Contents : Visible(c) => Visible(c)'
  <2>1. /\ status[u] = "pending" /\ ~Completing(u)
        /\ UNCHANGED <<op, files, trash, status, target>>
        /\ part' = [part EXCEPT ![u] = FALSE]
        /\ job' = [job EXCEPT ![u] = j]
    BY <1>4 DEF RemovePart, Unlocked, planeVars
  <2>2. MkdirAndMoveInv' /\ TrashOpInv' /\ PublishInv'
    BY <1>0, <2>1, SameOp
  <2>3. TargetInv'
    BY <1>0, <2>1 DEF TargetInv
  <2> QED
    BY <1>0, <2>1, <2>2, <2>3, UploadFrame
<1>5. CASE CleanupError
  <2>1. UNCHANGED <<op, files, trash, status, part, target, job>>
    BY <1>5 DEF CleanupError, uploadsVars
  <2>2. MkdirAndMoveInv' /\ TrashOpInv' /\ PublishInv'
    BY <1>0, <2>1, SameOp
  <2>3. TargetInv'
    BY <1>0, <2>1 DEF TargetInv
  <2> QED
    BY <1>0, <2>1, <2>2, <2>3, UploadFrame
<1> QED
  BY <1>1, <1>2, <1>3, <1>4, <1>5 DEF UploadsRequest, Background, Cancel, CleanupExpired

LEMMA StartupRoot ==
  ASSUME RootIInv, Startup
  PROVE  RootInv' /\ \A c \in Contents : Visible(c) => Visible(c)'
<1>0. /\ part \in [Uploads -> BOOLEAN] /\ status \in [Uploads -> Statuses]
      /\ trashState \in [TrashIds -> TrashStates]
      /\ trashPath \in [TrashIds -> Paths \cup {Root}]
      /\ RootInv /\ OpInv /\ TargetInv /\ TrashInv
  BY DEF RootIInv, IInv, TypeOK, FilesTypeOK, UploadsTypeOK, RootInv
<1>1. CASE Start \/ StartDegraded \/ FinishStartup \/ StartWithoutStorage
  <2>1. UNCHANGED <<op, files, trash, trashState, trashPath, status, part, target, job>>
    BY <1>1 DEF Start, StartDegraded, FinishStartup, StartWithoutStorage, filesVars, uploadsVars
  <2>2. MkdirAndMoveInv' /\ TrashOpInv' /\ PublishInv'
    BY <1>0, <2>1, SameOp
  <2>3. TargetInv'
    BY <1>0, <2>1 DEF TargetInv
  <2> QED
    BY <1>0, <2>1, <2>2, <2>3, UploadFrame
<1>2. ASSUME NEW t \in TrashIds, ReconcileTrash(t)
      PROVE  RootInv' /\ \A c \in Contents : Visible(c) => Visible(c)'
  <2>1. /\ op = Idle /\ op' = Idle
        /\ UNCHANGED <<files, trash, status, part, target, job>>
        /\ trashState[t] \in {"trashing", "restoring"}
    BY <1>0, <1>2 DEF ReconcileTrash, Reconciling, OpInv, PendingTrash, uploadsVars
  <2>2. MkdirAndMoveInv' /\ TrashOpInv' /\ PublishInv' /\ TargetInv'
    BY <1>0, <2>1, IdleKeepsNothing DEF TargetInv
  <2>3. \/ UNCHANGED <<trashState, trashPath>>
        \/ /\ trash[t] # EmptyTree /\ UNCHANGED trashPath
           /\ trashState' = [trashState EXCEPT ![t] = "trashed"]
        \/ /\ trash[t] = EmptyTree
           /\ trashState' = [trashState EXCEPT ![t] = "none"]
           /\ trashPath' = [trashPath EXCEPT ![t] = Root]
    BY <1>2 DEF ReconcileTrash, DoCommitTrash, DoFinishRestore, Refuse
  <2>4. /\ WellFormed(files)' /\ TrashInv' /\ OnePlace' /\ \A c : Visible(c)' <=> Visible(c)
    <3>1. CASE UNCHANGED <<trashState, trashPath>>
      BY <1>0, <2>1, <3>1, RootFrame
    <3>2. CASE ~UNCHANGED <<trashState, trashPath>>
      <4>1. /\ \A s \in TrashIds \ {t} :
                 trashState'[s] = trashState[s] /\ trashPath'[s] = trashPath[s]
            /\ trash[t] = EmptyTree \/ (trashPath'[t] = trashPath[t] /\ trashState'[t] # "none")
            /\ trashState'[t] = "none" \/ trashPath'[t] \in Paths
            /\ trashState'[t] = "trashed" => trash[t] # EmptyTree
        BY <1>0, <2>1, <2>3, <3>2 DEF TrashInv
      <4> QED
        BY <1>0, <2>1, <4>1, EntryFrame
    <3> QED
      BY <3>1, <3>2
  <2>5. Kept'
    BY <1>0, <2>1, <2>4 DEF RootInv, Kept
  <2> QED
    BY <2>2, <2>4, <2>5 DEF RootInv
<1>3. ASSUME NEW u \in Uploads, ReconcileUpload(u)
      PROVE  RootInv' /\ \A c \in Contents : Visible(c) => Visible(c)'
  <2>1. /\ op' = Idle /\ status[u] = "finalizing"
        /\ UNCHANGED <<files, trash, trashState, trashPath, part, target, job>>
        /\ \/ UNCHANGED status
           \/ status' \in {[status EXCEPT ![u] = "pending"], [status EXCEPT ![u] = "completed"]}
    BY <1>0, <1>3 DEF ReconcileUpload, Reconciling, OpInv, PendingUploads, filesVars,
                      DoResetFinalizing, DoComplete
  <2>2. MkdirAndMoveInv' /\ TrashOpInv' /\ PublishInv' /\ TargetInv'
    BY <1>0, <2>1, IdleKeepsNothing DEF TargetInv
  <2> QED
    BY <1>0, <2>1, <2>2, UploadFrame
<1> QED
  BY <1>1, <1>2, <1>3 DEF Startup, Reconciliation

LEMMA OtherRoot ==
  ASSUME RootIInv, MarkNext \/ LoseStorage \/ Stop \/ Administration
  PROVE  RootInv' /\ \A c \in Contents : Visible(c) => Visible(c)'
<1>0. /\ part \in [Uploads -> BOOLEAN] /\ status \in [Uploads -> Statuses]
      /\ target \in [Uploads -> Targets \cup {Root}]
      /\ RootInv /\ OpInv /\ TargetInv
      /\ UNCHANGED <<files, trash, trashState, trashPath, status>>
  BY DEF RootIInv, IInv, TypeOK, UploadsTypeOK, RootInv, MarkNext, LoseStorage, Stop,
         Administration, Reindex, ReconcileUploadParts, planeVars, filesVars, uploadsVars
<1>1. CASE MarkNext \/ Stop
  <2>1. op' = Idle /\ UNCHANGED <<part, target>> /\ \A u \in Uploads : job'[u] \in {job[u], "none"}
    BY <1>1 DEF MarkNext, MarkIndexUnhealthy, Done, Stop, ForgetProcess, uploadsVars
  <2>2. MkdirAndMoveInv' /\ TrashOpInv' /\ PublishInv' /\ TargetInv'
    BY <1>0, <2>1, IdleKeepsNothing DEF TargetInv
  <2> QED
    BY <1>0, <2>1, <2>2, UploadFrame
<1>2. CASE LoseStorage \/ Reindex
  <2>1. UNCHANGED <<op, part, target, job>>
    BY <1>2 DEF LoseStorage, Reindex, planeVars, uploadsVars
  <2>2. MkdirAndMoveInv' /\ TrashOpInv' /\ PublishInv' /\ TargetInv'
    BY <1>0, <2>1, SameOp DEF TargetInv
  <2> QED
    BY <1>0, <2>1, <2>2, UploadFrame
<1>3. ASSUME NEW u \in Uploads, ReconcileUploadParts(u)
      PROVE  RootInv' /\ \A c \in Contents : Visible(c) => Visible(c)'
  <2>1. /\ op = Idle /\ op' = Idle /\ status[u] = "none" /\ job[u] = "none" /\ UNCHANGED job
        /\ part' = [part EXCEPT ![u] = FALSE]
        /\ target' = [target EXCEPT ![u] = Root]
    BY <1>0, <1>3 DEF ReconcileUploadParts, Down, OpInv, planeVars
  <2>2. MkdirAndMoveInv' /\ TrashOpInv' /\ PublishInv'
    BY <2>1, IdleKeepsNothing
  <2>3. TargetInv'
    BY <1>0, <2>1 DEF TargetInv
  <2> QED
    BY <1>0, <2>1, <2>2, <2>3, UploadFrame
<1> QED
  BY <1>1, <1>2, <1>3 DEF Administration

\* No step loses a visible content.
LEMMA StepRootIInv ==
  ASSUME RootIInv, [Next]_vars
  PROVE  RootIInv' /\ \A c \in Contents : Visible(c) => Visible(c)'
<1>1. IInv'
  BY StepIInv DEF RootIInv
<1>2. RootInv' /\ \A c \in Contents : Visible(c) => Visible(c)'
  <2>1. CASE FilesNext
    BY <2>1, FilesStepRoot, FilesRequestRoot DEF FilesNext
  <2>2. CASE UploadsNext
    BY <2>2, CompleteStepRoot, JobStepRoot, UploadsRequestRoot DEF UploadsNext
  <2>3. CASE Startup \/ MarkNext \/ LoseStorage \/ Stop \/ Administration
    BY <2>3, StartupRoot, OtherRoot
  <2>4. CASE UNCHANGED vars
    <3>1. UNCHANGED <<op, files, trash, trashState, trashPath, status, part, target, job>>
      BY <2>4 DEF vars, planeVars, filesVars, uploadsVars
    <3>2. MkdirAndMoveInv' /\ TrashOpInv' /\ PublishInv' /\ TargetInv'
      BY <3>1, SameOp DEF RootIInv, RootInv, TargetInv
    <3> QED
      BY <3>1, <3>2, UploadFrame
  <2> QED
    BY <2>1, <2>2, <2>3, <2>4 DEF Next
<1> QED
  BY <1>1, <1>2 DEF RootIInv

\* A content that is in one place has one copy.
LEMMA OneCopy ==
  ASSUME RootIInv, NEW c \in Contents,
         \/ Visible(c) /\ (c \in Uploads => ~part[c])
         \/ ~Visible(c) /\ c \in Uploads /\ part[c]
  PROVE  Copies(c) = 1
<1>0. OnePlace
  BY DEF RootIInv, RootInv
<1>1. \A x : Cardinality({x}) = 1
  BY FS_Singleton
<1>2. Cardinality({}) = 0
  BY FS_EmptySet
<1>3. CASE InTree(files, c)
  <2>1. PICK p \in Paths : files[p] = c
    BY <1>3 DEF InTree
  <2>2. InFiles(c) = {p}
    BY <1>0, <2>1 DEF InFiles, OnePlace
  <2>3. InTrash(c) = {}
    <3> SUFFICES ASSUME NEW t \in TrashIds, NEW q \in Paths, trash[t][q] = c PROVE FALSE
      BY DEF InTrash
    <3> QED
      BY <1>0, <1>3 DEF OnePlace, InTree
  <2>4. InUploads(c) = {}
    BY <1>3 DEF InUploads, Visible
  <2>5. /\ Cardinality(InFiles(c)) = 1 /\ Cardinality(InTrash(c)) = 0
        /\ Cardinality(InUploads(c)) = 0
    BY <1>1, <1>2, <2>2, <2>3, <2>4
  <2> QED
    BY <2>5 DEF Copies
<1>4. CASE \E t \in TrashIds : InTree(trash[t], c)
  <2>1. PICK t \in TrashIds, p \in Paths : trash[t][p] = c
    BY <1>4 DEF InTree
  <2>2. InFiles(c) = {}
    <3> SUFFICES ASSUME NEW q \in Paths, files[q] = c PROVE FALSE
      BY DEF InFiles
    <3> QED
      BY <1>0, <2>1 DEF OnePlace, InTree
  <2>3. InTrash(c) = {<<t, p>>}
    <3>1. ASSUME NEW x \in TrashIds \X Paths, trash[x[1]][x[2]] = c PROVE x = <<t, p>>
      <4>1. x[1] = t /\ x[2] = p
        BY <1>0, <2>1, <3>1 DEF OnePlace
      <4> QED
        BY <4>1
    <3> QED
      BY <2>1, <3>1 DEF InTrash
  <2>4. InUploads(c) = {}
    BY <1>4 DEF InUploads, Visible
  <2>5. /\ Cardinality(InFiles(c)) = 0 /\ Cardinality(InTrash(c)) = 1
        /\ Cardinality(InUploads(c)) = 0
    BY <1>1, <1>2, <2>2, <2>3, <2>4
  <2> QED
    BY <2>5 DEF Copies
<1>5. CASE ~Visible(c)
  <2>1. InFiles(c) = {} /\ InTrash(c) = {}
    BY <1>5 DEF InFiles, InTrash, Visible, InTree
  <2>2. InUploads(c) = {c}
    BY <1>5 DEF InUploads
  <2>3. /\ Cardinality(InFiles(c)) = 0 /\ Cardinality(InTrash(c)) = 0
        /\ Cardinality(InUploads(c)) = 1
    BY <1>1, <1>2, <2>1, <2>2
  <2> QED
    BY <2>3 DEF Copies
<1> QED
  BY <1>3, <1>4, <1>5 DEF Visible

LEMMA InitRootIInv == Init => RootIInv
  BY InitIInv, InitRootInv DEF RootIInv

\* Every version of a file that the disk held at first, and every upload
\* that a completion has begun to publish, is in exactly one place for ever:
\* below files/, in the trash, or still the part in uploads/.
THEOREM NothingIsLost == Spec => []NothingLost
<1>1. ASSUME RootIInv PROVE NothingLost
  <2>1. \A c \in Contents \ Uploads : Copies(c) = 1
    BY <1>1, OneCopy DEF RootIInv, RootInv, Kept
  <2>2. ASSUME NEW u \in Uploads, status[u] \in {"finalizing", "completed"}
        PROVE  Copies(u) = 1
    <3>1. u \in Contents
      BY ContentPlaneAssumption
    <3>2. /\ part[u] \/ Visible(u)
          /\ ~(part[u] /\ Visible(u))
      BY <1>1, <2>2 DEF RootIInv, RootInv, Kept, IInv, VisibleInv
    <3> QED
      BY <1>1, <3>1, <3>2, OneCopy
  <2> QED
    BY <2>1, <2>2 DEF NothingLost
<1>2. RootIInv /\ [Next]_vars => RootIInv'
  BY StepRootIInv
<1> QED
  BY InitRootIInv, <1>1, <1>2, PTL DEF Spec

(***************************************************************************)
(* The life cycle of an upload: its outcome shows in its status and in its *)
(* part file alone.                                                        *)
(***************************************************************************)

OutcomeIs ==
  /\ Outcome \in [Uploads -> {"open", "published", "closed"}]
  /\ \A u \in Uploads :
       /\ status[u] \in {"cancelled", "expired"} => Outcome[u] = "closed"
       /\ status[u] = "completed" => Outcome[u] = "published"
       /\ status[u] = "finalizing" /\ ~part[u] => Outcome[u] = "published"
       /\ status[u] = "finalizing" /\ part[u] => Outcome[u] = "open"
       /\ status[u] \in {"none", "pending"} => Outcome[u] = "open"

LEMMA OutcomeOf == RootIInv => OutcomeIs
<1> SUFFICES ASSUME RootIInv PROVE OutcomeIs
  OBVIOUS
<1>1. Outcome \in [Uploads -> {"open", "published", "closed"}]
  BY DEF Outcome
<1>2. ASSUME NEW u \in Uploads
      PROVE  /\ status[u] \in {"cancelled", "expired"} => Outcome[u] = "closed"
             /\ status[u] = "completed" => Outcome[u] = "published"
             /\ status[u] = "finalizing" /\ ~part[u] => Outcome[u] = "published"
             /\ status[u] = "finalizing" /\ part[u] => Outcome[u] = "open"
             /\ status[u] \in {"none", "pending"} => Outcome[u] = "open"
  <2>1. InFiles(u) # {} <=> InTree(files, u)
    BY DEF InFiles, InTree
  <2>2. InTrash(u) # {} <=> \E t \in TrashIds : InTree(trash[t], u)
    <3>1. \A t \in TrashIds, p \in Paths : trash[t][p] = u => <<t, p>> \in InTrash(u)
      BY DEF InTrash
    <3>2. \A x \in InTrash(u) : x[1] \in TrashIds /\ x[2] \in Paths /\ trash[x[1]][x[2]] = u
      BY DEF InTrash
    <3> QED
      BY <3>1, <3>2 DEF InTree
  <2>3. /\ Visible(u) => ~part[u] /\ status[u] \in {"finalizing", "completed"}
        /\ status[u] = "finalizing" => part[u] \/ Visible(u)
    BY DEF RootIInv, RootInv, Kept, IInv, VisibleInv
  <2>4. Outcome[u] = CASE status[u] \in {"cancelled", "expired"} -> "closed"
                       [] status[u] = "completed" \/ Visible(u) -> "published"
                       [] OTHER -> "open"
    BY <2>1, <2>2 DEF Outcome, Visible
  <2> QED
    BY <2>3, <2>4
<1> QED
  BY <1>1, <1>2 DEF OutcomeIs

LEMMA OutcomeOfNext == RootIInv' => OutcomeIs'
  BY OutcomeOf, PTL

LEMMA InitLifecycle == Init => Lifecycle!Init
<1> SUFFICES ASSUME Init PROVE Lifecycle!Init
  OBVIOUS
<1>1. \A u \in Uploads : Outcome[u] = "open"
  BY InitRootIInv, OutcomeOf DEF OutcomeIs, Init, UploadsInit
<1> QED
  BY <1>1 DEF Lifecycle!Init, Outcome

\* What a step may do to the status and the part of its upload u.
Moves(u) ==
  /\ \A v \in Uploads \ {u} : status'[v] = status[v] /\ part'[v] = part[v]
  /\ \/ status[u] \in {"none", "pending"} /\ status'[u] \in {"none", "pending"}
     \/ status[u] = "pending" /\ status'[u] \in {"cancelled", "expired"}
     \/ status[u] = "pending" /\ status'[u] = "finalizing" /\ part'[u]
     \/ status[u] = "finalizing" /\ part[u] /\ status'[u] \in {"pending", "finalizing"}
     \/ status[u] = "finalizing" /\ ~part[u] /\ status'[u] = "completed"
     \/ status'[u] = status[u] /\ part'[u] = part[u]

LEMMA StepMoves ==
  ASSUME RootIInv, [Next]_vars
  PROVE  UNCHANGED <<status, part>> \/ \E u \in Uploads : Moves(u)
<1>0. /\ part \in [Uploads -> BOOLEAN] /\ status \in [Uploads -> Statuses]
      /\ OpInv /\ PublishInv
  BY DEF RootIInv, IInv, TypeOK, UploadsTypeOK, RootInv
<1>1. CASE FilesNext \/ MarkNext \/ LoseStorage \/ Stop \/ Reindex \/ UNCHANGED vars
  BY <1>1 DEF FilesNext, MarkNext, LoseStorage, Stop, Reindex, vars, uploadsVars
<1>2. ASSUME NEW u \in Uploads, FinalizePart(u) \/ ResetFinalizing(u) \/ CompletePublished(u)
      PROVE  Moves(u)
  <2>1. /\ status[u] = "finalizing"
        /\ op.pc \in {"publish", "reset"} => part[u]
        /\ op.pc = "complete" => ~part[u]
    BY <1>0, <1>2 DEF FinalizePart, ResetFinalizing, CompletePublished, OpInv, PublishInv
  <2>2. CASE FinalizePart(u)
    BY <1>0, <2>1, <2>2 DEF FinalizePart, At, Moves
  <2>3. CASE ResetFinalizing(u)
    BY <1>0, <2>1, <2>3 DEF ResetFinalizing, DoResetFinalizing, At, Moves
  <2>4. CASE CompletePublished(u)
    BY <1>0, <2>1, <2>4 DEF CompletePublished, DoComplete, At, Moves
  <2> QED
    BY <1>2, <2>2, <2>3, <2>4
<1>3. ASSUME NEW u \in Uploads, CreateRow(u) \/ CancelWithAudit(u) \/ ExpireWithAudit(u)
      PROVE  Moves(u)
  BY <1>0, <1>3 DEF CreateRow, CancelWithAudit, ExpireWithAudit, FinishUncompleted, OpInv, Moves
<1>4. ASSUME NEW u \in Uploads, NEW p \in Targets, CreatePart(u, p)
      PROVE  Moves(u)
  BY <1>0, <1>4 DEF CreatePart, Moves
<1>5. ASSUME NEW u \in Uploads, PrepareFinalization(u)
      PROVE  Moves(u)
  BY <1>0, <1>5 DEF PrepareFinalization, Moves
<1>6. ASSUME NEW u \in Uploads, NEW j \in {"cancel", "expire"}, RemovePart(u, j)
      PROVE  Moves(u)
  BY <1>0, <1>6 DEF RemovePart, Moves
<1>7. ASSUME NEW u \in Uploads, PutChunk(u) \/ Expire(u) \/ ResumeFinalization(u) \/ CleanupError
      PROVE  UNCHANGED <<status, part>>
  BY <1>7 DEF PutChunk, Expire, ResumeFinalization, CleanupError, uploadsVars
<1>8. CASE UploadsNext
  <2>1. CASE CleanupError
    BY <2>1 DEF CleanupError, uploadsVars
  <2> QED
    BY <1>2, <1>3, <1>4, <1>5, <1>6, <1>7, <1>8, <2>1
       DEF UploadsNext, CompleteStep, JobStep, UploadsRequest, Background, Cancel, CleanupExpired
<1>9. CASE Startup
  <2>1. ASSUME NEW u \in Uploads, ReconcileUpload(u) PROVE Moves(u)
    <3>1. /\ status[u] = "finalizing" /\ UNCHANGED part
          /\ \/ UNCHANGED status
             \/ part[u] /\ status' = [status EXCEPT ![u] = "pending"]
             \/ ~part[u] /\ status' = [status EXCEPT ![u] = "completed"]
      BY <2>1 DEF ReconcileUpload, PendingUploads, ResetDue, DoResetFinalizing, DoComplete
    <3> QED
      BY <1>0, <3>1 DEF Moves
  <2>2. ASSUME ~\E u \in Uploads : ReconcileUpload(u) PROVE UNCHANGED <<status, part>>
    BY <1>9, <2>2 DEF Startup, Reconciliation, Start, StartDegraded, FinishStartup,
                      StartWithoutStorage, ReconcileTrash, uploadsVars
  <2> QED
    BY <2>1, <2>2
<1>10. ASSUME NEW u \in Uploads, ReconcileUploadParts(u) PROVE Moves(u)
  BY <1>0, <1>10 DEF ReconcileUploadParts, Moves
<1> QED
  BY <1>1, <1>8, <1>9, <1>10 DEF Next, Administration

LEMMA StepLifecycle ==
  ASSUME RootIInv, [Next]_vars
  PROVE  [Lifecycle!Next]_Outcome
<1>0. /\ part \in [Uploads -> BOOLEAN] /\ status \in [Uploads -> Statuses]
      /\ part' \in [Uploads -> BOOLEAN] /\ status' \in [Uploads -> Statuses]
      /\ OutcomeIs /\ OutcomeIs'
  BY StepRootIInv, OutcomeOf, OutcomeOfNext DEF RootIInv, IInv, TypeOK, UploadsTypeOK
<1>1. \A v \in Uploads :
        status'[v] = status[v] /\ part'[v] = part[v] => Outcome'[v] = Outcome[v]
  BY <1>0 DEF OutcomeIs, Statuses
<1>2. CASE UNCHANGED <<status, part>>
  BY <1>0, <1>1, <1>2 DEF OutcomeIs
<1>3. ASSUME NEW u \in Uploads, Moves(u)
      PROVE  [Lifecycle!Next]_Outcome
  <2>1. \A v \in Uploads \ {u} : Outcome'[v] = Outcome[v]
    BY <1>1, <1>3 DEF Moves
  <2>2. \/ Outcome'[u] = Outcome[u]
        \/ Outcome[u] = "open" /\ Outcome'[u] \in {"published", "closed"}
    <3>1. CASE status'[u] = status[u] /\ part'[u] = part[u]
      BY <1>1, <3>1
    <3>2. CASE \/ status[u] \in {"none", "pending"}
               \/ status[u] = "finalizing" /\ part[u]
      <4>1. Outcome[u] = "open"
        BY <1>0, <3>2 DEF OutcomeIs
      <4>2. Outcome'[u] \in {"open", "published", "closed"}
        BY <1>0 DEF OutcomeIs
      <4> QED
        BY <4>1, <4>2
    <3>3. CASE status[u] = "finalizing" /\ ~part[u] /\ status'[u] = "completed"
      BY <1>0, <3>3 DEF OutcomeIs
    <3> QED
      BY <1>3, <3>1, <3>2, <3>3 DEF Moves
  <2>3. Outcome' = [Outcome EXCEPT ![u] = Outcome'[u]]
    BY <1>0, <2>1 DEF OutcomeIs
  <2>4. CASE Outcome'[u] = Outcome[u]
    BY <1>0, <2>1, <2>4 DEF OutcomeIs
  <2>5. CASE Outcome[u] = "open" /\ Outcome'[u] = "published"
    BY <2>3, <2>5 DEF Lifecycle!Next, Lifecycle!Publish
  <2>6. CASE Outcome[u] = "open" /\ Outcome'[u] = "closed"
    BY <2>3, <2>6 DEF Lifecycle!Next, Lifecycle!Close
  <2> QED
    BY <2>2, <2>4, <2>5, <2>6
<1> QED
  BY <1>2, <1>3, StepMoves

\* The uploads, with their parts, operations, crashes and repairs, implement
\* the life cycle promised to a client: open until published or closed, and
\* that is final.
THEOREM UploadsFollowLifecycle == Spec => UploadsImplementLifecycle
  BY InitRootIInv, InitLifecycle, StepRootIInv, StepLifecycle,
     PTL DEF Spec, UploadsImplementLifecycle, Lifecycle!Spec
=============================================================================
