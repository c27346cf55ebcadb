------------------------------ MODULE Namespace ------------------------------
(***************************************************************************)
(* The tree of logical paths of a storage root and the disk operations of  *)
(* internal/storage/storage.go as operators on it.  The same operators     *)
(* describe the rows of the metadata index, which is a second copy of the  *)
(* tree kept in SQLite.                                                    *)
(*                                                                         *)
(* A path is a non-empty sequence of component names (parsed and checked   *)
(* by storage/path.go).  A tree maps every path of the finite set Paths to *)
(* a directory, to the content of a regular file, or to nothing.  Bytes,   *)
(* sizes, modification times and modes are abstracted: a content is the    *)
(* identity of one version of one file.                                    *)
(***************************************************************************)
EXTENDS Naturals, Sequences, SequencesExt

CONSTANTS
  Paths,     \* the logical paths of the model (sequences of names)
  Contents,  \* identities of file versions
  Dir,       \* what a directory path maps to
  Absent     \* what an unused path maps to

ASSUME NamespaceAssumption ==
  /\ Paths \subseteq Seq(STRING)
  /\ \A p \in Paths : Len(p) > 0 /\ \A n \in 1 .. Len(p) : SubSeq(p, 1, n) \in Paths
  /\ Dir \notin Contents /\ Absent \notin Contents /\ Dir # Absent

Nodes == Contents \cup {Dir, Absent}
Trees == [Paths -> Nodes]
EmptyTree == [p \in Paths |-> Absent]

\* The subtree rooted at p, p included.
Below(p) == {q \in Paths : IsPrefix(p, q)}

ParentIsDir(tree, p) == Len(p) > 1 => tree[Front(p)] = Dir

\* ensureDestinationAvailable and ensureFilesParent; on the index the same
\* two conditions are requireAvailableInGeneration.
IsFree(tree, p) == tree[p] = Absent /\ ParentIsDir(tree, p)

Put(tree, p, node) == [tree EXCEPT ![p] = node]

\* A tree without the subtree of p; that subtree alone; and a subtree put
\* back into a tree.
Cut(tree, p)  == [q \in Paths |-> IF q \in Below(p) THEN Absent ELSE tree[q]]
Clip(tree, p) == [q \in Paths |-> IF q \in Below(p) THEN tree[q] ELSE Absent]
Graft(tree, sub) == [q \in Paths |-> IF sub[q] = Absent THEN tree[q] ELSE sub[q]]

\* The path q of the subtree of src, as it is called below dst.
Rebase(q, src, dst) == dst \o SubSeq(q, Len(src) + 1, Len(q))

Moved(tree, src, dst) ==
  [q \in Paths |->
     IF q \in Below(dst) /\ Rebase(q, dst, src) \in Paths
       THEN tree[Rebase(q, dst, src)]
       ELSE IF q \in Below(src) THEN Absent ELSE tree[q]]

\* rename(2): the destination is unused below an existing directory, and
\* not inside the source.
CanRename(tree, src, dst) ==
  /\ tree[src] # Absent
  /\ IsFree(tree, dst)
  /\ ~IsPrefix(src, dst)

\* Bound of the model: the moved subtree stays within Paths.
Fits(tree, src, dst) ==
  \A q \in Below(src) : tree[q] # Absent => Rebase(q, src, dst) \in Paths

\* What is above an entry is a directory.
WellFormed(tree) ==
  \A p \in Paths : \A q \in Below(p) \ {p} : tree[q] # Absent => tree[p] = Dir
=============================================================================
