-------------------------- MODULE SwaDriveInvariant --------------------------
(***************************************************************************)
(* The inductive invariants of SwaDrive: why its safety properties hold.   *)
(* Each is a conjunction of parts that a step of one component can         *)
(* disturb; TLC checks them on small instances and the proof modules prove *)
(* that every step preserves them.                                         *)
(***************************************************************************)
EXTENDS SwaDrive

(***************************************************************************)
(* Uploads: a content is visible when files/ or a trash directory has it.  *)
(***************************************************************************)

InTree(tree, c) == \E p \in Paths : tree[p] = c

Visible(c) == InTree(files, c) \/ \E t \in TrashIds : InTree(trash[t], c)

\* A process that does not serve has no operation and no request; the part
\* of an upload is there until its completion renames it.
OpInv ==
  /\ server \in {"down", "refused", "starting"} =>
       op = Idle /\ \A u \in Uploads : job[u] = "none"
  /\ \A u \in Uploads :
       /\ Completing(u) => status[u] = "finalizing" /\ job[u] = "none"
       /\ Completing(u) /\ op.pc \in {"publish", "reset"} => part[u]
       /\ job[u] = "create" => status[u] = "none"

VisibleInv ==
  \A u \in Uploads : Visible(u) => ~part[u] /\ status[u] \in {"finalizing", "completed"}

IInv == TypeOK /\ OpInv /\ VisibleInv

(***************************************************************************)
(* The storage root: files/ and every trash directory are well-formed      *)
(* trees, an operation still finds what its earlier steps left, and no     *)
(* content is in two places or in none.                                    *)
(***************************************************************************)

\* A tree whose entries are all below top.
SubtreeAt(tree, top) ==
  /\ \A p \in Paths : tree[p] # Absent => p \in Below(top)
  /\ \A p \in Below(top) : \A q \in Below(p) \ {p} : tree[q] # Absent => tree[p] = Dir

TrashInv ==
  \A t \in TrashIds :
    /\ SubtreeAt(trash[t], trashPath[t])
    /\ trashState[t] = "none" => trash[t] = EmptyTree
    /\ trashState[t] # "none" => trashPath[t] \in Paths
    /\ trashState[t] = "trashed" => trash[t] # EmptyTree

MkdirAndMoveInv ==
  /\ op.pc \in {"mkdir", "mkdir-index", "mkdir-undo"} => op.path \in Paths
  /\ op.pc \in {"mkdir-index", "mkdir-undo"} =>
       /\ files[op.path] = Dir
       /\ \A q \in Below(op.path) \ {op.path} : files[q] = Absent
  /\ op.pc \in {"move", "move-index", "move-undo"} =>
       op.path \in Paths /\ op.dest \in Paths
  /\ op.pc = "move" => Fits(files, op.path, op.dest)
  /\ op.pc \in {"move-index", "move-undo"} => Fits(files, op.dest, op.path)

TrashOpInv ==
  \A t \in TrashIds :
    /\ op.reason = TrashReason(t) =>
         /\ op.path = trashPath[t] /\ trashState[t] = "trashing"
         /\ op.pc \in {"trash", "trash-abort", "trash-commit", "mark"}
         /\ op.pc \in {"trash", "trash-abort"} => trash[t] = EmptyTree
         /\ op.pc = "trash-commit" => trash[t] # EmptyTree /\ files[op.path] = Absent
    /\ op.reason = RestoreReason(t) =>
         /\ op.path = trashPath[t] /\ trashState[t] = "restoring"
         /\ op.pc \in {"restore", "restore-rollback", "restore-finish", "mark"}
         /\ op.pc \in {"restore", "restore-rollback"} => trash[t] # EmptyTree
         /\ op.pc = "restore-finish" => trash[t] = EmptyTree

PublishInv ==
  \A u \in Uploads :
    Completing(u) =>
      /\ op.path = target[u] /\ op.path \in Paths
      /\ op.pc = "complete" => ~part[u]

\* An upload with a row, or about to get one, has a target.
TargetInv ==
  \A u \in Uploads : status[u] # "none" \/ job[u] = "create" => target[u] \in Paths

OnePlace ==
  \A c \in Contents :
    /\ \A p, q \in Paths : files[p] = c /\ files[q] = c => p = q
    /\ \A t \in TrashIds : ~(InTree(files, c) /\ InTree(trash[t], c))
    /\ \A s, t \in TrashIds : \A p, q \in Paths :
         trash[s][p] = c /\ trash[t][q] = c => s = t /\ p = q

Kept ==
  /\ \A c \in Contents \ Uploads : Visible(c)
  /\ \A u \in Uploads :
       status[u] \in {"finalizing", "completed"} => part[u] \/ Visible(u)

RootInv ==
  /\ WellFormed(files)
  /\ TrashInv /\ MkdirAndMoveInv /\ TrashOpInv /\ PublishInv /\ TargetInv
  /\ OnePlace /\ Kept

RootIInv == IInv /\ RootInv

(***************************************************************************)
(* The index, when marking it unhealthy does not fail.  An object is out   *)
(* when its disk step is done and its transaction is not.                  *)
(***************************************************************************)

OutTrash(t) == trashState[t] = "trashing" /\ trash[t] # EmptyTree
OutRestore(t) == trashState[t] = "restoring" /\ trash[t] = EmptyTree
Out(t) == OutTrash(t) \/ OutRestore(t)
OutUpload(u) == status[u] = "finalizing" /\ ~part[u] /\ target[u] \notin Unindexable

\* The hidden rows of such an entry describe its directory.
Stored(t) == \/ trashState[t] = "trashed"
             \/ trashState[t] = "restoring" /\ trash[t] # EmptyTree

\* An upload that is out is still where it was published, and only an upload
\* the index can hold is committed.
OutInv ==
  \A u \in Uploads :
    /\ OutUpload(u) => files[target[u]] = u
    /\ status[u] = "completed" => target[u] \notin Unindexable

\* Only a serving process has an open gate, and every operation began behind
\* it.
GateInv ==
  /\ server \in {"down", "refused", "starting"} => ~gate
  /\ op # Idle => gate

\* An operation of the file service starts on a healthy index, so it finds
\* nothing out; and only a mark of a download touches the reason meanwhile.
FileOpInv ==
  /\ op.reason \in {MkdirReason, MoveReason} =>
       /\ reason \in {op.reason, Multiple}
       /\ op.pc # "mark"
       /\ \A t \in TrashIds : ~Out(t)
       /\ \A u \in Uploads : ~OutUpload(u)
  /\ \A t \in TrashIds :
       op.reason \in {TrashReason(t), RestoreReason(t)} =>
         /\ reason.kind \in {"healthy", "multiple", "download-open", "download-metadata"}
         /\ \A s \in TrashIds \ {t} : ~Out(s)
         /\ \A u \in Uploads : ~OutUpload(u)
  /\ op.pc \in {"mkdir", "mkdir-index", "mkdir-undo"} => op.reason = MkdirReason
  /\ op.pc \in {"move", "move-index", "move-undo"} => op.reason = MoveReason
  /\ op.pc = "clear" => op.reason \in {MkdirReason, MoveReason}

\* Behind an open gate, what is out is the business of the operation that
\* runs, or is written down as the reason of the index.
OutIsRecorded ==
  gate /\ reason.kind \in {"healthy", "upload"} =>
    /\ \A u \in Uploads :
         OutUpload(u) => \/ reason = UploadReason(u)
                         \/ Completing(u) /\ op.pc \in {"complete", "mark"}
    /\ \A t \in TrashIds :
         /\ OutTrash(t) => op.reason = TrashReason(t)
         /\ OutRestore(t) => op.reason = RestoreReason(t)

OneOut == \A s, t \in TrashIds : Out(s) /\ Out(t) => s = t

\* A reason that only a reindex clears: the index may show anything.
Hopeless ==
  \/ reason.kind \in {"multiple", "download-open", "download-metadata"}
  \/ reason.kind \in {"mkdir-pending", "move-pending"} /\ op.reason # reason

ShowsAt(index, disk, p) ==
  \/ index[p] = disk[p]
  \/ index[p] = Absent /\ disk[p] \in Uploads /\ target[disk[p]] \in Unindexable

\* The file of an upload that is out has no row yet.
RowIsDue(index, p) ==
  index[p] = Absent /\ \E u \in Uploads : OutUpload(u) /\ p = target[u] /\ files[p] = u

RowsInv ==
  \/ Hopeless
  \/ /\ op.pc \in {"move-index", "move-undo"}
     /\ Shows(Moved(rows, op.path, op.dest), files)
     /\ Shows(rows, Moved(files, op.dest, op.path))
  \/ /\ op.pc \notin {"move-index", "move-undo"}
     /\ op.pc \in {"mkdir-index", "mkdir-undo"} => rows[op.path] = Absent
     /\ \A p \in Paths :
          \/ ShowsAt(rows, files, p)
          \/ \E t \in TrashIds : Out(t) /\ p \in Below(trashPath[t])
          \/ RowIsDue(rows, p)
          \/ op.pc \in {"mkdir-index", "mkdir-undo"} /\ p = op.path

HiddenInv ==
  \A t \in TrashIds :
    /\ \A p \in Paths : hidden[t][p] # Absent => p \in Below(trashPath[t])
    /\ trashState[t] \in {"none", "trashing"} => hidden[t] = EmptyTree
    /\ ~Hopeless =>
         /\ Stored(t) => Shows(hidden[t], trash[t])
         /\ OutTrash(t) => \A p \in Below(trashPath[t]) : ShowsAt(rows, trash[t], p)
         /\ OutRestore(t) => \A p \in Below(trashPath[t]) :
              /\ rows[p] = Absent
              /\ ShowsAt(hidden[t], files, p) \/ RowIsDue(hidden[t], p)

IndexInv ==
  /\ OutInv /\ GateInv /\ FileOpInv /\ OutIsRecorded /\ OneOut
  /\ RowsInv /\ HiddenInv

\* Whatever step a failure or a crash follows, disk and index differ exactly
\* in what op, the transitional records and the reason of the index say.
IndexIInv == RootIInv /\ IndexInv
=============================================================================
