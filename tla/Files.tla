-------------------------------- MODULE Files --------------------------------
(***************************************************************************)
(* The file service (internal/files/service.go) with its trash table       *)
(* (internal/files/sqlite_repository.go): mkdir, move, trash, restore and  *)
(* download.  Every mutation alternates SQLite and disk steps; each of     *)
(* them may fail, and every error path of the code is an alternative of    *)
(* the step it starts from.  A request the first step refuses changes      *)
(* nothing and is not modelled.                                            *)
(***************************************************************************)
EXTENDS ContentPlane

CONSTANTS
  Readers  \* concurrent downloads

VARIABLES
  trashState,  \* trash_entries.state, or "none" without a row
  trashPath,   \* trash_entries.original_path
  reader       \* reader[d]: a download between two of its steps

filesVars == <<trashState, trashPath, reader>>

TrashStates == {"none", "trashing", "trashed", "restoring"}

NotReading == [pc |-> "idle", path |-> Root, row |-> Absent]

FilesInit ==
  /\ trashState = [t \in TrashIds |-> "none"]
  /\ trashPath = [t \in TrashIds |-> Root]
  /\ reader = [d \in Readers |-> NotReading]

FilesTypeOK ==
  /\ trashState \in [TrashIds -> TrashStates]
  /\ trashPath \in [TrashIds -> Paths \cup {Root}]
  /\ reader \in [Readers -> [pc : {"idle", "open", "mark-open", "mark-metadata"},
                             path : Paths \cup {Root}, row : Nodes]]

MkdirReason == Reason("mkdir-pending", NoId)
MoveReason == Reason("move-pending", NoId)
TrashReason(t) == Reason("trash", t)
RestoreReason(t) == Reason("restore", t)

-----------------------------------------------------------------------------
(* CreateDirectory *)

\* BeginMutation of a mkdir or a move: the intent is durable, as the reason
\* of an unhealthy index, before the disk is touched.
BeginMutation(pc, p, dst, r) ==
  /\ Accepting /\ op = Idle
  /\ UsableIndex
  /\ reason' = r
  /\ op' = Step(pc, p, dst, r, FALSE)
  /\ UNCHANGED <<files, trash, storage, server, gate, rows, hidden, filesVars>>

CreateDirectory(p) == BeginMutation("mkdir", p, p, MkdirReason)

MkdirOnDisk ==
  /\ At("mkdir")
  /\ \/ /\ storage /\ IsFree(files, op.path)
        /\ files' = Put(files, op.path, Dir)
        /\ Goto(IF op.path \in Unindexable THEN "mkdir-undo" ELSE "mkdir-index")
     \/ /\ ~IsFree(files, op.path) \/ DiskMayFail
        /\ Goto("clear")
        /\ UNCHANGED files
  /\ UNCHANGED <<trash, storage, server, gate, indexVars, filesVars>>

\* CreateWithAuditAndRepair.
MkdirIndex ==
  /\ At("mkdir-index")
  /\ LET possible == UsableForRepair(op.reason) /\ IsFree(rows, op.path)
     IN \/ /\ possible
           /\ rows' = Put(rows, op.path, Dir)
           /\ reason' = Cleared(op.reason)
           /\ Done
        \/ /\ ~possible \/ DbMayFail
           /\ Goto("mkdir-undo")
           /\ UNCHANGED <<rows, reason>>
  /\ UNCHANGED <<files, trash, storage, server, gate, hidden, filesVars>>

\* RemoveEmptyDirectory, the compensation.
MkdirUndo ==
  /\ At("mkdir-undo")
  /\ \/ /\ storage
        /\ files' = Put(files, op.path, Absent)
        /\ Goto("clear")
     \/ /\ DiskMayFail
        /\ Done
        /\ UNCHANGED files
  /\ UNCHANGED <<trash, storage, server, gate, indexVars, filesVars>>

\* abortMutation: ClearMutation changes the row only when the reason is
\* still the one of this operation.
ClearMutation ==
  /\ At("clear")
  /\ \/ reason' = Cleared(op.reason)
     \/ DbMayFail /\ UNCHANGED reason
  /\ Done
  /\ UNCHANGED <<files, trash, storage, server, gate, rows, hidden, filesVars>>

-----------------------------------------------------------------------------
(* Move *)

Move(src, dst) ==
  /\ src # dst
  /\ Fits(files, src, dst) /\ Fits(rows, src, dst)
  /\ BeginMutation("move", src, dst, MoveReason)

MoveOnDisk ==
  /\ At("move")
  /\ \/ /\ storage /\ CanRename(files, op.path, op.dest)
        /\ files' = Moved(files, op.path, op.dest)
        /\ Goto("move-index")
     \/ /\ ~CanRename(files, op.path, op.dest) \/ DiskMayFail
        /\ Goto("clear")
        /\ UNCHANGED files
  /\ UNCHANGED <<trash, storage, server, gate, indexVars, filesVars>>

\* MoveSubtreeWithAuditAndRepair; the column checks of file_entries refuse
\* a row whose new path is too long in lower case.
MoveIndex ==
  /\ At("move-index")
  /\ LET moved == Moved(rows, op.path, op.dest)
         possible == /\ UsableForRepair(op.reason)
                     /\ RowsCanMove(op.path, op.dest)
                     /\ \A q \in Below(op.dest) \cap Unindexable : moved[q] = Absent
     IN \/ /\ possible
           /\ rows' = moved
           /\ reason' = Cleared(op.reason)
           /\ Done
        \/ /\ ~possible \/ DbMayFail
           /\ Goto("move-undo")
           /\ UNCHANGED <<rows, reason>>
  /\ UNCHANGED <<files, trash, storage, server, gate, hidden, filesVars>>

\* Mutant of MoveUndo: the path without compensation keeps the mutex.
MoveUndoKeepsLock ==
  /\ At("move-undo")
  /\ storage /\ CanRename(files, op.dest, op.path)
  /\ files' = Moved(files, op.dest, op.path)
  /\ Goto("clear")
  /\ UNCHANGED <<trash, storage, server, gate, indexVars, filesVars>>

MoveUndo ==
  /\ At("move-undo")
  /\ \/ /\ storage /\ CanRename(files, op.dest, op.path)
        /\ files' = Moved(files, op.dest, op.path)
        /\ Goto("clear")
     \/ /\ ~CanRename(files, op.dest, op.path) \/ DiskMayFail
        /\ Done
        /\ UNCHANGED files
  /\ UNCHANGED <<trash, storage, server, gate, indexVars, filesVars>>

-----------------------------------------------------------------------------
(* Trash *)

\* PrepareTrash: the entry is durable before the disk is touched; the index
\* stays healthy.
PrepareTrash(t, p) ==
  /\ Accepting /\ op = Idle
  /\ UsableIndex /\ rows[p] # Absent
  /\ trashState[t] = "none"
  /\ trashState' = [trashState EXCEPT ![t] = "trashing"]
  /\ trashPath' = [trashPath EXCEPT ![t] = p]
  /\ op' = Step("trash", p, Root, TrashReason(t), FALSE)
  /\ UNCHANGED <<files, trash, storage, server, gate, indexVars, reader>>

MoveToTrash(t) ==
  /\ At("trash") /\ op.reason = TrashReason(t)
  /\ LET possible == files[op.path] # Absent /\ trash[t] = EmptyTree
     IN \/ /\ storage /\ possible
           /\ files' = Cut(files, op.path)
           /\ trash' = [trash EXCEPT ![t] = Clip(files, op.path)]
           /\ Goto("trash-commit")
        \/ /\ ~possible \/ DiskMayFail
           /\ Goto("trash-abort")
           /\ UNCHANGED <<files, trash>>
  /\ UNCHANGED <<storage, server, gate, indexVars, filesVars>>

AbortTrash(t) ==
  /\ At("trash-abort") /\ op.reason = TrashReason(t)
  /\ \/ /\ trashState' = [trashState EXCEPT ![t] = "none"]
        /\ trashPath' = [trashPath EXCEPT ![t] = Root]
     \/ DbMayFail /\ UNCHANGED <<trashState, trashPath>>
  /\ Done
  /\ UNCHANGED <<files, trash, storage, server, gate, indexVars, reader>>

\* CommitTrashWithAudit, also run by the reconciliation: guard and effect.
CanCommitTrash(t) ==
  /\ UsableForRepair(TrashReason(t))
  /\ \E q \in Below(trashPath[t]) : rows[q] # Absent

\* Mutant of DoCommitTrash: the descendants stay active.
DoCommitTrashRoot(t) ==
  /\ rows' = Put(rows, trashPath[t], Absent)
  /\ hidden' = [hidden EXCEPT ![t] = Clip(rows, trashPath[t])]
  /\ reason' = Cleared(TrashReason(t))
  /\ trashState' = [trashState EXCEPT ![t] = "trashed"]
  /\ UNCHANGED trashPath

DoCommitTrash(t) ==
  /\ rows' = Cut(rows, trashPath[t])
  /\ hidden' = [hidden EXCEPT ![t] = Clip(rows, trashPath[t])]
  /\ reason' = Cleared(TrashReason(t))
  /\ trashState' = [trashState EXCEPT ![t] = "trashed"]
  /\ UNCHANGED trashPath

CommitTrash(t) ==
  /\ At("trash-commit") /\ op.reason = TrashReason(t)
  /\ \/ CanCommitTrash(t) /\ DoCommitTrash(t) /\ Done
     \/ /\ ~CanCommitTrash(t) \/ DbMayFail
        /\ Goto("mark")
        /\ UNCHANGED <<indexVars, trashState, trashPath>>
  /\ UNCHANGED <<files, trash, storage, server, gate, reader>>

-----------------------------------------------------------------------------
(* Restore *)

BeginRestore(t) ==
  /\ Accepting /\ op = Idle
  /\ UsableIndex
  /\ trashState[t] = "trashed" /\ hidden[t] # EmptyTree
  /\ trashState' = [trashState EXCEPT ![t] = "restoring"]
  /\ op' = Step("restore", trashPath[t], Root, RestoreReason(t), FALSE)
  /\ UNCHANGED <<files, trash, storage, server, gate, indexVars, trashPath, reader>>

RestoreFromTrash(t) ==
  /\ At("restore") /\ op.reason = RestoreReason(t)
  /\ LET possible == trash[t] # EmptyTree /\ IsFree(files, op.path)
     IN \/ /\ storage /\ possible
           /\ files' = Graft(files, trash[t])
           /\ trash' = [trash EXCEPT ![t] = EmptyTree]
           /\ Goto("restore-finish")
        \/ /\ ~possible \/ DiskMayFail
           /\ Goto("restore-rollback")
           /\ UNCHANGED <<files, trash>>
  /\ UNCHANGED <<storage, server, gate, indexVars, filesVars>>

RollbackRestore(t) ==
  /\ At("restore-rollback") /\ op.reason = RestoreReason(t)
  /\ \/ trashState' = [trashState EXCEPT ![t] = "trashed"]
     \/ DbMayFail /\ UNCHANGED trashState
  /\ Done
  /\ UNCHANGED <<files, trash, storage, server, gate, indexVars, trashPath, reader>>

\* FinishRestoreWithAudit, also run by the reconciliation.
CanFinishRestore(t) ==
  /\ UsableForRepair(RestoreReason(t))
  /\ hidden[t] # EmptyTree /\ NoActiveClash(t)

DoFinishRestore(t) ==
  /\ rows' = Graft(rows, hidden[t])
  /\ hidden' = [hidden EXCEPT ![t] = EmptyTree]
  /\ reason' = Cleared(RestoreReason(t))
  /\ trashState' = [trashState EXCEPT ![t] = "none"]
  /\ trashPath' = [trashPath EXCEPT ![t] = Root]

FinishRestore(t) ==
  /\ At("restore-finish") /\ op.reason = RestoreReason(t)
  /\ \/ CanFinishRestore(t) /\ DoFinishRestore(t) /\ Done
     \/ /\ ~CanFinishRestore(t) \/ DbMayFail
        /\ Goto("mark")
        /\ UNCHANGED <<indexVars, trashState, trashPath>>
  /\ UNCHANGED <<files, trash, storage, server, gate, reader>>

-----------------------------------------------------------------------------
(* OpenDownload: no mutation lock.  The row is read first, the file is     *)
(* opened later, and a disagreement marks the index unhealthy later still. *)

Lookup(d, p) ==
  /\ Accepting
  /\ reader[d] = NotReading
  /\ UsableIndex /\ rows[p] \in Contents
  /\ reader' = [reader EXCEPT ![d] = [pc |-> "open", path |-> p, row |-> rows[p]]]
  /\ UNCHANGED <<planeVars, indexVars, trashState, trashPath>>

OpenFile(d) ==
  /\ reader[d].pc = "open"
  /\ LET found == files[reader[d].path]
     IN \/ /\ storage /\ found = reader[d].row \* the client gets the file
           /\ reader' = [reader EXCEPT ![d] = NotReading]
        \/ /\ storage /\ found \notin Contents
           /\ reader' = [reader EXCEPT ![d].pc = "mark-open"]
        \/ /\ storage /\ found \in Contents /\ found # reader[d].row
           /\ reader' = [reader EXCEPT ![d].pc = "mark-metadata"]
        \/ /\ DiskMayFail
           /\ reader' = [reader EXCEPT ![d] = NotReading]
  /\ UNCHANGED <<planeVars, indexVars, trashState, trashPath>>

MarkDownload(d) ==
  /\ \/ /\ reader[d].pc = "mark-open"
        /\ reason' = Marked(Reason("download-open", NoId))
     \/ /\ reader[d].pc = "mark-metadata"
        /\ reason' = Marked(Reason("download-metadata", NoId))
     \/ /\ reader[d].pc \in {"mark-open", "mark-metadata"} /\ DbMayFail
        /\ UNCHANGED reason
  /\ reader' = [reader EXCEPT ![d] = NotReading]
  /\ UNCHANGED <<planeVars, rows, hidden, trashState, trashPath>>

-----------------------------------------------------------------------------

FilesStep ==
  \/ MkdirOnDisk \/ MkdirIndex \/ MkdirUndo \/ ClearMutation
  \/ MoveOnDisk \/ MoveIndex \/ MoveUndo
  \/ \E t \in TrashIds :
       \/ MoveToTrash(t) \/ AbortTrash(t) \/ CommitTrash(t)
       \/ RestoreFromTrash(t) \/ RollbackRestore(t) \/ FinishRestore(t)

FilesRequest ==
  \/ \E p \in Paths : CreateDirectory(p)
  \/ \E p, q \in Paths : Move(p, q)
  \/ \E t \in TrashIds, p \in Paths : PrepareTrash(t, p)
  \/ \E t \in TrashIds : BeginRestore(t)

Download ==
  \E d \in Readers :
     \/ \E p \in Paths : Lookup(d, p)
     \/ OpenFile(d) \/ MarkDownload(d)
=============================================================================
