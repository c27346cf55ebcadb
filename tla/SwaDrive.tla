------------------------------ MODULE SwaDrive ------------------------------
(***************************************************************************)
(* The server: file service, upload service and the shared content plane,  *)
(* with the process life cycle of cmd/server/main.go (startup              *)
(* reconciliation, degraded start, crash) and the two offline commands of  *)
(* internal/admincli/run.go that change this state (reindex,               *)
(* reconcile-upload-parts).  The process lock of                           *)
(* internal/database/process_lock.go makes the offline commands exclude    *)
(* the server, so each of them is one step here.                           *)
(***************************************************************************)
EXTENDS Files, Uploads

vars == <<planeVars, indexVars, filesVars, uploadsVars>>

Init == PlaneInit /\ FilesInit /\ UploadsInit

Down == server \in {"down", "refused"}

\* ListReconciliation and ListFinalizing.
PendingTrash == {t \in TrashIds : trashState[t] \in {"trashing", "restoring"}}
PendingUploads == {u \in Uploads : status[u] = "finalizing"}
Transitional == PendingTrash # {} \/ PendingUploads # {}

\* What a stopped process forgets: locks, requests in flight, the gate.
ForgetProcess ==
  /\ op' = Idle
  /\ gate' = FALSE
  /\ reader' = [d \in Readers |-> NotReading]
  /\ job' = [u \in Uploads |-> "none"]

-----------------------------------------------------------------------------
(* Startup *)

\* The volume is there: reconcile before serving.
Start ==
  /\ Down
  /\ server' = "starting" /\ storage' = TRUE
  /\ UNCHANGED <<files, trash, gate, op, indexVars, filesVars, uploadsVars>>

\* The volume is missing: serve without content, and without metadata when
\* something waits for the disk.
StartDegraded ==
  /\ Down /\ "storage" \in Faults
  /\ storage' = FALSE
  /\ \/ Transitional /\ server' = "serving" /\ gate' = FALSE
     \/ ~Transitional /\ UsableIndex /\ server' = "serving" /\ gate' = TRUE
     \/ /\ (~Transitional /\ ~UsableIndex) \/ DbMayFail
        /\ server' = "refused" /\ UNCHANGED gate
  /\ UNCHANGED <<files, trash, op, indexVars, filesVars, uploadsVars>>

Reconciling == server = "starting" /\ storage

\* A reconciliation that fails ends the process with an error.
Refuse ==
  /\ server' = "refused"
  /\ UNCHANGED <<rows, hidden, trashState, trashPath>>

\* TrashState and the five cases of reconcileTrashEntry.
ReconcileTrash(t) ==
  LET inTrash == trash[t] # EmptyTree
      inFiles == files[trashPath[t]] # Absent
      trashing == trashState[t] = "trashing"
      commit   == trashing /\ inTrash /\ ~inFiles
      abort    == trashing /\ ~inTrash /\ inFiles
      finish   == ~trashing /\ ~inTrash /\ inFiles
      rollback == ~trashing /\ inTrash /\ ~inFiles
  IN
  /\ Reconciling /\ t \in PendingTrash
  /\ \/ commit /\ CanCommitTrash(t) /\ DoCommitTrash(t) /\ UNCHANGED server
     \/ finish /\ CanFinishRestore(t) /\ DoFinishRestore(t) /\ UNCHANGED server
     \/ /\ abort
        /\ trashState' = [trashState EXCEPT ![t] = "none"]
        /\ trashPath' = [trashPath EXCEPT ![t] = Root]
        /\ UNCHANGED <<server, indexVars>>
     \/ /\ rollback
        /\ trashState' = [trashState EXCEPT ![t] = "trashed"]
        /\ UNCHANGED <<server, indexVars, trashPath>>
     \/ /\ \/ commit /\ ~CanCommitTrash(t)
           \/ finish /\ ~CanFinishRestore(t)
           \/ inTrash = inFiles
           \/ DbMayFail
        /\ Refuse /\ UNCHANGED reason
  /\ UNCHANGED <<files, trash, storage, gate, op, reader, uploadsVars>>

\* Mutant of ResetDue: every finalizing upload goes back to pending.
ResetAlways(u) == files[target[u]] # Dir

\* Nothing has been published.
ResetDue(u) == part[u] /\ files[target[u]] = Absent

\* reconcileFinalizingUpload, after every trash entry.
ReconcileUpload(u) ==
  LET found == files[target[u]]
      reset == ResetDue(u)
      published == ~part[u] /\ found \in Contents
      sameSize == SizeOf[found] = SizeOf[u]
      finish == published /\ sameSize /\ target[u] \notin Unindexable
      marking == \/ part[u] /\ found \in Contents
                 \/ ~part[u] /\ found = Absent
                 \/ published /\ ~sameSize
                 \/ finish /\ ~CanComplete(u)
  IN
  /\ Reconciling /\ PendingTrash = {} /\ u \in PendingUploads
  /\ \/ reset /\ DoResetFinalizing(u) /\ UNCHANGED <<server, rows, hidden>>
     \/ finish /\ CanComplete(u) /\ DoComplete(u) /\ UNCHANGED <<server, hidden>>
     \/ /\ marking \/ (finish /\ DbMayFail)
        /\ \/ reason' = Marked(UploadReason(u))
           \/ "mark" \in Faults /\ UNCHANGED reason
        /\ Refuse /\ UNCHANGED status
     \/ /\ \/ found = Dir
           \/ published /\ sameSize /\ target[u] \in Unindexable
           \/ DbMayFail
        /\ Refuse /\ UNCHANGED <<reason, status>>
  /\ UNCHANGED <<files, trash, storage, gate, op, filesVars,
                 target, part, chunks, expired, job>>

\* Mutants of FinishStartup: without CheckHealthy, and without its error.
FinishUnchecked ==
  /\ Reconciling /\ ~Transitional
  /\ server' = "serving" /\ gate' = TRUE
  /\ UNCHANGED <<files, trash, storage, op, indexVars, filesVars, uploadsVars>>

FinishHealthyOnly ==
  /\ Reconciling /\ ~Transitional /\ UsableIndex
  /\ server' = "serving" /\ gate' = TRUE
  /\ UNCHANGED <<files, trash, storage, op, indexVars, filesVars, uploadsVars>>

\* Nothing left to reconcile: CheckHealthy decides.
FinishStartup ==
  /\ Reconciling /\ ~Transitional
  /\ \/ UsableIndex /\ server' = "serving" /\ gate' = TRUE
     \/ (~UsableIndex \/ DbMayFail) /\ server' = "refused" /\ UNCHANGED gate
  /\ UNCHANGED <<files, trash, storage, op, indexVars, filesVars, uploadsVars>>

\* The volume went away during the reconciliation.
StartWithoutStorage ==
  /\ server = "starting" /\ ~storage
  /\ server' = "serving"
  /\ UNCHANGED <<files, trash, storage, gate, op, indexVars, filesVars, uploadsVars>>

-----------------------------------------------------------------------------
(* Faults of the environment, and the end of the process *)

\* The provider never recovers in the process.
LoseStorage ==
  /\ "storage" \in Faults /\ ~Down /\ storage
  /\ storage' = FALSE
  /\ UNCHANGED <<files, trash, server, gate, op, indexVars, filesVars, uploadsVars>>

\* A crash, or the end of a shutdown that did not wait for a request.
Stop ==
  /\ \/ "crash" \in Faults /\ ~Down
     \/ server = "stopping"
  /\ server' = "down"
  /\ ForgetProcess
  /\ UNCHANGED <<files, trash, storage, indexVars, trashState, trashPath,
                 status, target, part, chunks, expired>>

-----------------------------------------------------------------------------
(* Offline administration *)

\* Rebuild refuses when an entry of the trash is in transition, when its
\* directory is gone, and when a path cannot be indexed.
ReindexAccepts ==
  /\ PendingTrash = {}
  /\ \A t \in TrashIds : trashState[t] = "trashed" => trash[t] # EmptyTree
  /\ \A p \in Unindexable :
       files[p] = Absent /\ \A t \in TrashIds : trash[t][p] = Absent

Reindex ==
  /\ Down /\ ReindexAccepts
  /\ rows' = files
  /\ hidden' = [t \in TrashIds |->
                  IF trashState[t] = "trashed" THEN trash[t] ELSE EmptyTree]
  /\ reason' = Healthy
  /\ UNCHANGED <<planeVars, filesVars, uploadsVars>>

\* reconcile-upload-parts removes part files no row names.
ReconcileUploadParts(u) ==
  /\ Down
  /\ part[u] /\ status[u] = "none"
  /\ part' = [part EXCEPT ![u] = FALSE]
  /\ target' = [target EXCEPT ![u] = Root]
  /\ UNCHANGED <<planeVars, indexVars, filesVars, status, chunks, expired, job>>

-----------------------------------------------------------------------------

Reconciliation ==
  \/ FinishStartup \/ StartWithoutStorage
  \/ \E t \in TrashIds : ReconcileTrash(t)
  \/ \E u \in Uploads : ReconcileUpload(u)

Startup == Start \/ StartDegraded \/ Reconciliation

Administration == Reindex \/ \E u \in Uploads : ReconcileUploadParts(u)

FilesNext == (FilesRequest \/ FilesStep \/ Download) /\ UNCHANGED uploadsVars
UploadsNext == (UploadsRequest \/ CompleteStep \/ JobStep \/ Background)
                 /\ UNCHANGED filesVars
MarkNext == MarkIndexUnhealthy
              /\ UNCHANGED <<files, trash, storage, server, gate, rows, hidden,
                             filesVars, uploadsVars>>

Next ==
  \/ FilesNext \/ UploadsNext \/ MarkNext
  \/ Startup \/ LoseStorage \/ Stop
  \/ Administration

Spec == Init /\ [][Next]_vars

\* A goroutine inside the MutationCoordinator, a request between its disk
\* step and its transaction, and the startup run on: SQLite calls have a
\* busy timeout and the repairs a context of their own.  The cleanup worker
\* queues on the lock of an upload, and a Go mutex starves no waiter; no
\* client is assumed to come back.
OpStep == \/ FilesStep /\ UNCHANGED uploadsVars
          \/ CompleteStep /\ UNCHANGED filesVars
          \/ MarkNext

Fairness ==
  /\ WF_vars(OpStep)
  /\ WF_vars(JobStep /\ UNCHANGED filesVars)
  /\ WF_vars(Reconciliation)
  /\ \A u \in Uploads : SF_vars(CleanupExpired(u) /\ UNCHANGED filesVars)

FairSpec == Spec /\ Fairness

TypeOK == PlaneTypeOK /\ FilesTypeOK /\ UploadsTypeOK

-----------------------------------------------------------------------------
(* Safety *)

\* The index shows what the disk holds: active rows and kept trash rows.
Agreement ==
  /\ rows = files
  /\ \A t \in TrashIds : trashState[t] = "trashed" => hidden[t] = trash[t]

\* Whatever fails and wherever the process stops, a difference between the
\* disk and the index is written down: as an unhealthy index or as a trash
\* entry or an upload in a transitional state (docs/architecture.md,
\* "Model Kegagalan").
DivergenceIsRecorded == UsableIndex /\ ~Transitional => Agreement

\* An index shows a tree truly: every entry but the files whose upload had an
\* unindexable target, which the code leaves on disk without a row.
Shows(index, disk) ==
  \A p \in Paths :
    \/ index[p] = disk[p]
    \/ index[p] = Absent /\ disk[p] \in Uploads /\ target[disk[p]] \in Unindexable

\* A serving process with an open metadata gate and no mutation in progress
\* either refuses metadata requests or answers them with the truth, even
\* while transitional records of failed requests are waiting for a restart:
\* no row is stale, and no file is missing but those that cannot be indexed.
ServedIndexIsTrue ==
  server = "serving" /\ gate /\ op = Idle /\ UsableIndex =>
    /\ Shows(rows, files)
    /\ \A t \in TrashIds : trashState[t] = "trashed" => Shows(hidden[t], trash[t])

\* The startup opens the gate only on an index that agrees with the disk,
\* however many failures and crashes came before.
GateOpensOnTruth ==
  [][server # "serving" /\ server' = "serving" /\ gate' => Agreement']_vars

\* Where the bytes of a file version are: below files/, in the trash, or
\* still in uploads/.
InFiles(c) == {p \in Paths : files[p] = c}
InTrash(c) == {x \in TrashIds \X Paths : trash[x[1]][x[2]] = c}
InUploads(c) == {u \in Uploads : u = c /\ part[u]}
Copies(c) == Cardinality(InFiles(c)) + Cardinality(InTrash(c)) + Cardinality(InUploads(c))

\* No rename, compensation, crash or reconciliation loses, overwrites or
\* doubles a file version: what was there at first and what an upload had
\* received when it became finalizing stays in exactly one place.
NothingLost ==
  /\ \A c \in Contents \ Uploads : Copies(c) = 1
  /\ \A u \in Uploads :
       status[u] \in {"finalizing", "completed"} => Copies(u) = 1

\* Only an upload that is committed or about to be is visible: nothing of
\* an unfinished, cancelled or expired upload is in files/ or in the trash.
OnlyFinishedVisible ==
  \A u \in Uploads :
    status[u] \in {"none", "pending", "cancelled", "expired"} =>
      InFiles(u) = {} /\ InTrash(u) = {}

\* What has become of an upload, seen from outside.
Outcome == [u \in Uploads |->
  CASE status[u] \in {"cancelled", "expired"} -> "closed"
    [] status[u] = "completed" \/ InFiles(u) # {} \/ InTrash(u) # {} -> "published"
    [] OTHER -> "open"]

Lifecycle == INSTANCE UploadLifecycle WITH outcome <- Outcome

\* The service implements the life cycle it promises: the rename that makes
\* an upload visible is the point of no return, and no cancel, expiry, reset
\* or retry that raced with it takes it back or closes the upload later.
UploadsImplementLifecycle == Lifecycle!Spec

-----------------------------------------------------------------------------
(* What the documentation says and the code does not do.  Each of these is *)
(* violated; the runs show how.                                            *)

\* docs/architecture.md:172: a crash in the middle of an operation makes
\* the startup fail closed until an explicit reindex is done.  So a refused
\* startup can be cured by a reindex; but Rebuild itself refuses while a
\* trash entry is in transition.
ReindexCuresRefusal == server = "refused" => ReindexAccepts

\* docs/architecture.md:169: the failure of the main repair after a side
\* effect marks the index unhealthy.  So a published but uncommitted upload
\* leaves no healthy index behind; but completePublished returns before the
\* marker when NewEntry refuses the path.
UncommittedIsMarked ==
  op = Idle /\ server = "serving" =>
    \A u \in Uploads : status[u] = "finalizing" /\ InFiles(u) # {} => ~UsableIndex

-----------------------------------------------------------------------------
(* Liveness, under FairSpec *)

\* Every path through a mutation, compensations included, gives the
\* MutationCoordinator back, so the next mutation is not locked out.
MutationLockReleased == op # Idle ~> op = Idle

\* A startup decides: it serves or it ends with an error, whatever mixture
\* of transitional records and disk states it finds.
StartupDecides == server = "starting" ~> server # "starting"

\* The cleanup worker ends every upload whose lifetime is over, although
\* chunks, cancels and completions compete for it, as long as the server
\* serves from its volume with a healthy index.
ExpiredUploadEnds ==
  \A u \in Uploads :
    u \in expired ~> \/ status[u] \in {"completed", "cancelled", "expired"}
                     \/ server # "serving" \/ ~storage \/ ~UsableIndex
=============================================================================
