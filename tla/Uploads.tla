------------------------------- MODULE Uploads -------------------------------
(***************************************************************************)
(* The upload service (internal/uploads/service.go) with its table         *)
(* (internal/uploads/sqlite_repository.go), from the creation of the part  *)
(* file to its publication in files/.                                      *)
(*                                                                         *)
(* The per-upload lock (internal/uploads/locks.go) is job: while a cancel  *)
(* or an expiry is between its disk step and its transaction, or a         *)
(* completion of the upload is in the MutationCoordinator, no other        *)
(* operation of that upload runs.  A chunk request is one step here: it    *)
(* touches nothing that this module shares with anybody else.              *)
(***************************************************************************)
EXTENDS ContentPlane, FiniteSets

CONSTANTS
  Targets,     \* target paths clients ask for
  TotalChunks, \* chunks of each upload
  SizeOf,      \* size of each content
  MaxActive    \* MaximumActiveUploadsPerUser

VARIABLES
  status,  \* uploads.status, or "none" without a row
  target,  \* uploads.target_path, once the part file exists
  part,    \* whether the part file exists in uploads/
  chunks,  \* rows of upload_chunks
  expired, \* uploads whose expires_at has passed
  job      \* what holds the upload between two steps

uploadsVars == <<status, target, part, chunks, expired, job>>

Statuses == {"none", "pending", "finalizing", "completed", "cancelled", "expired"}

ASSUME UploadsAssumption ==
  /\ Targets \subseteq Paths
  /\ TotalChunks \in [Uploads -> Nat]
  /\ SizeOf \in [Contents -> Nat]
  /\ MaxActive \in Nat

UploadsInit ==
  /\ status = [u \in Uploads |-> "none"]
  /\ target = [u \in Uploads |-> Root]
  /\ part = [u \in Uploads |-> FALSE]
  /\ chunks = [u \in Uploads |-> 0]
  /\ expired = {}
  /\ job = [u \in Uploads |-> "none"]

UploadsTypeOK ==
  /\ status \in [Uploads -> Statuses]
  /\ target \in [Uploads -> Targets \cup {Root}]
  /\ part \in [Uploads -> BOOLEAN]
  /\ chunks \in [Uploads -> Nat] /\ \A u \in Uploads : chunks[u] <= TotalChunks[u]
  /\ expired \subseteq Uploads
  /\ job \in [Uploads -> {"none", "create", "cancel", "expire"}]

UploadReason(u) == Reason("upload", u)
Completing(u) == op.reason = UploadReason(u)
Unlocked(u) == job[u] = "none" /\ ~Completing(u)
ActiveUploads == {u \in Uploads : status[u] \in {"pending", "finalizing"}}

-----------------------------------------------------------------------------
(* Create: the part file first, the row second. *)

CreatePart(u, p) ==
  /\ Accepting
  /\ status[u] = "none" /\ ~part[u] /\ job[u] = "none"
  /\ IsFree(files, p)
  /\ part' = [part EXCEPT ![u] = TRUE]
  /\ target' = [target EXCEPT ![u] = p]
  /\ job' = [job EXCEPT ![u] = "create"]
  /\ UNCHANGED <<planeVars, indexVars, status, chunks, expired>>

\* CreateWithAudit; on its failure RemovePart, which leaves an orphan part
\* when the disk fails too.
CreateRow(u) ==
  /\ job[u] = "create"
  /\ LET possible == /\ UsableIndex /\ IsFree(rows, target[u])
                     /\ Cardinality(ActiveUploads) < MaxActive
     IN \/ /\ possible
           /\ status' = [status EXCEPT ![u] = "pending"]
           /\ UNCHANGED <<part, target>>
        \/ /\ ~possible \/ DbMayFail
           /\ \/ storage /\ part' = [part EXCEPT ![u] = FALSE]
              \/ DiskMayFail /\ UNCHANGED part
           /\ target' = [target EXCEPT ![u] = Root]
           /\ UNCHANGED status
  /\ job' = [job EXCEPT ![u] = "none"]
  /\ UNCHANGED <<planeVars, indexVars, chunks, expired>>

\* Mutant of PutChunk: a chunk that is already recorded is recorded again.
PutChunkTwice(u) ==
  /\ Accepting /\ Unlocked(u)
  /\ status[u] = "pending" /\ u \notin expired
  /\ part[u]
  /\ chunks' = [chunks EXCEPT ![u] = @ + 1]
  /\ UNCHANGED <<planeVars, indexVars, status, target, part, expired, job>>

\* The durable effect of a PutChunk that records a chunk.
PutChunk(u) ==
  /\ Accepting /\ Unlocked(u)
  /\ status[u] = "pending" /\ u \notin expired
  /\ part[u] /\ chunks[u] < TotalChunks[u]
  /\ chunks' = [chunks EXCEPT ![u] = @ + 1]
  /\ UNCHANGED <<planeVars, indexVars, status, target, part, expired, job>>

\* The clock reaches expires_at.
Expire(u) ==
  /\ status[u] = "pending" /\ u \notin expired
  /\ expired' = expired \cup {u}
  /\ UNCHANGED <<planeVars, indexVars, status, target, part, chunks, job>>

-----------------------------------------------------------------------------
(* Complete.  It checks the lifetime of the upload nowhere. *)

\* Mutant of PrepareFinalization: the part is published while pending.
PublishPending(u) ==
  /\ Accepting /\ op = Idle /\ Unlocked(u)
  /\ status[u] = "pending"
  /\ part[u] /\ chunks[u] = TotalChunks[u]
  /\ op' = Step("publish", target[u], Root, UploadReason(u), TRUE)
  /\ UNCHANGED <<files, trash, storage, server, gate, indexVars, uploadsVars>>

\* Every check, then PrepareFinalization.
PrepareFinalization(u) ==
  /\ Accepting /\ op = Idle /\ Unlocked(u)
  /\ \/ status[u] = "pending"
     \/ status[u] = "finalizing" /\ files[target[u]] = Absent
  /\ part[u] /\ chunks[u] = TotalChunks[u]
  /\ status' = [status EXCEPT ![u] = "finalizing"]
  /\ op' = Step("publish", target[u], Root, UploadReason(u), status[u] = "pending")
  /\ UNCHANGED <<files, trash, storage, server, gate, indexVars,
                 target, part, chunks, expired, job>>

\* A completion retried after the part was renamed but not committed.
ResumeFinalization(u) ==
  /\ Accepting /\ op = Idle /\ Unlocked(u)
  /\ status[u] = "finalizing" /\ ~part[u]
  /\ files[target[u]] \in Contents
  /\ op' = Step(IF SizeOf[files[target[u]]] = SizeOf[u] THEN "complete" ELSE "mark",
                target[u], Root, UploadReason(u), FALSE)
  /\ UNCHANGED <<files, trash, storage, server, gate, indexVars, uploadsVars>>

\* FinalizePart.
FinalizePart(u) ==
  /\ At("publish") /\ Completing(u)
  /\ LET possible == part[u] /\ IsFree(files, op.path)
     IN \/ /\ storage /\ possible
           /\ files' = Put(files, op.path, u)
           /\ part' = [part EXCEPT ![u] = FALSE]
           /\ Goto("complete")
        \/ /\ ~possible \/ DiskMayFail
           /\ IF op.first THEN Goto("reset") ELSE Done
           /\ UNCHANGED <<files, part>>
  /\ UNCHANGED <<trash, storage, server, gate, indexVars,
                 status, target, chunks, expired, job>>

DoResetFinalizing(u) ==
  /\ status' = [status EXCEPT ![u] = "pending"]
  /\ reason' = Cleared(UploadReason(u))

ResetFinalizing(u) ==
  /\ At("reset") /\ Completing(u)
  /\ \/ DoResetFinalizing(u)
     \/ DbMayFail /\ UNCHANGED <<status, reason>>
  /\ Done
  /\ UNCHANGED <<files, trash, storage, server, gate, rows, hidden,
                 target, part, chunks, expired, job>>

\* CompleteWithAudit with ConfirmActiveInTransaction, also run by the
\* reconciliation.  The row describes the published file.
CanComplete(u) ==
  LET p == target[u] IN
  /\ UsableForRepair(UploadReason(u))
  /\ \/ IsFree(rows, p)
     \/ rows[p] \in Contents /\ SizeOf[rows[p]] = SizeOf[u]

DoComplete(u) ==
  LET p == target[u] IN
  /\ rows' = IF rows[p] = Absent THEN Put(rows, p, files[p]) ELSE rows
  /\ status' = [status EXCEPT ![u] = "completed"]
  /\ reason' = Cleared(UploadReason(u))

\* completePublished: NewEntry refuses an unindexable path before the
\* transaction, and then nothing marks the index.
CompletePublished(u) ==
  /\ At("complete") /\ Completing(u)
  /\ \/ op.path \notin Unindexable /\ CanComplete(u) /\ DoComplete(u) /\ Done
     \/ /\ op.path \notin Unindexable /\ (~CanComplete(u) \/ DbMayFail)
        /\ Goto("mark")
        /\ UNCHANGED <<rows, status, reason>>
     \/ /\ op.path \in Unindexable
        /\ Done
        /\ UNCHANGED <<rows, status, reason>>
  /\ UNCHANGED <<files, trash, storage, server, gate, hidden,
                 target, part, chunks, expired, job>>

-----------------------------------------------------------------------------
(* Cancel and CleanupExpired: the part file first, the row second. *)

\* Mutant of RemovePart: the status is not looked at before the part goes.
RemoveAnyPart(u, j) ==
  /\ Unlocked(u)
  /\ storage
  /\ part' = [part EXCEPT ![u] = FALSE]
  /\ job' = [job EXCEPT ![u] = j]
  /\ UNCHANGED <<planeVars, indexVars, status, target, chunks, expired>>

RemovePart(u, j) ==
  /\ Unlocked(u)
  /\ storage
  /\ status[u] = "pending"
  /\ part' = [part EXCEPT ![u] = FALSE]
  /\ job' = [job EXCEPT ![u] = j]
  /\ UNCHANGED <<planeVars, indexVars, status, target, chunks, expired>>

Cancel(u) == Accepting /\ RemovePart(u, "cancel")

\* Mutant of CleanupExpired: uploads with all their chunks are left to a
\* client that may never come back.
CleanupIncomplete(u) ==
  /\ server = "serving"
  /\ u \in expired /\ chunks[u] < TotalChunks[u]
  /\ \A v \in Uploads : job[v] # "expire"
  /\ RemovePart(u, "expire")

\* One cleanup worker, which no request gate stops.
CleanupExpired(u) ==
  /\ server = "serving"
  /\ u \in expired
  /\ \A v \in Uploads : job[v] # "expire"
  /\ RemovePart(u, "expire")

\* A database or disk error of a cleanup round other than the loss of the
\* volume ends RunCleanup, and with it the server.
CleanupError ==
  /\ server = "serving"
  /\ DbMayFail \/ "disk" \in Faults
  /\ server' = "stopping"
  /\ UNCHANGED <<files, trash, storage, gate, op, indexVars, uploadsVars>>

\* finishUncompleted.
FinishUncompleted(u, final) ==
  /\ status[u] = "pending"
  /\ status' = [status EXCEPT ![u] = final]
  /\ chunks' = [chunks EXCEPT ![u] = 0]

CancelWithAudit(u) ==
  /\ job[u] = "cancel"
  /\ \/ FinishUncompleted(u, "cancelled")
     \/ DbMayFail /\ UNCHANGED <<status, chunks>>
  /\ job' = [job EXCEPT ![u] = "none"]
  /\ UNCHANGED <<planeVars, indexVars, target, part, expired>>

\* A failed transaction is such an error.
ExpireWithAudit(u) ==
  /\ job[u] = "expire"
  /\ \/ FinishUncompleted(u, "expired") /\ UNCHANGED server
     \/ DbMayFail /\ server' = "stopping" /\ UNCHANGED <<status, chunks>>
  /\ job' = [job EXCEPT ![u] = "none"]
  /\ UNCHANGED <<files, trash, storage, gate, op, indexVars, target, part, expired>>

-----------------------------------------------------------------------------

CompleteStep ==
  \E u \in Uploads : FinalizePart(u) \/ ResetFinalizing(u) \/ CompletePublished(u)

JobStep ==
  \E u \in Uploads : CreateRow(u) \/ CancelWithAudit(u) \/ ExpireWithAudit(u)

UploadsRequest ==
  \E u \in Uploads :
     \/ \E p \in Targets : CreatePart(u, p)
     \/ PutChunk(u) \/ PrepareFinalization(u) \/ ResumeFinalization(u) \/ Cancel(u)

Background ==
  \/ \E u \in Uploads : CleanupExpired(u) \/ Expire(u)
  \/ CleanupError
=============================================================================
