---------------------------- MODULE ContentPlane ----------------------------
(***************************************************************************)
(* The state that file operations and upload publication share: the        *)
(* content tree and the trash directory of the storage root, the metadata  *)
(* index, the availability of the storage provider, the state of the       *)
(* server process, and the one operation that holds the                    *)
(* MutationCoordinator (internal/storage/mutations.go).                    *)
(*                                                                         *)
(* Every SQLite transaction and every rename/mkdir/unlink is one step.     *)
(* The mutex is the record op: an operation takes it when op is Idle,      *)
(* stays in it from its first durable step to its last, and the next       *)
(* operation waits for Idle.  Waiting operations have no state.            *)
(***************************************************************************)
EXTENDS FileIndex

CONSTANTS
  InitialFiles,  \* the tree of a server that has been in use
  Unindexable,   \* paths whose lower-case form is too long for the index
  Faults         \* which faults may strike

VARIABLES
  files,    \* the directory files/ of the storage root
  trash,    \* trash[t]: the subtree stored in trash/, by original path
  storage,  \* whether content operations reach the verified volume
  server,   \* the server process
  gate,     \* metadataAvailable of cmd/server/main.go
  op        \* the operation inside the MutationCoordinator

planeVars == <<files, trash, storage, server, gate, op>>

(* "db"      a transaction fails and leaves no effect                      *)
(* "mark"    the second, independent transaction that marks the index      *)
(*           unhealthy fails too                                           *)
(* "disk"    a disk step fails without effect, or the client gives up      *)
(*           before it                                                     *)
(* "storage" the volume disappears, or is missing at startup               *)
(* "crash"   the process stops between two steps                           *)
FaultKinds == {"db", "mark", "disk", "storage", "crash"}

Root == <<>>

ASSUME ContentPlaneAssumption ==
  /\ Faults \subseteq FaultKinds
  /\ Unindexable \subseteq Paths
  /\ InitialFiles \in Trees /\ WellFormed(InitialFiles)
  /\ Uploads \subseteq Contents \ {InitialFiles[p] : p \in Paths}
  /\ \A c \in Contents \ Uploads :
       \E p \in Paths : \A q \in Paths : InitialFiles[q] = c <=> q = p
  /\ NoId \notin TrashIds \cup Uploads
  /\ TrashIds \cap Uploads = {}

Pcs == {"idle", "mark",
        "mkdir", "mkdir-index", "mkdir-undo",
        "move", "move-index", "move-undo", "clear",
        "trash", "trash-commit", "trash-abort",
        "restore", "restore-finish", "restore-rollback",
        "publish", "complete", "reset"}

Ops == [pc : Pcs, path : Paths \cup {Root}, dest : Paths \cup {Root},
        reason : Reasons, first : BOOLEAN]

\* An operation at its step pc; r is the health reason it owns, and first
\* tells a completion that moved its upload out of pending.
Step(pc, p, dst, r, first) ==
  [pc |-> pc, path |-> p, dest |-> dst, reason |-> r, first |-> first]

Idle == Step("idle", Root, Root, Healthy, FALSE)

At(pc) == op.pc = pc
Goto(pc) == op' = [op EXCEPT !.pc = pc]
Done == op' = Idle

DbMayFail == "db" \in Faults
DiskMayFail == ~storage \/ "disk" \in Faults

\* requireMetadata and requireStorage of internal/httpapi/router.go.
Accepting == server = "serving" /\ gate /\ storage

PlaneInit ==
  /\ files = InitialFiles
  /\ trash = [t \in TrashIds |-> EmptyTree]
  /\ rows = InitialFiles
  /\ hidden = [t \in TrashIds |-> EmptyTree]
  /\ reason = Healthy
  /\ storage = TRUE
  /\ server = "down"
  /\ gate = FALSE
  /\ op = Idle

PlaneTypeOK ==
  /\ files \in Trees /\ rows \in Trees
  /\ trash \in [TrashIds -> Trees] /\ hidden \in [TrashIds -> Trees]
  /\ reason \in Reasons
  /\ storage \in BOOLEAN /\ gate \in BOOLEAN
  /\ server \in {"down", "refused", "starting", "serving", "stopping"}
  /\ op \in Ops

\* Mutant of MarkIndexUnhealthy: the repair context is cancelled with the request.
MarkForgotten == At("mark") /\ UNCHANGED reason /\ Done

\* MarkUnhealthy after a failed commit, in a repair context of its own.
MarkIndexUnhealthy ==
  /\ At("mark")
  /\ \/ reason' = Marked(op.reason)
     \/ "mark" \in Faults /\ UNCHANGED reason
  /\ Done
=============================================================================
