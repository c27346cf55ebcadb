------------------------------ MODULE FileIndex ------------------------------
(***************************************************************************)
(* The metadata index of internal/files/index_repository.go: the rows of   *)
(* the active generation and the singleton row file_index_state with the   *)
(* health of the index.  Each operator is what one SQL transaction reads   *)
(* or writes.                                                              *)
(***************************************************************************)
EXTENDS Namespace

CONSTANTS
  TrashIds,  \* identifiers of trash entries
  Uploads,   \* identifiers of uploads
  NoId       \* the identifier of a reason that names no object

VARIABLES
  rows,      \* active rows (trash_entry_id IS NULL), as a tree
  hidden,    \* hidden[t]: the rows kept for trash entry t
  reason     \* Healthy, or why the index is unhealthy

indexVars == <<rows, hidden, reason>>

\* file_index_state.unhealthy_reason; healthy = 1 is the kind "healthy".
Reason(kind, id) == [kind |-> kind, id |-> id]
Reasons == [kind : {"healthy", "multiple", "mkdir-pending", "move-pending",
                    "trash", "restore", "upload",
                    "download-open", "download-metadata"},
            id : TrashIds \cup Uploads \cup {NoId}]

Healthy  == Reason("healthy", NoId)
Multiple == Reason("multiple", NoId)

\* activeGeneration and activeGenerationForRepair.
UsableIndex == reason = Healthy
UsableForRepair(r) == reason \in {Healthy, r}

\* Mutant of Cleared: a repair clears the reason of somebody else.
ClearedAny(r) == Healthy

\* MarkUnhealthy and ClearHealthReasonInTransaction / ClearMutation: a
\* second reason is folded into "multiple", which no repair owns.
Marked(r)  == IF reason \in {Healthy, r} THEN r ELSE Multiple
Cleared(r) == IF reason = r THEN Healthy ELSE reason

\* MoveSubtreeWithAuditAndRepair: source row, parent row and destination row.
RowsCanMove(src, dst) ==
  /\ rows[src] # Absent
  /\ IsFree(rows, dst)

\* The partial unique index on active paths: rows kept for t may become
\* active again.
NoActiveClash(t) ==
  \A q \in Paths : hidden[t][q] # Absent => rows[q] = Absent
=============================================================================
