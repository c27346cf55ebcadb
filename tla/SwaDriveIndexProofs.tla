------------------------- MODULE SwaDriveIndexProofs -------------------------
(***************************************************************************)
(* Proofs about the metadata index of the server: an index that calls      *)
(* itself healthy tells the truth, whenever a request may read it, when    *)
(* nothing waits for a repair, and when a startup opens the gate.          *)
(*                                                                         *)
(* The inductive invariant is IndexInv of SwaDriveInvariant.  It holds for *)
(* every tree, every number of uploads, trash entries and downloads, and   *)
(* every set of faults without "mark": what a failed second transaction    *)
(* leaves behind is not written down anywhere.                             *)
(***************************************************************************)
EXTENDS SwaDriveProofs

MoveDone == {"move-index", "move-undo"}
MkdirDone == {"mkdir-index", "mkdir-undo"}

LEMMA ShowsPointwise ==
  ASSUME NEW index, NEW disk
  PROVE  Shows(index, disk) <=> \A p \in Paths : ShowsAt(index, disk, p)
  BY DEF Shows, ShowsAt

(***************************************************************************)
(* Steps that do not touch what is out, nor the trees: they leave the      *)
(* relation between the index and the disk alone.                          *)
(***************************************************************************)

QuietEntry(t) ==
  \/ trashState'[t] = trashState[t] /\ trashPath'[t] = trashPath[t]
  \/ /\ trashState[t] \in {"none", "trashing"} /\ trashState'[t] \in {"none", "trashing"}
     /\ trash[t] = EmptyTree
  \/ /\ trashState[t] \in {"trashed", "restoring"} /\ trashState'[t] \in {"trashed", "restoring"}
     /\ trash[t] # EmptyTree /\ trashPath'[t] = trashPath[t]

QuietUpload(u) ==
  \/ status'[u] = status[u] /\ part'[u] = part[u] /\ target'[u] = target[u]
  \/ status[u] = "none" /\ status'[u] \in {"none", "pending"}
  \/ /\ status[u] = "pending" /\ target'[u] = target[u]
     /\ status'[u] # "completed" /\ (status'[u] = "finalizing" => part'[u])
  \/ /\ status[u] = "finalizing" /\ part[u] /\ target'[u] = target[u]
     /\ status'[u] \in {"pending", "finalizing"} /\ part'[u]

Quiet ==
  /\ UNCHANGED <<files, trash, rows, hidden>>
  /\ \A t \in TrashIds : QuietEntry(t)
  /\ \A u \in Uploads : QuietUpload(u)

LEMMA QuietOut ==
  ASSUME Quiet
  PROVE  /\ \A t \in TrashIds : /\ OutTrash(t)' <=> OutTrash(t)
                                /\ OutRestore(t)' <=> OutRestore(t)
                                /\ Out(t)' <=> Out(t)
                                /\ Stored(t)' <=> Stored(t)
                                /\ Out(t) => trashPath'[t] = trashPath[t]
         /\ \A u \in Uploads : /\ OutUpload(u)' <=> OutUpload(u)
                               /\ status[u] # "none" => target'[u] = target[u]
                               /\ status'[u] = "completed" => status[u] = "completed"
<1>1. ASSUME NEW t \in TrashIds
      PROVE  /\ OutTrash(t)' <=> OutTrash(t)
             /\ OutRestore(t)' <=> OutRestore(t)
             /\ Stored(t)' <=> Stored(t)
             /\ Out(t) => trashPath'[t] = trashPath[t]
  BY DEF Quiet, QuietEntry, OutTrash, OutRestore, Out, Stored
<1>2. ASSUME NEW u \in Uploads
      PROVE  /\ OutUpload(u)' <=> OutUpload(u)
             /\ status[u] # "none" => target'[u] = target[u]
             /\ status'[u] = "completed" => status[u] = "completed"
  BY DEF Quiet, QuietUpload, OutUpload
<1> QED
  BY <1>1, <1>2 DEF Out

\* Only the rows' own uploads matter to what an index shows.
LEMMA ShowsKept ==
  ASSUME RootIInv, \A u \in Uploads : status[u] # "none" => target'[u] = target[u],
         NEW index, NEW disk, NEW p \in Paths,
         disk[p] \in Contents => Visible(disk[p])
  PROVE  ShowsAt(index, disk, p) <=>
           \/ index[p] = disk[p]
           \/ index[p] = Absent /\ disk[p] \in Uploads /\ target'[disk[p]] \in Unindexable
<1>1. disk[p] \in Uploads => target'[disk[p]] = target[disk[p]]
  <2> SUFFICES ASSUME disk[p] \in Uploads PROVE target'[disk[p]] = target[disk[p]]
    OBVIOUS
  <2>1. Visible(disk[p])
    BY ContentPlaneAssumption
  <2>2. status[disk[p]] \in {"finalizing", "completed"}
    BY <2>1 DEF RootIInv, IInv, VisibleInv
  <2> QED
    BY <2>2
<1> QED
  BY <1>1 DEF ShowsAt

LEMMA VisibleIn ==
  /\ \A p \in Paths : files[p] \in Contents => Visible(files[p])
  /\ \A t \in TrashIds, p \in Paths : trash[t][p] \in Contents => Visible(trash[t][p])
  /\ \A src, dst : \A p \in Paths :
       Moved(files, src, dst)[p] \in Contents => Visible(Moved(files, src, dst)[p])
<1>1. /\ \A p \in Paths : files[p] \in Contents => Visible(files[p])
      /\ \A t \in TrashIds, p \in Paths : trash[t][p] \in Contents => Visible(trash[t][p])
  BY DEF Visible, InTree
<1>2. ASSUME NEW src, NEW dst, NEW p \in Paths, Moved(files, src, dst)[p] \in Contents
      PROVE  Visible(Moved(files, src, dst)[p])
  <2>1. Moved(files, src, dst)[p] # Absent
    BY <1>2, NamespaceAssumption
  <2>2. InTree(Moved(files, src, dst), Moved(files, src, dst)[p])
    BY DEF InTree
  <2> QED
    BY <2>1, <2>2, MovedShows DEF Visible
<1> QED
  BY <1>1, <1>2

LEMMA QuietIndex ==
  ASSUME RootIInv, IndexInv, Quiet, Hopeless => Hopeless',
         \/ Hopeless'
         \/ /\ op'.path = op.path /\ op'.dest = op.dest
            /\ op'.pc \in MoveDone <=> op.pc \in MoveDone
            /\ op'.pc \in MkdirDone <=> op.pc \in MkdirDone
         \/ op.pc \notin MoveDone \cup MkdirDone /\ op'.pc \notin MoveDone \cup MkdirDone
  PROVE  OutInv' /\ OneOut' /\ RowsInv' /\ HiddenInv'
<1>0. /\ UNCHANGED <<files, trash, rows, hidden>>
      /\ \A u \in Uploads : status[u] # "none" => target'[u] = target[u]
  BY QuietOut DEF Quiet
<1>1. OutInv'
  BY <1>0, QuietOut DEF IndexInv, OutInv, OutUpload
<1>2. OneOut'
  BY QuietOut DEF IndexInv, OneOut
<1>3. \A p \in Paths : ShowsAt(rows, files, p)' <=> ShowsAt(rows, files, p)
  BY <1>0, ShowsKept, VisibleIn DEF ShowsAt
<1>4. \A t \in TrashIds, p \in Paths :
        /\ ShowsAt(hidden[t], trash[t], p)' <=> ShowsAt(hidden[t], trash[t], p)
        /\ ShowsAt(rows, trash[t], p)' <=> ShowsAt(rows, trash[t], p)
        /\ ShowsAt(hidden[t], files, p)' <=> ShowsAt(hidden[t], files, p)
  BY <1>0, ShowsKept, VisibleIn DEF ShowsAt
<1>5. \A src, dst : \A p \in Paths :
        /\ ShowsAt(Moved(rows, src, dst), files, p)' <=> ShowsAt(Moved(rows, src, dst), files, p)
        /\ ShowsAt(rows, Moved(files, dst, src), p)' <=> ShowsAt(rows, Moved(files, dst, src), p)
  BY <1>0, ShowsKept, VisibleIn DEF ShowsAt
<1>6. \A index, p : RowIsDue(index, p)' <=> RowIsDue(index, p)
  BY <1>0, QuietOut DEF RowIsDue, OutUpload
<1>7. RowsInv'
  <2>1. CASE Hopeless'
    BY <2>1 DEF RowsInv
  <2>2. CASE ~Hopeless' /\ op.pc \in MoveDone
    <3>1. /\ op'.path = op.path /\ op'.dest = op.dest /\ op'.pc \in MoveDone
          /\ ~Hopeless
      BY <2>2
    <3>2. /\ \A p \in Paths : ShowsAt(Moved(rows, op.path, op.dest), files, p)
          /\ \A p \in Paths : ShowsAt(rows, Moved(files, op.dest, op.path), p)
      BY <2>2, <3>1, ShowsPointwise DEF IndexInv, RowsInv, MoveDone
    <3>3. /\ Shows(Moved(rows, op.path, op.dest), files)'
          /\ Shows(rows, Moved(files, op.dest, op.path))'
      BY <1>5, <3>1, <3>2 DEF Shows, ShowsAt
    <3> QED
      BY <3>1, <3>3 DEF RowsInv, MoveDone
  <2>3. CASE ~Hopeless' /\ op.pc \notin MoveDone
    <3>1. /\ ~Hopeless /\ op'.pc \notin MoveDone
          /\ op'.pc \in MkdirDone => op.pc \in MkdirDone /\ op'.path = op.path
          /\ op.pc \in MkdirDone => op'.pc \in MkdirDone /\ op'.path = op.path
      BY <2>3
    <3>2. /\ op.pc \in MkdirDone => rows[op.path] = Absent
          /\ \A p \in Paths :
               \/ ShowsAt(rows, files, p)
               \/ \E t \in TrashIds : Out(t) /\ p \in Below(trashPath[t])
               \/ RowIsDue(rows, p)
               \/ op.pc \in MkdirDone /\ p = op.path
      BY <2>3, <3>1 DEF IndexInv, RowsInv, MoveDone, MkdirDone
    <3>3. ASSUME NEW p \in Paths, \E t \in TrashIds : Out(t) /\ p \in Below(trashPath[t])
          PROVE  \E t \in TrashIds : Out(t)' /\ p \in Below(trashPath'[t])
      BY <3>3, QuietOut
    <3>4. \A p \in Paths :
            \/ ShowsAt(rows, files, p)'
            \/ \E t \in TrashIds : Out(t)' /\ p \in Below(trashPath'[t])
            \/ RowIsDue(rows, p)'
            \/ op'.pc \in MkdirDone /\ p = op'.path
      BY <1>0, <1>3, <1>6, <3>1, <3>2, <3>3
    <3> QED
      BY <1>0, <3>1, <3>2, <3>4 DEF RowsInv, MoveDone, MkdirDone
  <2> QED
    BY <2>1, <2>2, <2>3
<1>8. HiddenInv'
  <2> SUFFICES ASSUME NEW t \in TrashIds
               PROVE  /\ \A p \in Paths : hidden'[t][p] # Absent => p \in Below(trashPath'[t])
                      /\ trashState'[t] \in {"none", "trashing"} => hidden'[t] = EmptyTree
                      /\ ~Hopeless' =>
                           /\ Stored(t)' => Shows(hidden[t], trash[t])'
                           /\ OutTrash(t)' => \A p \in Below(trashPath'[t]) :
                                ShowsAt(rows, trash[t], p)'
                           /\ OutRestore(t)' => \A p \in Below(trashPath'[t]) :
                                /\ rows'[p] = Absent
                                /\ ShowsAt(hidden[t], files, p)' \/ RowIsDue(hidden[t], p)'
    BY DEF HiddenInv
  <2>0. /\ \A p \in Paths : hidden[t][p] # Absent => p \in Below(trashPath[t])
        /\ trashState[t] \in {"none", "trashing"} => hidden[t] = EmptyTree
        /\ ~Hopeless =>
             /\ Stored(t) => Shows(hidden[t], trash[t])
             /\ OutTrash(t) => \A p \in Below(trashPath[t]) : ShowsAt(rows, trash[t], p)
             /\ OutRestore(t) => \A p \in Below(trashPath[t]) :
                  /\ rows[p] = Absent
                  /\ ShowsAt(hidden[t], files, p) \/ RowIsDue(hidden[t], p)
    BY DEF IndexInv, HiddenInv
  <2>1. /\ trashState'[t] \in {"none", "trashing"} => hidden'[t] = EmptyTree
        /\ \A p \in Paths : hidden'[t][p] # Absent => p \in Below(trashPath'[t])
    BY <1>0, <2>0 DEF Quiet, QuietEntry, EmptyTree
  <2>2. ASSUME ~Hopeless', Stored(t)' PROVE Shows(hidden[t], trash[t])'
    <3>1. \A p \in Paths : ShowsAt(hidden[t], trash[t], p)
      BY <2>0, <2>2, QuietOut, ShowsPointwise
    <3> QED
      BY <1>4, <3>1 DEF Shows, ShowsAt
  <2>3. ASSUME ~Hopeless', OutTrash(t)', NEW p \in Below(trashPath'[t])
        PROVE  ShowsAt(rows, trash[t], p)'
    BY <1>4, <2>0, <2>3, QuietOut DEF Out, Below
  <2>4. ASSUME ~Hopeless', OutRestore(t)', NEW p \in Below(trashPath'[t])
        PROVE  rows'[p] = Absent /\ (ShowsAt(hidden[t], files, p)' \/ RowIsDue(hidden[t], p)')
    <3>1. /\ rows[p] = Absent
          /\ ShowsAt(hidden[t], files, p) \/ RowIsDue(hidden[t], p)
      BY <2>0, <2>4, QuietOut DEF Out
    <3>2. p \in Paths
      BY <2>4 DEF Below
    <3>3. ShowsAt(hidden[t], files, p) => ShowsAt(hidden[t], files, p)'
      BY <1>4, <3>2
    <3>4. RowIsDue(hidden[t], p) => RowIsDue(hidden[t], p)'
      BY <1>0, <1>6 DEF RowIsDue
    <3> QED
      BY <1>0, <3>1, <3>3, <3>4
  <2> QED
    BY <2>1, <2>2, <2>3, <2>4
<1> QED
  BY <1>1, <1>2, <1>7, <1>8

(***************************************************************************)
(* The reason of the index and the operation: a reason that only a reindex *)
(* clears stays, and an open gate with a healthy index knows of nothing    *)
(* that is out.                                                            *)
(***************************************************************************)

RepairReasons ==
  {TrashReason(t) : t \in TrashIds} \cup {RestoreReason(t) : t \in TrashIds}
    \cup {UploadReason(u) : u \in Uploads}

DownloadReasons == {Reason("download-open", NoId), Reason("download-metadata", NoId)}

LEMMA Kinds ==
  /\ Healthy.kind = "healthy" /\ Multiple.kind = "multiple"
  /\ MkdirReason.kind = "mkdir-pending" /\ MoveReason.kind = "move-pending"
  /\ \A t \in TrashIds : TrashReason(t).kind = "trash" /\ RestoreReason(t).kind = "restore"
  /\ \A u \in Uploads : UploadReason(u).kind = "upload"
  /\ \A r \in DownloadReasons : r.kind \in {"download-open", "download-metadata"}
  /\ Idle.pc = "idle" /\ Idle.reason = Healthy
  BY DEF Healthy, Multiple, MkdirReason, MoveReason, TrashReason, RestoreReason, UploadReason,
         DownloadReasons, Reason, Idle, Step

LEMMA HopelessStays ==
  ASSUME Hopeless,
         \/ UNCHANGED reason /\ op'.reason \in {op.reason, Healthy} \cup RepairReasons
         \/ op' = Idle /\ reason' = Cleared(op.reason) /\ op.reason.kind # "multiple"
              /\ op.reason.kind # "download-open" /\ op.reason.kind # "download-metadata"
         \/ op' = Idle /\ reason' = Marked(op.reason)
         \/ /\ op'.reason \in {op.reason, Healthy}
            /\ \E r \in RepairReasons : reason' \in {Cleared(r), Marked(r)}
  PROVE  Hopeless'
<1>1. \A r \in RepairReasons : r.kind \in {"trash", "restore", "upload"}
  BY Kinds DEF RepairReasons
<1> QED
  BY <1>1, Kinds DEF Hopeless, Cleared, Marked

LEMMA MarkedByDownload ==
  ASSUME NEW r \in DownloadReasons, reason' = Marked(r)
  PROVE  Hopeless' /\ reason'.kind \in {"multiple", "download-open", "download-metadata"}
  BY Kinds DEF Marked, Hopeless

LEMMA IdleReason ==
  ASSUME op = Idle
  PROVE  /\ \A t \in TrashIds : op.reason # TrashReason(t) /\ op.reason # RestoreReason(t)
         /\ \A u \in Uploads : ~Completing(u)
         /\ op.reason # MkdirReason /\ op.reason # MoveReason
         /\ op.pc \notin MoveDone \cup MkdirDone
  BY Kinds, IdleCompletesNothing, FileReasonsDiffer DEF MoveDone, MkdirDone

LEMMA NothingOut ==
  ASSUME IndexInv, gate, op = Idle, UsableIndex
  PROVE  (\A t \in TrashIds : ~Out(t)) /\ (\A u \in Uploads : ~OutUpload(u))
<1>1. OutIsRecorded /\ reason = Healthy /\ reason.kind = "healthy"
  BY Kinds DEF IndexInv, UsableIndex
<1> QED
  BY <1>1, IdleReason, ReasonsDiffer DEF OutIsRecorded, Out

LEMMA TruthOfIdle ==
  ASSUME RootIInv, IndexInv, gate, op = Idle, UsableIndex
  PROVE  /\ Shows(rows, files)
         /\ \A t \in TrashIds : Stored(t) => Shows(hidden[t], trash[t])
<1>1. ~Hopeless
  BY Kinds DEF UsableIndex, Hopeless
<1>2. /\ \A t \in TrashIds : ~Out(t)
      /\ \A u \in Uploads : ~OutUpload(u)
  BY NothingOut
<1>3. \A p \in Paths : ShowsAt(rows, files, p)
  BY <1>1, <1>2, IdleReason DEF IndexInv, RowsInv, RowIsDue, MoveDone, MkdirDone
<1> QED
  BY <1>1, <1>3, ShowsPointwise DEF IndexInv, HiddenInv

\* No step of the operation, the reason or the gate.
LEMMA SameOpIndex ==
  ASSUME RootIInv, IndexInv, Quiet, UNCHANGED <<op, reason, gate>>,
         server' \in {"down", "refused", "starting"} => ~gate
  PROVE  IndexInv'
<1>1. OutInv' /\ OneOut' /\ RowsInv' /\ HiddenInv'
  BY QuietIndex DEF Hopeless
<1>2. GateInv' /\ FileOpInv' /\ OutIsRecorded'
  <2>1. GateInv'
    BY DEF IndexInv, GateInv
  <2>2. FileOpInv'
    BY QuietOut DEF IndexInv, FileOpInv
  <2>3. OutIsRecorded'
    BY QuietOut DEF IndexInv, OutIsRecorded, Completing
  <2> QED
    BY <2>1, <2>2, <2>3
<1> QED
  BY <1>1, <1>2 DEF IndexInv

\* The next step of an operation.
LEMMA GotoIndex ==
  ASSUME RootIInv, IndexInv, Quiet, NEW c, Goto(c), UNCHANGED <<reason, gate, server>>,
         op.pc # "idle",
         op.pc \in MoveDone <=> c \in MoveDone,
         op.pc \in MkdirDone <=> c \in MkdirDone,
         c = "mark" => op.reason \notin {MkdirReason, MoveReason},
         c = "clear" => op.reason \in {MkdirReason, MoveReason},
         c \notin {"mkdir", "move"},
         op.pc \in {"complete", "mark"} => c \in {"complete", "mark"}
  PROVE  IndexInv'
<1>0. /\ op \in Ops /\ op # Idle
      /\ FileOpInv /\ GateInv /\ OutIsRecorded
  BY Kinds DEF RootIInv, IInv, TypeOK, PlaneTypeOK, IndexInv
<1>1. op'.pc = c /\ op'.path = op.path /\ op'.dest = op.dest /\ op'.reason = op.reason
  BY <1>0, GotoFields
<1>2. OutInv' /\ OneOut' /\ RowsInv' /\ HiddenInv'
  BY <1>1, QuietIndex DEF Hopeless
<1>3. GateInv'
  BY <1>0 DEF GateInv
<1>4. FileOpInv'
  BY <1>0, <1>1, QuietOut DEF FileOpInv, MoveDone, MkdirDone
<1>5. OutIsRecorded'
  BY <1>0, <1>1, QuietOut DEF OutIsRecorded, Completing
<1> QED
  BY <1>2, <1>3, <1>4, <1>5 DEF IndexInv

\* The end of an operation, or of the process.
LEMMA EndIndex ==
  ASSUME RootIInv, IndexInv, Quiet, op' = Idle,
         Hopeless => Hopeless',
         Hopeless' \/ op.pc \notin MoveDone \cup MkdirDone,
         server' \in {"down", "refused", "starting"} => ~gate',
         OutIsRecorded'
  PROVE  IndexInv'
<1>0. /\ op'.pc \notin MoveDone \cup MkdirDone /\ op'.pc = "idle" /\ op'.reason = Healthy
  BY Kinds DEF MoveDone, MkdirDone
<1>1. OutInv' /\ OneOut' /\ RowsInv' /\ HiddenInv'
  BY <1>0, QuietIndex
<1>2. GateInv'
  BY DEF GateInv
<1>3. FileOpInv'
  BY <1>0, FileReasonsDiffer DEF FileOpInv
<1> QED
  BY <1>1, <1>2, <1>3 DEF IndexInv

(***************************************************************************)
(* Requests to the file service, and downloads.                            *)
(***************************************************************************)

LEMMA BeginIndex ==
  ASSUME RootIInv, IndexInv, Quiet, Accepting, op = Idle, UsableIndex, UNCHANGED <<server, gate>>,
         \/ op'.pc = "mkdir" /\ op'.reason = MkdirReason /\ reason' = MkdirReason
         \/ op'.pc = "move" /\ op'.reason = MoveReason /\ reason' = MoveReason
         \/ /\ op'.pc \in {"trash", "restore"} /\ UNCHANGED reason
            /\ \E t \in TrashIds : op'.reason \in {TrashReason(t), RestoreReason(t)}
  PROVE  IndexInv'
<1>0. /\ ~Hopeless /\ reason.kind = "healthy"
      /\ op'.pc \notin MoveDone \cup MkdirDone /\ op.pc \notin MoveDone \cup MkdirDone
      /\ gate
  BY IdleReason, Kinds DEF UsableIndex, Hopeless, MoveDone, MkdirDone, Accepting
<1>1. OutInv' /\ OneOut' /\ RowsInv' /\ HiddenInv'
  BY <1>0, QuietIndex
<1>2. GateInv'
  BY DEF GateInv, Accepting
<1>3. /\ \A t \in TrashIds : ~Out(t)'
      /\ \A u \in Uploads : ~OutUpload(u)'
  BY <1>0, NothingOut, QuietOut
<1>4. FileOpInv'
  BY <1>0, <1>3, FileReasonsDiffer DEF FileOpInv
<1>5. OutIsRecorded'
  BY <1>3 DEF OutIsRecorded, Out
<1> QED
  BY <1>1, <1>2, <1>4, <1>5 DEF IndexInv

LEMMA FilesRequestIndex ==
  ASSUME RootIInv, IndexInv, FilesRequest \/ Download, UNCHANGED uploadsVars
  PROVE  IndexInv'
<1>0. /\ TrashInv /\ trashState \in [TrashIds -> TrashStates]
      /\ trashPath \in [TrashIds -> Paths \cup {Root}]
      /\ \A u \in Uploads : QuietUpload(u)
  BY DEF RootIInv, RootInv, IInv, TypeOK, FilesTypeOK, QuietUpload, uploadsVars
<1>1. ASSUME NEW c, NEW p, NEW q, NEW r, BeginMutation(c, p, q, r),
             \/ c = "mkdir" /\ r = MkdirReason
             \/ c = "move" /\ r = MoveReason
      PROVE  IndexInv'
  <2>1. Quiet
    BY <1>0, <1>1 DEF BeginMutation, Quiet, QuietEntry, filesVars
  <2>2. op'.pc = c /\ op'.reason = r
    BY <1>1 DEF BeginMutation, Step
  <2> QED
    BY <1>1, <2>1, <2>2, BeginIndex DEF BeginMutation
<1>2. ASSUME NEW t \in TrashIds, NEW p \in Paths, PrepareTrash(t, p)
      PROVE  IndexInv'
  <2>1. Quiet
    BY <1>0, <1>2 DEF PrepareTrash, Quiet, QuietEntry, TrashInv, indexVars
  <2>2. op'.pc = "trash" /\ op'.reason = TrashReason(t)
    BY <1>2 DEF PrepareTrash, Step
  <2> QED
    BY <1>2, <2>1, <2>2, BeginIndex DEF PrepareTrash, indexVars
<1>3. ASSUME NEW t \in TrashIds, BeginRestore(t)
      PROVE  IndexInv'
  <2>1. Quiet
    BY <1>0, <1>3 DEF BeginRestore, Quiet, QuietEntry, TrashInv, indexVars
  <2>2. op'.pc = "restore" /\ op'.reason = RestoreReason(t)
    BY <1>3 DEF BeginRestore, Step
  <2> QED
    BY <1>3, <2>1, <2>2, BeginIndex DEF BeginRestore, indexVars
<1>4. CASE Download
  <2>1. /\ UNCHANGED <<files, trash, storage, server, gate, op, rows, hidden, trashState, trashPath>>
        /\ UNCHANGED reason \/ \E r \in DownloadReasons : reason' = Marked(r)
    BY <1>4 DEF Download, Lookup, OpenFile, MarkDownload, planeVars, indexVars, DownloadReasons
  <2>2. Quiet
    BY <1>0, <2>1 DEF Quiet, QuietEntry
  <2>3. CASE UNCHANGED reason
    BY <2>1, <2>2, <2>3, SameOpIndex DEF IndexInv, GateInv
  <2>4. ASSUME NEW r \in DownloadReasons, reason' = Marked(r)
        PROVE  IndexInv'
    <3>1. Hopeless' /\ reason'.kind \in {"multiple", "download-open", "download-metadata"}
      BY <2>4, MarkedByDownload
    <3>2. OutInv' /\ OneOut' /\ RowsInv' /\ HiddenInv'
      BY <2>2, <3>1, QuietIndex
    <3>3. GateInv' /\ OutIsRecorded'
      BY <2>1, <3>1 DEF IndexInv, GateInv, OutIsRecorded
    <3>4. FileOpInv'
      <4>1. reason \in {MkdirReason, MoveReason, Multiple} => reason' = Multiple
        BY <2>4, Kinds DEF Marked
      <4> QED
        BY <2>1, <2>2, <3>1, <4>1, QuietOut, FileReasonsDiffer DEF IndexInv, FileOpInv
    <3> QED
      BY <3>2, <3>3, <3>4 DEF IndexInv
  <2> QED
    BY <2>1, <2>3, <2>4
<1> QED
  BY <1>1, <1>2, <1>3, <1>4 DEF FilesRequest, CreateDirectory, Move

(***************************************************************************)
(* Mkdir and move: nothing is out while they run.                          *)
(***************************************************************************)

LEMMA FileOpFrame ==
  ASSUME RootIInv, IndexInv, op.reason \in {MkdirReason, MoveReason},
         UNCHANGED <<trash, hidden, trashState, trashPath, status, part, target, gate, server>>,
         \/ op' = Idle /\ (Hopeless => Hopeless')
         \/ /\ UNCHANGED reason
            /\ \E c : /\ Goto(c)
                      /\ c \in {"mkdir-index", "mkdir-undo"} => op.reason = MkdirReason
                      /\ c \in {"move-index", "move-undo"} => op.reason = MoveReason
                      /\ c \notin {"mkdir", "move", "mark"}
  PROVE  /\ OutInv' /\ GateInv' /\ FileOpInv' /\ OutIsRecorded' /\ OneOut' /\ HiddenInv'
         /\ \A t \in TrashIds : ~Out(t) /\ ~Out(t)'
         /\ \A u \in Uploads : ~OutUpload(u) /\ ~OutUpload(u)'
<1>0. /\ op \in Ops /\ FileOpInv /\ GateInv /\ HiddenInv /\ OutInv
      /\ Hopeless => Hopeless'
      /\ op # Idle
  <2>1. op # Idle
    BY IdleReason
  <2>2. Hopeless => Hopeless'
    BY HopelessStays, GotoFields DEF RootIInv, IInv, TypeOK, PlaneTypeOK
  <2> QED
    BY <2>1, <2>2 DEF RootIInv, IInv, TypeOK, PlaneTypeOK, IndexInv
<1>1. /\ \A t \in TrashIds : ~Out(t) /\ ~Out(t)'
      /\ \A u \in Uploads : ~OutUpload(u) /\ ~OutUpload(u)'
  BY <1>0 DEF FileOpInv, Out, OutTrash, OutRestore, OutUpload
<1>2. OutInv' /\ OneOut' /\ OutIsRecorded' /\ GateInv'
  BY <1>0, <1>1 DEF OutInv, OneOut, OutIsRecorded, Out, GateInv
<1>3. FileOpInv'
  <2>1. CASE op' = Idle
    BY <2>1, Kinds, FileReasonsDiffer DEF FileOpInv
  <2>2. ASSUME NEW c, Goto(c), UNCHANGED reason,
               c \in {"mkdir-index", "mkdir-undo"} => op.reason = MkdirReason,
               c \in {"move-index", "move-undo"} => op.reason = MoveReason,
               c \notin {"mkdir", "move", "mark"}
        PROVE  FileOpInv'
    <3>1. op'.pc = c /\ op'.reason = op.reason
      BY <1>0, <2>2, GotoFields
    <3> QED
      BY <1>0, <1>1, <2>2, <3>1, FileReasonsDiffer DEF FileOpInv
  <2> QED
    BY <2>1, <2>2
<1>4. HiddenInv'
  <2>1. ASSUME NEW t \in TrashIds, ~Hopeless', Stored(t)' PROVE Shows(hidden[t], trash[t])'
    BY <1>0, <2>1 DEF HiddenInv, Stored, Shows
  <2>2. ASSUME NEW t \in TrashIds PROVE ~OutTrash(t)' /\ ~OutRestore(t)'
    BY <1>1 DEF Out
  <2> QED
    BY <1>0, <2>1, <2>2 DEF HiddenInv
<1> QED
  BY <1>1, <1>2, <1>3, <1>4

\* Moving both trees keeps what one shows of the other.
LEMMA MovedShowsAt ==
  ASSUME NEW index, NEW disk, \A p \in Paths : ShowsAt(index, disk, p),
         NEW src \in Paths, NEW dst \in Paths, NEW p \in Paths
  PROVE  ShowsAt(Moved(index, src, dst), Moved(disk, src, dst), p)
<1>1. CASE p \in Below(dst) /\ Rebase(p, dst, src) \in Paths
  <2>1. /\ Moved(index, src, dst)[p] = index[Rebase(p, dst, src)]
        /\ Moved(disk, src, dst)[p] = disk[Rebase(p, dst, src)]
    BY <1>1 DEF Moved
  <2>2. ShowsAt(index, disk, Rebase(p, dst, src))
    BY <1>1
  <2> QED
    BY <2>1, <2>2 DEF ShowsAt
<1>2. CASE ~(p \in Below(dst) /\ Rebase(p, dst, src) \in Paths)
  <2>1. /\ Moved(index, src, dst)[p] = IF p \in Below(src) THEN Absent ELSE index[p]
        /\ Moved(disk, src, dst)[p] = IF p \in Below(src) THEN Absent ELSE disk[p]
    BY <1>2 DEF Moved
  <2>2. ShowsAt(index, disk, p)
    OBVIOUS
  <2> QED
    BY <2>1, <2>2 DEF ShowsAt
<1> QED
  BY <1>1, <1>2

LEMMA MkdirAndMoveIndex ==
  ASSUME RootIInv, IndexInv, UNCHANGED uploadsVars,
         \/ MkdirOnDisk \/ MkdirIndex \/ MkdirUndo \/ ClearMutation
         \/ MoveOnDisk \/ MoveIndex \/ MoveUndo
  PROVE  IndexInv'
<1>0. /\ op \in Ops /\ files \in Trees /\ rows \in Trees
      /\ WellFormed(files) /\ MkdirAndMoveInv /\ FileOpInv
      /\ Dir \notin Contents /\ Absent \notin Contents /\ Dir # Absent
      /\ \A u \in Uploads : u \in Contents
  BY NamespaceAssumption, ContentPlaneAssumption
     DEF RootIInv, RootInv, IInv, TypeOK, PlaneTypeOK, IndexInv
<1>1. /\ UNCHANGED <<trash, hidden, trashState, trashPath, status, part, target, gate, server>>
      /\ op.reason \in {MkdirReason, MoveReason} /\ reason \in {op.reason, Multiple}
      /\ op.pc \in {"mkdir", "mkdir-index", "mkdir-undo"} => op.reason = MkdirReason
      /\ op.pc \in {"move", "move-index", "move-undo"} => op.reason = MoveReason
  BY <1>0 DEF MkdirOnDisk, MkdirIndex, MkdirUndo, ClearMutation, MoveOnDisk, MoveIndex,
              MoveUndo, filesVars, uploadsVars, indexVars, At, FileOpInv
<1>2. Hopeless <=> reason = Multiple
  BY <1>1, Kinds DEF Hopeless
<1>3. /\ \A t \in TrashIds : ~Out(t)
      /\ \A u \in Uploads : ~OutUpload(u)
  BY <1>0, <1>1 DEF FileOpInv
\* The rows and the disk before the step.
<1>4. ASSUME ~Hopeless, op.pc \notin MoveDone
      PROVE  /\ op.pc \in MkdirDone => rows[op.path] = Absent
             /\ \A p \in Paths : ShowsAt(rows, files, p) \/ (op.pc \in MkdirDone /\ p = op.path)
  BY <1>3, <1>4 DEF IndexInv, RowsInv, RowIsDue, MoveDone, MkdirDone
<1>5. ASSUME ~Hopeless, op.pc \in MoveDone
      PROVE  /\ \A p \in Paths : ShowsAt(Moved(rows, op.path, op.dest), files, p)
             /\ \A p \in Paths : ShowsAt(rows, Moved(files, op.dest, op.path), p)
  BY <1>5, ShowsPointwise DEF IndexInv, RowsInv, MoveDone
\* What is left to show of a step, and of the usual failures.
<1>6. ASSUME RowsInv', Done, Hopeless => Hopeless' PROVE IndexInv'
  BY <1>1, <1>6, FileOpFrame DEF IndexInv, Done
<1>7. ASSUME NEW c, RowsInv', Goto(c), UNCHANGED reason,
             c \in {"mkdir-index", "mkdir-undo"} => op.reason = MkdirReason,
             c \in {"move-index", "move-undo"} => op.reason = MoveReason,
             c \notin {"mkdir", "move", "mark"}
      PROVE  IndexInv'
  BY <1>1, <1>7, FileOpFrame DEF IndexInv
<1>8. ASSUME Done, UNCHANGED reason PROVE RowsInv' /\ (Hopeless => Hopeless')
  <2>1. Hopeless'
    BY <1>1, <1>8, Kinds DEF Done, Hopeless
  <2> QED
    BY <2>1 DEF RowsInv
<1>9. ASSUME NEW c, Goto(c), UNCHANGED reason PROVE Hopeless <=> Hopeless'
  BY <1>0, <1>9, GotoFields DEF Hopeless
<1>10. ASSUME Done, ~Hopeless', \A p \in Paths : ShowsAt(rows, files, p)' PROVE RowsInv'
  BY <1>10, Kinds DEF RowsInv, Done, MoveDone
<1>11. ASSUME Goto("clear"), UNCHANGED reason,
              ~Hopeless => \A p \in Paths : ShowsAt(rows, files, p)'
       PROVE  IndexInv'
  <2>1. op'.pc = "clear"
    BY <1>0, <1>11, GotoFields
  <2>2. RowsInv'
    BY <1>9, <1>11, <2>1 DEF RowsInv
  <2> QED
    BY <1>7, <1>11, <2>2
<1>12. CASE MkdirOnDisk
  <2>0. op.pc = "mkdir" /\ UNCHANGED <<rows, reason>>
    BY <1>12 DEF MkdirOnDisk, At, indexVars
  <2>1. CASE Goto("clear") /\ UNCHANGED files
    BY <1>1, <1>4, <1>11, <2>0, <2>1 DEF MoveDone, MkdirDone, ShowsAt
  <2>2. ASSUME NEW c \in MkdirDone, Goto(c), IsFree(files, op.path),
               files' = Put(files, op.path, Dir)
        PROVE  IndexInv'
    <3>1. /\ op'.pc = c /\ op'.path = op.path /\ op'.reason = op.reason
          /\ op.path \in Paths /\ files[op.path] = Absent
          /\ \A p \in Paths : files'[p] = IF p = op.path THEN Dir ELSE files[p]
      BY <1>0, <2>0, <2>2, GotoFields DEF MkdirAndMoveInv, IsFree, Put, Trees
    <3>2. ASSUME ~Hopeless
          PROVE  /\ rows'[op.path] = Absent
                 /\ \A p \in Paths : ShowsAt(rows, files, p)' \/ p = op.path
      BY <1>0, <1>1, <1>4, <2>0, <3>1, <3>2 DEF ShowsAt, MkdirDone, MoveDone
    <3>3. RowsInv'
      BY <1>9, <2>0, <2>2, <3>1, <3>2 DEF RowsInv, MkdirDone
    <3> QED
      BY <1>1, <1>7, <2>0, <2>2, <3>3 DEF MkdirDone
  <2> QED
    BY <1>12, <2>1, <2>2 DEF MkdirOnDisk, MkdirDone
<1>13. CASE MkdirIndex
  <2>0. op.pc = "mkdir-index" /\ UNCHANGED files
    BY <1>13 DEF MkdirIndex, At
  <2>1. CASE /\ UsableForRepair(op.reason) /\ Done /\ reason' = Cleared(op.reason)
             /\ rows' = Put(rows, op.path, Dir)
    <3>1. ~Hopeless /\ reason' = Healthy /\ ~Hopeless'
      BY <1>1, <1>2, <2>1, Kinds, FileReasonsDiffer DEF UsableForRepair, Cleared, Hopeless
    <3>2. /\ op.path \in Paths /\ files[op.path] = Dir
          /\ \A p \in Paths : rows'[p] = IF p = op.path THEN Dir ELSE rows[p]
      BY <1>0, <2>0, <2>1 DEF MkdirAndMoveInv, Put, Trees
    <3>3. \A p \in Paths : ShowsAt(rows, files, p)'
      BY <1>1, <1>4, <2>0, <3>1, <3>2 DEF ShowsAt, MkdirDone, MoveDone
    <3> QED
      BY <1>6, <1>10, <2>1, <3>1, <3>3
  <2>2. CASE Goto("mkdir-undo") /\ UNCHANGED <<rows, reason>>
    <3>1. op'.pc = "mkdir-undo" /\ op'.path = op.path
      BY <1>0, <2>2, GotoFields
    <3>2. ASSUME ~Hopeless
          PROVE  /\ rows'[op.path] = Absent
                 /\ \A p \in Paths : ShowsAt(rows, files, p)' \/ p = op.path
      BY <1>1, <1>4, <2>0, <2>2, <3>2 DEF ShowsAt, MkdirDone, MoveDone
    <3>3. RowsInv'
      BY <1>9, <2>2, <3>1, <3>2 DEF RowsInv
    <3> QED
      BY <1>1, <1>7, <2>0, <2>2, <3>3
  <2> QED
    BY <1>13, <2>1, <2>2 DEF MkdirIndex
<1>14. CASE MkdirUndo
  <2>0. op.pc = "mkdir-undo" /\ UNCHANGED <<rows, reason>>
    BY <1>14 DEF MkdirUndo, At, indexVars
  <2>1. CASE UNCHANGED files /\ Done
    BY <1>6, <1>8, <2>0, <2>1
  <2>2. CASE files' = Put(files, op.path, Absent) /\ Goto("clear")
    <3>1. /\ op.path \in Paths
          /\ \A p \in Paths : files'[p] = IF p = op.path THEN Absent ELSE files[p]
      BY <1>0, <2>0, <2>2 DEF MkdirAndMoveInv, Put, Trees
    <3>2. ~Hopeless => \A p \in Paths : ShowsAt(rows, files, p)'
      BY <1>1, <1>4, <2>0, <3>1 DEF ShowsAt, MkdirDone, MoveDone
    <3> QED
      BY <1>11, <2>0, <2>2, <3>2
  <2> QED
    BY <1>14, <2>1, <2>2 DEF MkdirUndo
<1>15. CASE ClearMutation
  <2>0. op.pc = "clear" /\ UNCHANGED <<files, rows>> /\ Done
    BY <1>15 DEF ClearMutation, At
  <2>1. CASE UNCHANGED reason
    BY <1>6, <1>8, <2>0, <2>1
  <2>2. CASE reason' = Cleared(op.reason)
    <3>1. Hopeless => Hopeless'
      BY <1>1, <1>2, <2>2, Kinds, FileReasonsDiffer DEF Cleared, Hopeless
    <3>2. ~Hopeless => \A p \in Paths : ShowsAt(rows, files, p)'
      BY <1>1, <1>4, <2>0 DEF ShowsAt, MkdirDone, MoveDone
    <3>3. RowsInv'
      BY <1>10, <2>0, <3>1, <3>2 DEF RowsInv
    <3> QED
      BY <1>6, <2>0, <3>1, <3>3
  <2> QED
    BY <1>15, <2>1, <2>2 DEF ClearMutation
<1>16. CASE MoveOnDisk
  <2>0. op.pc = "move" /\ UNCHANGED <<rows, reason>>
    BY <1>16 DEF MoveOnDisk, At, indexVars
  <2>1. CASE UNCHANGED files /\ Goto("clear")
    BY <1>1, <1>4, <1>11, <2>0, <2>1 DEF MoveDone, MkdirDone, ShowsAt
  <2>2. CASE /\ CanRename(files, op.path, op.dest) /\ Goto("move-index")
             /\ files' = Moved(files, op.path, op.dest)
    <3>1. /\ op'.pc = "move-index" /\ op'.path = op.path /\ op'.dest = op.dest
          /\ op.path \in Paths /\ op.dest \in Paths /\ Fits(files, op.path, op.dest)
      BY <1>0, <2>0, <2>2, GotoFields DEF MkdirAndMoveInv
    <3>2. Moved(files', op.dest, op.path) = files
      BY <1>0, <2>2, <3>1, MovedBack
    <3>3. ASSUME ~Hopeless
          PROVE  /\ \A p \in Paths : ShowsAt(Moved(rows, op.path, op.dest), files', p)
                 /\ \A p \in Paths : ShowsAt(rows, files, p)
      <4>1. \A p \in Paths : ShowsAt(rows, files, p)
        BY <1>4, <2>0, <3>3 DEF MkdirDone, MoveDone
      <4>2. ASSUME NEW p \in Paths
            PROVE  ShowsAt(Moved(rows, op.path, op.dest), Moved(files, op.path, op.dest), p)
        BY <3>1, <4>1, MovedShowsAt
      <4> QED
        BY <2>2, <4>1, <4>2
    <3>4. ASSUME ~Hopeless
          PROVE  /\ Shows(Moved(rows, op.path, op.dest), files)'
                 /\ Shows(rows, Moved(files, op.dest, op.path))'
      BY <1>1, <2>0, <3>1, <3>2, <3>3, <3>4 DEF Shows, ShowsAt
    <3>5. RowsInv'
      BY <1>9, <2>0, <2>2, <3>1, <3>4 DEF RowsInv
    <3> QED
      BY <1>1, <1>7, <2>0, <2>2, <3>5
  <2> QED
    BY <1>16, <2>1, <2>2 DEF MoveOnDisk
<1>17. CASE MoveIndex
  <2>0. op.pc = "move-index" /\ UNCHANGED files
    BY <1>17 DEF MoveIndex, At
  <2>1. CASE /\ UsableForRepair(op.reason) /\ Done /\ reason' = Cleared(op.reason)
             /\ rows' = Moved(rows, op.path, op.dest)
    <3>1. ~Hopeless /\ reason' = Healthy /\ ~Hopeless'
      BY <1>1, <1>2, <2>1, Kinds, FileReasonsDiffer DEF UsableForRepair, Cleared, Hopeless
    <3>2. \A p \in Paths : ShowsAt(rows, files, p)'
      BY <1>1, <1>5, <2>0, <2>1, <3>1 DEF ShowsAt, MoveDone
    <3> QED
      BY <1>6, <1>10, <2>1, <3>1, <3>2
  <2>2. CASE Goto("move-undo") /\ UNCHANGED <<rows, reason>>
    <3>1. op'.pc = "move-undo" /\ op'.path = op.path /\ op'.dest = op.dest
      BY <1>0, <2>2, GotoFields
    <3>2. ASSUME ~Hopeless
          PROVE  /\ Shows(Moved(rows, op.path, op.dest), files)'
                 /\ Shows(rows, Moved(files, op.dest, op.path))'
      BY <1>1, <1>5, <2>0, <2>2, <3>1, <3>2 DEF Shows, ShowsAt, MoveDone
    <3>3. RowsInv'
      BY <1>9, <2>2, <3>1, <3>2 DEF RowsInv
    <3> QED
      BY <1>1, <1>7, <2>0, <2>2, <3>3
  <2> QED
    BY <1>17, <2>1, <2>2 DEF MoveIndex
<1>18. CASE MoveUndo
  <2>0. op.pc = "move-undo" /\ UNCHANGED <<rows, reason>>
    BY <1>18 DEF MoveUndo, At, indexVars
  <2>1. CASE UNCHANGED files /\ Done
    BY <1>6, <1>8, <2>0, <2>1
  <2>2. CASE files' = Moved(files, op.dest, op.path) /\ Goto("clear")
    <3>1. ~Hopeless => \A p \in Paths : ShowsAt(rows, files, p)'
      BY <1>1, <1>5, <2>0, <2>2 DEF ShowsAt, MoveDone
    <3> QED
      BY <1>11, <2>0, <2>2, <3>1
  <2> QED
    BY <1>18, <2>1, <2>2 DEF MoveUndo
<1> QED
  BY <1>12, <1>13, <1>14, <1>15, <1>16, <1>17, <1>18

(***************************************************************************)
(* The transactions that the file service, the upload service and the      *)
(* startup share: each brings in what is out.                              *)
(***************************************************************************)

PlainPc == op.pc \notin MoveDone \cup MkdirDone

LEMMA BelowAbsent ==
  ASSUME NEW tree, WellFormed(tree), NEW p \in Paths, tree[p] = Absent
  PROVE  \A q \in Below(p) : tree[q] = Absent
  BY NamespaceAssumption DEF WellFormed

\* The trees when no entry is out after the step and one was before.
LEMMA CommitTrashIndex ==
  ASSUME RootIInv, IndexInv, NEW t \in TrashIds, CanCommitTrash(t), DoCommitTrash(t),
         OutTrash(t), files[trashPath[t]] = Absent,
         UNCHANGED <<files, trash, status, part, target>>, PlainPc, PlainPc'
  PROVE  /\ OutInv' /\ OneOut' /\ RowsInv' /\ HiddenInv'
         /\ \A s \in TrashIds : ~Out(s)'
         /\ \A u \in Uploads : OutUpload(u)' <=> OutUpload(u)
<1> DEFINE top == trashPath[t]
<1>0. /\ ~Hopeless /\ rows \in Trees /\ trashState \in [TrashIds -> TrashStates]
      /\ hidden \in [TrashIds -> Trees]
      /\ top \in Paths /\ SubtreeAt(trash[t], top) /\ WellFormed(files)
      /\ OutInv /\ OneOut /\ HiddenInv /\ RowsInv
  <2>1. ~Hopeless
    BY Kinds DEF CanCommitTrash, UsableForRepair, Hopeless
  <2> QED
    BY <2>1 DEF RootIInv, RootInv, IInv, TypeOK, PlaneTypeOK, FilesTypeOK, TrashInv, OutTrash, IndexInv
<1>1. /\ rows' = Cut(rows, top) /\ hidden' = [hidden EXCEPT ![t] = Clip(rows, top)]
      /\ trashState' = [trashState EXCEPT ![t] = "trashed"] /\ trashPath' = trashPath
  BY DEF DoCommitTrash
<1>2. /\ \A s \in TrashIds \ {t} : ~Out(s) /\ trashState'[s] = trashState[s]
      /\ \A s \in TrashIds : ~Out(s)'
  <2>1. \A s \in TrashIds \ {t} : ~Out(s) /\ trashState'[s] = trashState[s]
    BY <1>0, <1>1 DEF OneOut, Out
  <2>2. \A s \in TrashIds \ {t} : ~Out(s)'
    BY <2>1 DEF Out, OutTrash, OutRestore
  <2>3. ~Out(t)'
    BY <1>0, <1>1 DEF Out, OutTrash, OutRestore
  <2> QED
    BY <2>1, <2>2, <2>3
<1>3. \A u \in Uploads : OutUpload(u)' <=> OutUpload(u)
  BY DEF OutUpload
<1>4. OutInv' /\ OneOut'
  BY <1>0, <1>2, <1>3 DEF OutInv, OneOut
<1>5. \A q \in Below(top) : rows'[q] = Absent /\ files[q] = Absent
  BY <1>0, <1>1, BelowAbsent DEF Cut, Below
<1>6. \A q \in Paths \ Below(top) : rows'[q] = rows[q]
  BY <1>1 DEF Cut
<1>7. RowsInv'
  <2>1. \A p \in Paths : \/ ShowsAt(rows, files, p)
                         \/ p \in Below(top)
                         \/ RowIsDue(rows, p)
    BY <1>0, <1>2 DEF RowsInv, PlainPc, MoveDone, MkdirDone
  <2>2. \A p \in Paths : ShowsAt(rows, files, p)' \/ RowIsDue(rows, p)'
    <3> SUFFICES ASSUME NEW p \in Paths PROVE ShowsAt(rows, files, p)' \/ RowIsDue(rows, p)'
      OBVIOUS
    <3>1. CASE p \in Below(top)
      BY <1>5, <3>1 DEF ShowsAt
    <3>2. CASE p \notin Below(top) /\ ShowsAt(rows, files, p)
      BY <1>6, <3>2 DEF ShowsAt
    <3>3. CASE p \notin Below(top) /\ RowIsDue(rows, p)
      BY <1>3, <1>6, <3>3 DEF RowIsDue
    <3> QED
      BY <2>1, <3>1, <3>2, <3>3
  <2> QED
    BY <2>2 DEF RowsInv, PlainPc, MoveDone, MkdirDone
<1>8. HiddenInv'
  <2>1. \A p \in Paths : ShowsAt(hidden'[t], trash[t], p)
    <3> SUFFICES ASSUME NEW p \in Paths PROVE ShowsAt(hidden'[t], trash[t], p)
      OBVIOUS
    <3>1. hidden'[t][p] = IF p \in Below(top) THEN rows[p] ELSE Absent
      BY <1>0, <1>1 DEF Clip
    <3>2. CASE p \in Below(top)
      <4>1. ShowsAt(rows, trash[t], p)
        BY <1>0, <3>2 DEF HiddenInv
      <4> QED
        BY <3>1, <3>2, <4>1 DEF ShowsAt
    <3>3. CASE p \notin Below(top)
      BY <1>0, <3>1, <3>3 DEF SubtreeAt, ShowsAt
    <3> QED
      BY <3>2, <3>3
  <2>2. Shows(hidden[t], trash[t])'
    BY <2>1 DEF Shows, ShowsAt
  <2>3. /\ \A p \in Paths : hidden'[t][p] # Absent => p \in Below(trashPath'[t])
        /\ trashState'[t] = "trashed"
    BY <1>0, <1>1 DEF Clip
  <2>4. ASSUME NEW s \in TrashIds \ {t}
        PROVE  /\ \A p \in Paths : hidden'[s][p] # Absent => p \in Below(trashPath'[s])
               /\ trashState'[s] \in {"none", "trashing"} => hidden'[s] = EmptyTree
               /\ Stored(s)' => Shows(hidden[s], trash[s])'
    <3>1. hidden'[s] = hidden[s] /\ trashPath'[s] = trashPath[s] /\ trashState'[s] = trashState[s]
      BY <1>0, <1>1
    <3> QED
      BY <1>0, <3>1 DEF HiddenInv, Stored, Shows
  <2> QED
    BY <1>2, <2>2, <2>3, <2>4 DEF HiddenInv, Out
<1> QED
  BY <1>2, <1>3, <1>4, <1>7, <1>8

LEMMA FinishRestoreIndex ==
  ASSUME RootIInv, IndexInv, NEW t \in TrashIds, CanFinishRestore(t), DoFinishRestore(t),
         OutRestore(t), UNCHANGED <<files, trash, status, part, target>>, PlainPc, PlainPc'
  PROVE  /\ OutInv' /\ OneOut' /\ RowsInv' /\ HiddenInv'
         /\ \A s \in TrashIds : ~Out(s)'
         /\ \A u \in Uploads : OutUpload(u)' <=> OutUpload(u)
<1> DEFINE top == trashPath[t]
<1>0. /\ ~Hopeless /\ rows \in Trees /\ trashState \in [TrashIds -> TrashStates]
      /\ hidden \in [TrashIds -> Trees] /\ trashPath \in [TrashIds -> Paths \cup {Root}]
      /\ OutInv /\ OneOut /\ HiddenInv /\ RowsInv
  <2>1. ~Hopeless
    BY Kinds DEF CanFinishRestore, UsableForRepair, Hopeless
  <2> QED
    BY <2>1 DEF RootIInv, RootInv, IInv, TypeOK, PlaneTypeOK, FilesTypeOK, IndexInv
<1>1. /\ rows' = Graft(rows, hidden[t]) /\ hidden' = [hidden EXCEPT ![t] = EmptyTree]
      /\ trashState' = [trashState EXCEPT ![t] = "none"]
      /\ trashPath' = [trashPath EXCEPT ![t] = Root]
  BY DEF DoFinishRestore
<1>2. /\ \A s \in TrashIds \ {t} : ~Out(s) /\ trashState'[s] = trashState[s]
      /\ \A s \in TrashIds : ~Out(s)'
  <2>1. \A s \in TrashIds \ {t} : ~Out(s) /\ trashState'[s] = trashState[s]
    BY <1>0, <1>1 DEF OneOut, Out
  <2>2. \A s \in TrashIds \ {t} : ~Out(s)'
    BY <2>1 DEF Out, OutTrash, OutRestore
  <2>3. ~Out(t)'
    BY <1>0, <1>1 DEF Out, OutTrash, OutRestore
  <2> QED
    BY <2>1, <2>2, <2>3
<1>3. \A u \in Uploads : OutUpload(u)' <=> OutUpload(u)
  BY DEF OutUpload
<1>4. OutInv' /\ OneOut'
  BY <1>0, <1>2, <1>3 DEF OutInv, OneOut
<1>5. \A q \in Below(top) : rows'[q] = hidden[t][q]
  BY <1>0, <1>1 DEF Graft, HiddenInv, Below
<1>6. \A q \in Paths \ Below(top) : rows'[q] = rows[q]
  BY <1>0, <1>1 DEF Graft, HiddenInv
<1>7. RowsInv'
  <2>1. \A p \in Paths : \/ ShowsAt(rows, files, p)
                         \/ p \in Below(top)
                         \/ RowIsDue(rows, p)
    BY <1>0, <1>2 DEF RowsInv, PlainPc, MoveDone, MkdirDone
  <2>2. \A p \in Paths : ShowsAt(rows, files, p)' \/ RowIsDue(rows, p)'
    <3> SUFFICES ASSUME NEW p \in Paths PROVE ShowsAt(rows, files, p)' \/ RowIsDue(rows, p)'
      OBVIOUS
    <3>1. CASE p \in Below(top)
      <4>1. ShowsAt(hidden[t], files, p) \/ RowIsDue(hidden[t], p)
        BY <1>0, <3>1 DEF HiddenInv
      <4> QED
        BY <1>3, <1>5, <3>1, <4>1 DEF ShowsAt, RowIsDue
    <3>2. CASE p \notin Below(top) /\ ShowsAt(rows, files, p)
      BY <1>6, <3>2 DEF ShowsAt
    <3>3. CASE p \notin Below(top) /\ RowIsDue(rows, p)
      BY <1>3, <1>6, <3>3 DEF RowIsDue
    <3> QED
      BY <2>1, <3>1, <3>2, <3>3
  <2> QED
    BY <2>2 DEF RowsInv, PlainPc, MoveDone, MkdirDone
<1>8. HiddenInv'
  <2>1. hidden'[t] = EmptyTree /\ trashState'[t] = "none" /\ ~Stored(t)'
    BY <1>0, <1>1 DEF Stored
  <2>2. ASSUME NEW s \in TrashIds \ {t}
        PROVE  /\ \A p \in Paths : hidden'[s][p] # Absent => p \in Below(trashPath'[s])
               /\ trashState'[s] \in {"none", "trashing"} => hidden'[s] = EmptyTree
               /\ Stored(s)' => Shows(hidden[s], trash[s])'
    <3>1. hidden'[s] = hidden[s] /\ trashPath'[s] = trashPath[s] /\ trashState'[s] = trashState[s]
      BY <1>0, <1>1
    <3> QED
      BY <1>0, <3>1 DEF HiddenInv, Stored, Shows
  <2> QED
    BY <1>2, <2>1, <2>2 DEF HiddenInv, Out, EmptyTree
<1> QED
  BY <1>2, <1>3, <1>4, <1>7, <1>8

LEMMA CompleteIndex ==
  ASSUME RootIInv, IndexInv, NEW u \in Uploads, CanComplete(u), DoComplete(u), OutUpload(u),
         \A t \in TrashIds : ~Out(t),
         UNCHANGED <<files, trash, hidden, trashState, trashPath, part, target>>, PlainPc, PlainPc'
  PROVE  /\ OutInv' /\ OneOut' /\ RowsInv' /\ HiddenInv'
         /\ \A t \in TrashIds : ~Out(t)'
         /\ \A v \in Uploads : OutUpload(v)' <=> OutUpload(v) /\ v # u
<1> DEFINE p == target[u]
<1>0. /\ ~Hopeless /\ rows \in Trees /\ status \in [Uploads -> Statuses]
      /\ p \in Paths /\ files[p] = u /\ u # Absent
      /\ OutInv /\ OneOut /\ HiddenInv /\ RowsInv
  <2>1. ~Hopeless
    BY Kinds DEF CanComplete, UsableForRepair, Hopeless
  <2> QED
    BY <2>1, UploadsAreContents
       DEF RootIInv, RootInv, IInv, TypeOK, PlaneTypeOK, UploadsTypeOK, IndexInv, OutInv,
           TargetInv, OutUpload
<1>1. /\ rows' = IF rows[p] = Absent THEN Put(rows, p, files[p]) ELSE rows
      /\ status' = [status EXCEPT ![u] = "completed"]
  BY DEF DoComplete
<1>2. \A v \in Uploads : OutUpload(v)' <=> OutUpload(v) /\ v # u
  BY <1>0, <1>1 DEF OutUpload
<1>3. \A t \in TrashIds : ~Out(t)' /\ (Stored(t)' <=> Stored(t))
  BY DEF Out, OutTrash, OutRestore, Stored
<1>4. OutInv' /\ OneOut'
  BY <1>0, <1>1, <1>2, <1>3 DEF OutInv, OneOut, OutUpload
<1>5. \A q \in Paths : \/ ShowsAt(rows, files, q)
                       \/ RowIsDue(rows, q)
  BY <1>0 DEF RowsInv, PlainPc, MoveDone, MkdirDone
<1>6. rows[p] \in {u, Absent}
  BY <1>0, <1>5 DEF ShowsAt, RowIsDue
<1>7. rows'[p] = files[p] /\ \A q \in Paths \ {p} : rows'[q] = rows[q]
  BY <1>0, <1>1, <1>6 DEF Put, Trees
<1>8. ASSUME NEW q \in Paths PROVE ShowsAt(rows, files, q)' \/ RowIsDue(rows, q)'
  <2>1. CASE q = p
    BY <1>7, <2>1 DEF ShowsAt
  <2>2. CASE q # p /\ ShowsAt(rows, files, q)
    BY <1>7, <2>2 DEF ShowsAt
  <2>3. CASE q # p /\ RowIsDue(rows, q)
    BY <1>2, <1>7, <2>3 DEF RowIsDue
  <2> QED
    BY <1>5, <2>1, <2>2, <2>3
<1>9. RowsInv'
  BY <1>8 DEF RowsInv, PlainPc, MoveDone, MkdirDone
<1>10. HiddenInv'
  BY <1>0, <1>3 DEF HiddenInv, Shows, Out
<1> QED
  BY <1>2, <1>3, <1>4, <1>9, <1>10

(***************************************************************************)
(* Trash and restore: while one of them runs, nothing else is out.         *)
(***************************************************************************)

LEMMA TrashOpFacts ==
  ASSUME RootIInv, IndexInv, NEW t \in TrashIds, op.reason \in {TrashReason(t), RestoreReason(t)}
  PROVE  /\ reason.kind \in {"healthy", "multiple", "download-open", "download-metadata"}
         /\ \A s \in TrashIds \ {t} : ~Out(s)
         /\ \A u \in Uploads : ~OutUpload(u) /\ ~Completing(u)
         /\ op.pc \notin MoveDone \cup MkdirDone /\ op.pc # "idle" /\ op # Idle /\ op \in Ops
         /\ op.pc \notin {"mkdir", "move", "clear", "complete"}
         /\ op.path = trashPath[t] /\ trashPath[t] \in Paths
<1>0. /\ FileOpInv /\ TrashOpInv /\ TrashInv
      /\ op \in Ops
  BY DEF RootIInv, RootInv, IInv, TypeOK, PlaneTypeOK, IndexInv
<1>1. /\ op.reason = TrashReason(t) =>
           /\ op.pc \in {"trash", "trash-abort", "trash-commit", "mark"}
           /\ trashState[t] = "trashing"
      /\ op.reason = RestoreReason(t) =>
           /\ op.pc \in {"restore", "restore-rollback", "restore-finish", "mark"}
           /\ trashState[t] = "restoring"
      /\ op.path = trashPath[t]
  BY <1>0 DEF TrashOpInv
<1>2. op.pc \notin MoveDone \cup MkdirDone /\ op.pc # "idle"
      /\ op.pc \notin {"mkdir", "move", "clear", "complete"}
  BY <1>1 DEF MoveDone, MkdirDone
<1>3. op # Idle
  BY <1>2, Kinds
<1>4. \A u \in Uploads : ~Completing(u)
  BY ReasonsDiffer DEF Completing
<1> QED
  BY <1>0, <1>1, <1>2, <1>3, <1>4 DEF FileOpInv, TrashInv

LEMMA TrashOpFrame ==
  ASSUME RootIInv, IndexInv, NEW t \in TrashIds, op.reason \in {TrashReason(t), RestoreReason(t)},
         NEW c \in {"trash-commit", "restore-finish"}, Goto(c), ~Out(t),
         \A s \in TrashIds \ {t} : trash'[s] = trash[s],
         UNCHANGED <<rows, hidden, reason, gate, server, trashState, trashPath>>,
         UNCHANGED <<status, part, target>>
  PROVE  /\ OutInv' /\ GateInv' /\ FileOpInv' /\ OneOut' /\ (Hopeless' <=> Hopeless)
         /\ trashState[t] = (IF op.reason = TrashReason(t) THEN "trashing" ELSE "restoring")
              => OutIsRecorded'
         /\ \A s \in TrashIds \ {t} : ~Out(s)'
         /\ ~Hopeless => \A p \in Paths : ShowsAt(rows, files, p)
         /\ \A s \in TrashIds \ {t} :
              /\ \A p \in Paths : hidden'[s][p] # Absent => p \in Below(trashPath'[s])
              /\ trashState'[s] \in {"none", "trashing"} => hidden'[s] = EmptyTree
              /\ ~Hopeless' /\ Stored(s)' => Shows(hidden[s], trash[s])'
<1>0. /\ FileOpInv /\ GateInv /\ OutInv /\ HiddenInv /\ RowsInv
      /\ op'.pc = c /\ op'.reason = op.reason /\ op'.path = op.path
  BY TrashOpFacts, GotoFields DEF IndexInv
<1>1. /\ \A s \in TrashIds \ {t} : ~Out(s) /\ ~Out(s)'
      /\ \A u \in Uploads : ~OutUpload(u) /\ ~OutUpload(u)'
  BY TrashOpFacts DEF Out, OutTrash, OutRestore, OutUpload
<1>2. OutInv' /\ OneOut'
  BY <1>0, <1>1 DEF OutInv, OneOut
<1>3. GateInv'
  BY <1>0, TrashOpFacts DEF GateInv
<1>4. FileOpInv'
  <2>1. \A s \in TrashIds : op'.reason \in {TrashReason(s), RestoreReason(s)} => s = t
    BY <1>0, FileReasonsDiffer
  <2>2. op'.reason \notin {MkdirReason, MoveReason}
    BY <1>0, FileReasonsDiffer
  <2> QED
    BY <1>0, <1>1, <2>1, <2>2, TrashOpFacts DEF FileOpInv
<1>5. Hopeless' <=> Hopeless
  BY <1>0 DEF Hopeless
<1>6. ASSUME trashState[t] = (IF op.reason = TrashReason(t) THEN "trashing" ELSE "restoring")
      PROVE  OutIsRecorded'
  BY <1>0, <1>1, <1>6, FileReasonsDiffer DEF OutIsRecorded, Out, OutTrash, OutRestore
<1>7. ~Hopeless => \A p \in Paths : ShowsAt(rows, files, p)
  BY <1>0, <1>1, TrashOpFacts DEF RowsInv, RowIsDue, MoveDone, MkdirDone
<1>8. ASSUME NEW s \in TrashIds \ {t}
      PROVE  /\ \A p \in Paths : hidden'[s][p] # Absent => p \in Below(trashPath'[s])
             /\ trashState'[s] \in {"none", "trashing"} => hidden'[s] = EmptyTree
             /\ ~Hopeless' /\ Stored(s)' => Shows(hidden[s], trash[s])'
  BY <1>0, <1>5 DEF HiddenInv, Stored, Shows
<1> QED
  BY <1>1, <1>2, <1>3, <1>4, <1>5, <1>6, <1>7, <1>8

LEMMA MoveToTrashIndex ==
  ASSUME RootIInv, IndexInv, NEW t \in TrashIds, MoveToTrash(t), UNCHANGED uploadsVars
  PROVE  IndexInv'
<1> DEFINE top == trashPath[t]
<1>0. /\ op.pc = "trash" /\ op.reason = TrashReason(t)
      /\ op.path = top /\ top \in Paths /\ trashState[t] = "trashing"
      /\ trash[t] = EmptyTree /\ hidden[t] = EmptyTree /\ ~Out(t)
      /\ trash \in [TrashIds -> Trees]
  <2>1. op.pc = "trash" /\ op.reason = TrashReason(t)
    BY DEF MoveToTrash, At
  <2>2. trashState[t] = "trashing" /\ trash[t] = EmptyTree
    BY <2>1 DEF RootIInv, RootInv, TrashOpInv
  <2>3. hidden[t] = EmptyTree
    BY <2>2 DEF IndexInv, HiddenInv
  <2> QED
    BY <2>1, <2>2, <2>3, TrashOpFacts
       DEF RootIInv, IInv, TypeOK, PlaneTypeOK, Out, OutTrash, OutRestore
<1>1. UNCHANGED <<rows, hidden, reason, gate, server, trashState, trashPath, status, part, target>>
  BY DEF MoveToTrash, indexVars, filesVars, uploadsVars
<1>2. CASE UNCHANGED <<files, trash>> /\ Goto("trash-abort")
  <2>1. Quiet
    BY <1>1, <1>2 DEF Quiet, QuietEntry, QuietUpload
  <2> QED
    BY <1>0, <1>1, <1>2, <2>1, GotoIndex DEF MoveDone, MkdirDone
<1>3. CASE /\ files[op.path] # Absent /\ files' = Cut(files, op.path)
           /\ trash' = [trash EXCEPT ![t] = Clip(files, op.path)]
           /\ Goto("trash-commit")
  <2>0. /\ \A s \in TrashIds \ {t} : trash'[s] = trash[s]
        /\ \A p \in Paths : /\ files'[p] = IF p \in Below(top) THEN Absent ELSE files[p]
                            /\ trash'[t][p] = IF p \in Below(top) THEN files[p] ELSE Absent
    BY <1>0, <1>3 DEF Cut, Clip
  <2>1. /\ OutInv' /\ GateInv' /\ FileOpInv' /\ OneOut' /\ OutIsRecorded'
        /\ Hopeless' <=> Hopeless
        /\ ~Hopeless => \A p \in Paths : ShowsAt(rows, files, p)
        /\ \A s \in TrashIds \ {t} : ~Out(s)'
    BY <1>0, <1>1, <1>3, <2>0, TrashOpFrame
  <2>2. OutTrash(t)' /\ ~OutRestore(t)'
    <3>1. top \in Below(top)
      BY <1>0, BelowIsOrder
    <3>2. trash'[t][top] # Absent
      BY <1>0, <1>3, <2>0, <3>1
    <3> QED
      BY <1>0, <1>1, <3>2 DEF OutTrash, OutRestore, EmptyTree
  <2>3. RowsInv'
    <3>1. op'.pc = "trash-commit"
      BY <1>3, GotoFields, TrashOpFacts, <1>0
    <3>2. ASSUME ~Hopeless', NEW p \in Paths
          PROVE  ShowsAt(rows, files, p)' \/ (Out(t)' /\ p \in Below(trashPath'[t]))
      BY <1>1, <2>0, <2>1, <2>2, <3>2 DEF ShowsAt, Out
    <3> QED
      BY <3>1, <3>2 DEF RowsInv
  <2>4. ASSUME ~Hopeless', NEW p \in Below(top) PROVE ShowsAt(rows, trash[t], p)'
    BY <1>1, <2>0, <2>1, <2>4 DEF ShowsAt, Below
  <2>5. ~Stored(t)'
    BY <1>0, <1>1 DEF Stored
  <2>6. HiddenInv'
    <3>1. \A s \in TrashIds \ {t} :
              /\ \A p \in Paths : hidden'[s][p] # Absent => p \in Below(trashPath'[s])
              /\ trashState'[s] \in {"none", "trashing"} => hidden'[s] = EmptyTree
              /\ ~Hopeless' /\ Stored(s)' => Shows(hidden[s], trash[s])'
      BY <1>0, <1>1, <1>3, <2>0, TrashOpFrame
    <3> QED
      BY <1>0, <1>1, <2>1, <2>2, <2>4, <2>5, <3>1 DEF HiddenInv, Out, EmptyTree
  <2> QED
    BY <2>1, <2>3, <2>6 DEF IndexInv
<1> QED
  BY <1>2, <1>3 DEF MoveToTrash

LEMMA RestoreFromTrashIndex ==
  ASSUME RootIInv, IndexInv, NEW t \in TrashIds, RestoreFromTrash(t), UNCHANGED uploadsVars
  PROVE  IndexInv'
<1> DEFINE top == trashPath[t]
<1>0. /\ op.pc = "restore" /\ op.reason = RestoreReason(t)
      /\ op.path = top /\ top \in Paths /\ trashState[t] = "restoring"
      /\ trash[t] # EmptyTree /\ Stored(t) /\ ~Out(t)
      /\ trash \in [TrashIds -> Trees] /\ SubtreeAt(trash[t], top) /\ WellFormed(files)
  <2>1. op.pc = "restore" /\ op.reason = RestoreReason(t)
    BY DEF RestoreFromTrash, At
  <2>2. trashState[t] = "restoring" /\ trash[t] # EmptyTree
    BY <2>1 DEF RootIInv, RootInv, TrashOpInv
  <2> QED
    BY <2>1, <2>2, TrashOpFacts
       DEF RootIInv, RootInv, TrashInv, IInv, TypeOK, PlaneTypeOK, Out, OutTrash, OutRestore, Stored
<1>1. UNCHANGED <<rows, hidden, reason, gate, server, trashState, trashPath, status, part, target>>
  BY DEF RestoreFromTrash, indexVars, filesVars, uploadsVars
<1>2. CASE UNCHANGED <<files, trash>> /\ Goto("restore-rollback")
  <2>1. Quiet
    BY <1>1, <1>2 DEF Quiet, QuietEntry, QuietUpload
  <2> QED
    BY <1>0, <1>1, <1>2, <2>1, GotoIndex DEF MoveDone, MkdirDone
<1>3. CASE /\ IsFree(files, op.path) /\ files' = Graft(files, trash[t])
           /\ trash' = [trash EXCEPT ![t] = EmptyTree]
           /\ Goto("restore-finish")
  <2>0. /\ \A s \in TrashIds \ {t} : trash'[s] = trash[s]
        /\ trash'[t] = EmptyTree
        /\ \A p \in Below(top) : files[p] = Absent /\ files'[p] = trash[t][p]
        /\ \A p \in Paths \ Below(top) : files'[p] = files[p]
    <3>1. \A p \in Below(top) : files[p] = Absent
      BY <1>0, <1>3, FreePlace
    <3>2. \A p \in Paths : files'[p] = IF trash[t][p] = Absent THEN files[p] ELSE trash[t][p]
      BY <1>3 DEF Graft
    <3> QED
      BY <1>0, <1>3, <3>1, <3>2 DEF SubtreeAt, Below
  <2>1. /\ OutInv' /\ GateInv' /\ FileOpInv' /\ OneOut' /\ OutIsRecorded'
        /\ Hopeless' <=> Hopeless
        /\ ~Hopeless => \A p \in Paths : ShowsAt(rows, files, p)
        /\ \A s \in TrashIds \ {t} : ~Out(s)'
    BY <1>0, <1>1, <1>3, <2>0, TrashOpFrame, FileReasonsDiffer
  <2>2. OutRestore(t)' /\ ~OutTrash(t)' /\ ~Stored(t)'
    BY <1>0, <1>1, <2>0 DEF OutTrash, OutRestore, Stored
  <2>3. RowsInv'
    <3>1. op'.pc = "restore-finish"
      BY <1>3, GotoFields, TrashOpFacts, <1>0
    <3>2. ASSUME ~Hopeless', NEW p \in Paths
          PROVE  ShowsAt(rows, files, p)' \/ (Out(t)' /\ p \in Below(trashPath'[t]))
      BY <1>1, <2>0, <2>1, <2>2, <3>2 DEF ShowsAt, Out
    <3> QED
      BY <3>1, <3>2 DEF RowsInv
  <2>4. ASSUME ~Hopeless', NEW p \in Below(top)
        PROVE  rows'[p] = Absent /\ ShowsAt(hidden[t], files, p)'
    <3>1. p \in Paths /\ ShowsAt(rows, files, p)
      BY <2>1, <2>4 DEF Below
    <3>2. ShowsAt(hidden[t], trash[t], p)
      BY <1>0, <2>1, <2>4, <3>1, ShowsPointwise DEF IndexInv, HiddenInv
    <3>3. rows[p] = Absent
      BY <2>0, <3>1 DEF ShowsAt
    <3> QED
      BY <1>1, <2>0, <3>2, <3>3 DEF ShowsAt
  <2>5. /\ \A p \in Paths : hidden'[t][p] # Absent => p \in Below(trashPath'[t])
        /\ trashState'[t] = "restoring"
    BY <1>0, <1>1 DEF IndexInv, HiddenInv
  <2>6. HiddenInv'
    <3>1. \A s \in TrashIds \ {t} :
              /\ \A p \in Paths : hidden'[s][p] # Absent => p \in Below(trashPath'[s])
              /\ trashState'[s] \in {"none", "trashing"} => hidden'[s] = EmptyTree
              /\ ~Hopeless' /\ Stored(s)' => Shows(hidden[s], trash[s])'
      BY <1>0, <1>1, <1>3, <2>0, TrashOpFrame
    <3> QED
      BY <1>1, <2>1, <2>2, <2>4, <2>5, <3>1 DEF HiddenInv, Out
  <2> QED
    BY <2>1, <2>3, <2>6 DEF IndexInv
<1> QED
  BY <1>2, <1>3 DEF RestoreFromTrash

LEMMA IdleFrame ==
  ASSUME op' = Idle, server' \in {"down", "refused", "starting"} => ~gate'
  PROVE  GateInv' /\ FileOpInv' /\ op'.pc \notin MoveDone \cup MkdirDone
<1>0. /\ op'.pc \notin MoveDone \cup MkdirDone /\ op'.pc = "idle" /\ op'.reason = Healthy
  BY Kinds DEF MoveDone, MkdirDone
<1>1. GateInv'
  BY DEF GateInv
<1>2. FileOpInv'
  BY <1>0, FileReasonsDiffer DEF FileOpInv
<1> QED
  BY <1>0, <1>1, <1>2

LEMMA TrashEndIndex ==
  ASSUME RootIInv, IndexInv, NEW t \in TrashIds, AbortTrash(t) \/ RollbackRestore(t),
         UNCHANGED uploadsVars
  PROVE  IndexInv'
<1>0. /\ op.reason \in {TrashReason(t), RestoreReason(t)}
      /\ trashState \in [TrashIds -> TrashStates] /\ trashPath \in [TrashIds -> Paths \cup {Root}]
      /\ TrashOpInv /\ GateInv
  BY DEF AbortTrash, RollbackRestore, RootIInv, RootInv, IInv, TypeOK, FilesTypeOK, IndexInv
<1>1. /\ UNCHANGED <<files, trash, server, gate, rows, hidden, reason, status, part, target>>
      /\ op' = Idle
  BY DEF AbortTrash, RollbackRestore, Done, indexVars, uploadsVars
<1>2. Quiet /\ ~Out(t)
  <2>1. CASE AbortTrash(t)
    <3>1. trash[t] = EmptyTree /\ trashState[t] = "trashing"
      BY <1>0, <2>1 DEF AbortTrash, At, TrashOpInv
    <3>2. \A s \in TrashIds : QuietEntry(s)
      BY <1>0, <2>1, <3>1 DEF AbortTrash, QuietEntry
    <3> QED
      BY <1>1, <3>1, <3>2 DEF Quiet, QuietUpload, Out, OutTrash, OutRestore
  <2>2. CASE RollbackRestore(t)
    <3>1. trash[t] # EmptyTree /\ trashState[t] = "restoring"
      BY <1>0, <2>2 DEF RollbackRestore, At, TrashOpInv
    <3>2. \A s \in TrashIds : QuietEntry(s)
      BY <1>0, <2>2, <3>1 DEF RollbackRestore, QuietEntry
    <3> QED
      BY <1>1, <3>1, <3>2 DEF Quiet, QuietUpload, Out, OutTrash, OutRestore
  <2> QED
    BY <2>1, <2>2
<1>3. OutIsRecorded'
  BY <1>0, <1>2, QuietOut, TrashOpFacts DEF OutIsRecorded, Out
<1>4. Hopeless => Hopeless'
  BY <1>1, HopelessStays, Kinds
<1> QED
  BY <1>0, <1>1, <1>2, <1>3, <1>4, TrashOpFacts, EndIndex DEF GateInv

LEMMA TrashFinishIndex ==
  ASSUME RootIInv, IndexInv, NEW t \in TrashIds, CommitTrash(t) \/ FinishRestore(t),
         UNCHANGED uploadsVars
  PROVE  IndexInv'
<1>0. /\ op.reason \in {TrashReason(t), RestoreReason(t)}
      /\ op.pc \in {"trash-commit", "restore-finish"} /\ GateInv
      /\ op.reason = TrashReason(t) => OutTrash(t) /\ files[trashPath[t]] = Absent
      /\ op.reason = RestoreReason(t) => OutRestore(t)
      /\ PlainPc
  BY DEF AbortTrash, CommitTrash, FinishRestore, At, OutTrash, OutRestore, RootIInv, RootInv,
         TrashOpInv, IndexInv, PlainPc, MoveDone, MkdirDone
<1>1. UNCHANGED <<files, trash, server, gate, status, part, target>>
  BY DEF CommitTrash, FinishRestore, uploadsVars
<1>2. CASE Goto("mark") /\ UNCHANGED <<indexVars, trashState, trashPath>>
  <2>1. Quiet
    BY <1>1, <1>2 DEF Quiet, QuietEntry, QuietUpload, indexVars
  <2>2. /\ op.reason \notin {MkdirReason, MoveReason}
        /\ op.pc \notin MoveDone \cup MkdirDone
    BY <1>0, FileReasonsDiffer DEF PlainPc
  <2> QED
    BY <1>0, <1>1, <1>2, <2>1, <2>2, GotoIndex DEF indexVars, MoveDone, MkdirDone
<1>3. CASE /\ Done
           /\ \/ op.reason = TrashReason(t) /\ CanCommitTrash(t) /\ DoCommitTrash(t)
              \/ op.reason = RestoreReason(t) /\ CanFinishRestore(t) /\ DoFinishRestore(t)
  <2>1. GateInv' /\ FileOpInv' /\ PlainPc'
    BY <1>0, <1>1, <1>3, IdleFrame DEF Done, PlainPc, GateInv
  <2>2. /\ OutInv' /\ OneOut' /\ RowsInv' /\ HiddenInv'
        /\ \A s \in TrashIds : ~Out(s)'
        /\ \A u \in Uploads : OutUpload(u)' <=> OutUpload(u)
    <3>1. CASE op.reason = TrashReason(t) /\ CanCommitTrash(t) /\ DoCommitTrash(t)
      BY <1>0, <1>1, <2>1, <3>1, CommitTrashIndex
    <3>2. CASE op.reason = RestoreReason(t) /\ CanFinishRestore(t) /\ DoFinishRestore(t)
      BY <1>0, <1>1, <2>1, <3>2, FinishRestoreIndex
    <3> QED
      BY <1>3, <3>1, <3>2
  <2>3. OutIsRecorded'
    BY <1>0, <2>2, TrashOpFacts DEF OutIsRecorded, Out
  <2> QED
    BY <2>1, <2>2, <2>3 DEF IndexInv
<1> QED
  BY <1>2, <1>3 DEF CommitTrash, FinishRestore

LEMMA FilesNextIndex ==
  ASSUME RootIInv, IndexInv, FilesNext
  PROVE  IndexInv'
  BY FilesRequestIndex, MkdirAndMoveIndex, MoveToTrashIndex, RestoreFromTrashIndex,
     TrashEndIndex, TrashFinishIndex DEF FilesNext, FilesStep

(***************************************************************************)
(* Uploads: a completion may find other uploads out, but then the reason   *)
(* of the index names them.                                                *)
(***************************************************************************)

LEMMA UploadOpFacts ==
  ASSUME RootIInv, IndexInv, NEW u \in Uploads, Completing(u)
  PROVE  /\ op \in Ops /\ op # Idle /\ PlainPc /\ gate
         /\ op.pc \notin {"mkdir", "move", "clear"}
         /\ op.path = target[u] /\ target[u] \in Paths /\ status[u] = "finalizing"
         /\ op.reason \notin {MkdirReason, MoveReason}
         /\ \A t \in TrashIds : op.reason \notin {TrashReason(t), RestoreReason(t)}
         /\ op.reason.kind = "upload" /\ op.reason \in RepairReasons
         /\ reason.kind \in {"healthy", "upload"} =>
              /\ \A t \in TrashIds : ~Out(t)
              /\ \A v \in Uploads : OutUpload(v) =>
                   reason = UploadReason(v) \/ (v = u /\ op.pc \in {"complete", "mark"})
<1>0. /\ FileOpInv /\ OutIsRecorded /\ GateInv /\ OpInv /\ PublishInv
      /\ op \in Ops /\ op.reason = UploadReason(u)
  BY DEF RootIInv, RootInv, IInv, TypeOK, PlaneTypeOK, IndexInv, Completing
<1>1. /\ op # Idle /\ op.path = target[u] /\ target[u] \in Paths /\ status[u] = "finalizing"
  BY <1>0, IdleCompletesNothing DEF OpInv, PublishInv
<1>2. /\ op.reason \notin {MkdirReason, MoveReason}
      /\ \A t \in TrashIds : op.reason \notin {TrashReason(t), RestoreReason(t)}
      /\ \A v \in Uploads : Completing(v) => v = u
      /\ op.reason.kind = "upload" /\ op.reason \in RepairReasons
  BY <1>0, ReasonsDiffer, Kinds DEF Completing, RepairReasons
<1>3. PlainPc /\ op.pc \notin {"mkdir", "move", "clear"}
  BY <1>0, <1>2 DEF FileOpInv, PlainPc, MoveDone, MkdirDone
<1>4. gate
  BY <1>0, <1>1 DEF GateInv
<1>5. ASSUME reason.kind \in {"healthy", "upload"}
      PROVE  /\ \A t \in TrashIds : ~Out(t)
             /\ \A v \in Uploads : OutUpload(v) =>
                  reason = UploadReason(v) \/ (v = u /\ op.pc \in {"complete", "mark"})
  BY <1>0, <1>2, <1>4, <1>5 DEF OutIsRecorded, Out
<1> QED
  BY <1>0, <1>1, <1>2, <1>3, <1>4, <1>5

\* A completion ends and the reason stays.
LEMMA UploadEndIndex ==
  ASSUME RootIInv, IndexInv, NEW u \in Uploads, Completing(u), Quiet, Done,
         UNCHANGED <<server, gate>>,
         UNCHANGED reason \/ reason' = Cleared(UploadReason(u)),
         ~OutUpload(u)
  PROVE  IndexInv'
<1>1. /\ reason.kind \in {"healthy", "upload"} =>
           /\ \A t \in TrashIds : ~Out(t)
           /\ \A v \in Uploads : OutUpload(v) => reason = UploadReason(v)
      /\ PlainPc /\ op.reason = UploadReason(u) /\ op.reason.kind = "upload" /\ GateInv
  BY UploadOpFacts DEF Completing, IndexInv
<1>2. Hopeless => Hopeless'
  <2>1. op' = Idle /\ op'.reason = Healthy
    BY Kinds DEF Done
  <2> QED
    BY <1>1, <2>1, HopelessStays
<1>3. reason' = reason \/ (reason = UploadReason(u) /\ reason' = Healthy)
  BY DEF Cleared
<1>4. \A v \in Uploads : OutUpload(v) => reason # UploadReason(u)
  BY <1>1, ReasonsDiffer, Kinds
<1>5. OutIsRecorded'
  <2>1. CASE reason' = reason
    BY <1>1, <2>1, QuietOut DEF OutIsRecorded, Out
  <2>2. CASE reason = UploadReason(u)
    <3>1. reason.kind = "upload"
      BY <2>2, Kinds
    <3> QED
      BY <1>1, <1>4, <2>2, <3>1, QuietOut DEF OutIsRecorded, Out
  <2> QED
    BY <1>3, <2>1, <2>2
<1> QED
  BY <1>1, <1>2, <1>5, EndIndex DEF Done, PlainPc, GateInv

LEMMA FinalizePartIndex ==
  ASSUME RootIInv, IndexInv, NEW u \in Uploads, FinalizePart(u), UNCHANGED filesVars
  PROVE  IndexInv'
<1> DEFINE top == target[u]
<1>0. /\ op.pc = "publish" /\ Completing(u) /\ part[u] /\ ~OutUpload(u)
      /\ op.path = top /\ top \in Paths /\ status[u] = "finalizing"
      /\ op \in Ops /\ PlainPc /\ gate
      /\ files \in Trees /\ part \in [Uploads -> BOOLEAN]
      /\ OutInv /\ GateInv /\ FileOpInv /\ OneOut /\ RowsInv /\ HiddenInv
  <2>1. op.pc = "publish" /\ Completing(u)
    BY DEF FinalizePart, At
  <2>2. part[u]
    BY <2>1 DEF RootIInv, IInv, OpInv
  <2> QED
    BY <2>1, <2>2, UploadOpFacts
       DEF RootIInv, IInv, TypeOK, PlaneTypeOK, UploadsTypeOK, IndexInv, OutUpload
<1>1. UNCHANGED <<trash, server, gate, rows, hidden, reason, trashState, trashPath, status, target>>
  BY DEF FinalizePart, indexVars, filesVars
<1>2. ASSUME UNCHANGED <<files, part>>, Goto("reset") \/ Done PROVE IndexInv'
  <2>1. Quiet
    BY <1>1, <1>2 DEF Quiet, QuietEntry, QuietUpload
  <2>2. CASE Done
    BY <1>0, <1>1, <2>1, <2>2, UploadEndIndex
  <2>3. CASE Goto("reset")
    BY <1>0, <1>1, <2>1, <2>3, GotoIndex DEF PlainPc, MoveDone, MkdirDone
  <2> QED
    BY <1>2, <2>2, <2>3
<1>3. CASE /\ files[top] = Absent /\ files' = Put(files, top, u)
           /\ part' = [part EXCEPT ![u] = FALSE] /\ Goto("complete")
  <2>0. /\ files'[top] = u /\ \A p \in Paths \ {top} : files'[p] = files[p]
        /\ ~part'[u] /\ \A v \in Uploads \ {u} : part'[v] = part[v]
        /\ op'.pc = "complete" /\ op'.reason = op.reason
        /\ \A v \in Uploads : v # Absent
    BY <1>0, <1>3, GotoFields, UploadsAreContents DEF Put, Trees
  <2>1. /\ \A v \in Uploads \ {u} : OutUpload(v)' <=> OutUpload(v)
        /\ OutUpload(u)' <=> top \notin Unindexable
        /\ \A t \in TrashIds : /\ OutTrash(t)' <=> OutTrash(t)
                               /\ OutRestore(t)' <=> OutRestore(t)
                               /\ Out(t)' <=> Out(t)
                               /\ Stored(t)' <=> Stored(t)
        /\ Hopeless' <=> Hopeless
    BY <1>0, <1>1, <2>0 DEF OutUpload, Out, OutTrash, OutRestore, Stored, Hopeless
  <2>2. OutInv' /\ OneOut'
    <3>1. OutInv'
      <4> SUFFICES ASSUME NEW v \in Uploads
                   PROVE  /\ OutUpload(v)' => files'[target'[v]] = v
                          /\ status'[v] = "completed" => target'[v] \notin Unindexable
        BY DEF OutInv
      <4>1. CASE v = u
        BY <1>0, <1>1, <2>0, <4>1
      <4>2. CASE v # u /\ OutUpload(v)
        <5>1. files[target[v]] = v /\ status[v] = "finalizing"
          BY <1>0, <4>2 DEF OutInv, OutUpload
        <5>2. target[v] \in Paths
          BY <5>1 DEF RootIInv, RootInv, TargetInv
        <5> QED
          BY <1>1, <1>3, <2>0, <5>1, <5>2
      <4>3. CASE v # u /\ ~OutUpload(v)
        BY <1>0, <1>1, <2>1, <4>3 DEF OutInv
      <4> QED
        BY <1>0, <1>1, <4>1, <4>2, <4>3 DEF OutInv
    <3> QED
      BY <1>0, <2>1, <3>1 DEF OneOut
  <2>3. GateInv' /\ FileOpInv'
    BY <1>0, <1>1, <2>0, UploadOpFacts DEF GateInv, FileOpInv
  <2>4. OutIsRecorded'
    BY <1>0, <1>1, <2>0, <2>1, UploadOpFacts DEF OutIsRecorded, Completing, Out
  <2>5. ASSUME NEW index, NEW p \in Paths, ShowsAt(index, files, p) \/ RowIsDue(index, p)
        PROVE  ShowsAt(index, files, p)' \/ RowIsDue(index, p)'
    <3>1. CASE p = top
      <4>1. index[p] = Absent
        BY <1>3, <2>0, <2>5, <3>1 DEF ShowsAt, RowIsDue
      <4>2. CASE top \in Unindexable
        BY <1>1, <2>0, <3>1, <4>1, <4>2 DEF ShowsAt
      <4>3. CASE top \notin Unindexable
        BY <1>1, <2>0, <2>1, <3>1, <4>1, <4>3 DEF RowIsDue
      <4> QED
        BY <4>2, <4>3
    <3>2. CASE p # top /\ ShowsAt(index, files, p)
      BY <1>1, <2>0, <3>2 DEF ShowsAt
    <3>3. CASE p # top /\ RowIsDue(index, p)
      BY <1>1, <2>0, <2>1, <3>3 DEF RowIsDue
    <3> QED
      BY <2>5, <3>1, <3>2, <3>3
  <2>6. RowsInv'
    <3>1. ASSUME ~Hopeless', NEW p \in Paths
          PROVE  \/ ShowsAt(rows, files, p)'
                 \/ \E t \in TrashIds : Out(t)' /\ p \in Below(trashPath'[t])
                 \/ RowIsDue(rows, p)'
      <4>1. \/ ShowsAt(rows, files, p) \/ RowIsDue(rows, p)
            \/ \E t \in TrashIds : Out(t) /\ p \in Below(trashPath[t])
        BY <1>0, <2>1, <3>1 DEF RowsInv, PlainPc, MoveDone, MkdirDone
      <4>2. ShowsAt(rows, files, p) \/ RowIsDue(rows, p)
              => ShowsAt(rows, files, p)' \/ RowIsDue(rows, p)'
        BY <1>1, <2>5 DEF ShowsAt, RowIsDue
      <4>3. ASSUME NEW t \in TrashIds, Out(t), p \in Below(trashPath[t])
            PROVE  Out(t)' /\ p \in Below(trashPath'[t])
        BY <1>1, <2>1, <4>3
      <4> QED
        BY <4>1, <4>2, <4>3
    <3> QED
      BY <2>0, <3>1 DEF RowsInv
  <2>7. HiddenInv'
    <3> SUFFICES ASSUME NEW t \in TrashIds
                 PROVE  /\ \A p \in Paths : hidden'[t][p] # Absent => p \in Below(trashPath'[t])
                        /\ trashState'[t] \in {"none", "trashing"} => hidden'[t] = EmptyTree
                        /\ ~Hopeless' =>
                             /\ Stored(t)' => Shows(hidden[t], trash[t])'
                             /\ OutTrash(t)' => \A p \in Below(trashPath'[t]) :
                                  ShowsAt(rows, trash[t], p)'
                             /\ OutRestore(t)' => \A p \in Below(trashPath'[t]) :
                                  /\ rows'[p] = Absent
                                  /\ ShowsAt(hidden[t], files, p)' \/ RowIsDue(hidden[t], p)'
      BY DEF HiddenInv, EmptyTree
    <3>1. /\ \A p \in Paths : hidden'[t][p] # Absent => p \in Below(trashPath'[t])
          /\ trashState'[t] \in {"none", "trashing"} => hidden'[t] = EmptyTree
      BY <1>0, <1>1 DEF HiddenInv
    <3>2. ASSUME ~Hopeless', Stored(t)' PROVE Shows(hidden[t], trash[t])'
      <4>1. Shows(hidden[t], trash[t])
        BY <1>0, <2>1, <3>2 DEF HiddenInv
      <4> QED
        BY <1>1, <4>1 DEF Shows
    <3>3. ASSUME ~Hopeless', OutTrash(t)', NEW p \in Below(trashPath'[t])
          PROVE  ShowsAt(rows, trash[t], p)'
      BY <1>0, <1>1, <2>1, <3>3 DEF HiddenInv, ShowsAt
    <3>4. ASSUME ~Hopeless', OutRestore(t)', NEW p \in Below(trashPath'[t])
          PROVE  rows'[p] = Absent /\ (ShowsAt(hidden[t], files, p)' \/ RowIsDue(hidden[t], p)')
      <4>1. /\ p \in Paths /\ rows[p] = Absent
            /\ ShowsAt(hidden[t], files, p) \/ RowIsDue(hidden[t], p)
        BY <1>0, <1>1, <2>1, <3>4 DEF HiddenInv, Below
      <4> QED
        BY <1>1, <2>5, <4>1 DEF ShowsAt, RowIsDue
    <3> QED
      BY <3>1, <3>2, <3>3, <3>4
  <2> QED
    BY <2>2, <2>3, <2>4, <2>6, <2>7 DEF IndexInv
<1>4. \/ UNCHANGED <<files, part>> /\ (Goto("reset") \/ Done)
      \/ /\ files[top] = Absent /\ files' = Put(files, top, u)
         /\ part' = [part EXCEPT ![u] = FALSE] /\ Goto("complete")
  BY <1>0 DEF FinalizePart, IsFree
<1> QED
  BY <1>2, <1>3, <1>4

LEMMA ResetFinalizingIndex ==
  ASSUME RootIInv, IndexInv, NEW u \in Uploads, ResetFinalizing(u), UNCHANGED filesVars
  PROVE  IndexInv'
<1>1. /\ Completing(u) /\ part[u] /\ status[u] = "finalizing" /\ ~OutUpload(u)
      /\ status \in [Uploads -> Statuses]
  <2>1. Completing(u) /\ op.pc = "reset"
    BY DEF ResetFinalizing, At
  <2> QED
    BY <2>1 DEF RootIInv, IInv, TypeOK, UploadsTypeOK, OpInv, OutUpload
<1>2. /\ UNCHANGED <<files, trash, server, gate, rows, hidden, trashState, trashPath, part, target>>
      /\ status' = status \/ status' = [status EXCEPT ![u] = "pending"]
      /\ reason' = reason \/ reason' = Cleared(UploadReason(u))
      /\ Done
  BY DEF ResetFinalizing, DoResetFinalizing, filesVars
<1>3. Quiet
  BY <1>1, <1>2 DEF Quiet, QuietEntry, QuietUpload
<1> QED
  BY <1>1, <1>2, <1>3, UploadEndIndex

LEMMA CompletePublishedIndex ==
  ASSUME RootIInv, IndexInv, NEW u \in Uploads, CompletePublished(u), UNCHANGED filesVars
  PROVE  IndexInv'
<1>0. /\ op.pc = "complete" /\ Completing(u) /\ ~part[u] /\ GateInv
      /\ op.path = target[u] /\ status[u] = "finalizing" /\ PlainPc /\ gate
      /\ op.reason \notin {MkdirReason, MoveReason}
  <2>1. op.pc = "complete" /\ Completing(u)
    BY DEF CompletePublished, At
  <2> QED
    BY <2>1, UploadOpFacts DEF RootIInv, RootInv, PublishInv, IndexInv
<1>1. UNCHANGED <<files, trash, server, gate, hidden, trashState, trashPath, part, target>>
  BY DEF CompletePublished, filesVars
<1>2. CASE /\ op.path \notin Unindexable /\ CanComplete(u) /\ DoComplete(u) /\ Done
  <2>1. OutUpload(u)
    BY <1>0, <1>2 DEF OutUpload
  <2>2. /\ reason.kind \in {"healthy", "upload"}
        /\ \A v \in Uploads : reason = UploadReason(v) => v = u
    BY <1>2, Kinds, ReasonsDiffer DEF CanComplete, UsableForRepair
  <2>3. /\ \A t \in TrashIds : ~Out(t)
        /\ \A v \in Uploads : OutUpload(v) => v = u
    BY <1>0, <2>2, UploadOpFacts
  <2>4. GateInv' /\ FileOpInv' /\ PlainPc'
    BY <1>0, <1>1, <1>2, IdleFrame DEF Done, PlainPc, GateInv
  <2>5. /\ OutInv' /\ OneOut' /\ RowsInv' /\ HiddenInv'
        /\ \A t \in TrashIds : ~Out(t)'
        /\ \A v \in Uploads : OutUpload(v)' <=> OutUpload(v) /\ v # u
    BY <1>0, <1>1, <1>2, <2>1, <2>3, <2>4, CompleteIndex
  <2>6. OutIsRecorded'
    BY <2>3, <2>5 DEF OutIsRecorded, Out
  <2> QED
    BY <2>4, <2>5, <2>6 DEF IndexInv
<1>3. CASE Goto("mark") /\ UNCHANGED <<rows, status, reason>>
  <2>1. Quiet
    BY <1>1, <1>3 DEF Quiet, QuietEntry, QuietUpload
  <2> QED
    BY <1>0, <1>1, <1>3, <2>1, GotoIndex DEF PlainPc, MoveDone, MkdirDone
<1>4. CASE op.path \in Unindexable /\ Done /\ UNCHANGED <<rows, status, reason>>
  <2>1. Quiet /\ ~OutUpload(u)
    BY <1>0, <1>1, <1>4 DEF Quiet, QuietEntry, QuietUpload, OutUpload
  <2> QED
    BY <1>0, <1>1, <1>4, <2>1, UploadEndIndex
<1> QED
  BY <1>2, <1>3, <1>4 DEF CompletePublished

\* A completion begins; nothing of it is new to the index.
LEMMA BeginUploadIndex ==
  ASSUME RootIInv, IndexInv, NEW u \in Uploads, Quiet, Accepting, op = Idle,
         UNCHANGED <<server, gate, reason>>,
         op'.pc \in {"publish", "complete", "mark"}, op'.reason = UploadReason(u)
  PROVE  IndexInv'
<1>0. /\ op.pc \notin MoveDone \cup MkdirDone /\ op'.pc \notin MoveDone \cup MkdirDone
      /\ op'.reason \in RepairReasons /\ OutIsRecorded
  BY IdleReason DEF MoveDone, MkdirDone, RepairReasons, IndexInv
<1>1. Hopeless => Hopeless'
  BY <1>0, HopelessStays
<1>2. OutInv' /\ OneOut' /\ RowsInv' /\ HiddenInv'
  BY <1>0, <1>1, QuietIndex
<1>3. GateInv'
  BY DEF GateInv, Accepting
<1>4. FileOpInv'
  BY ReasonsDiffer DEF FileOpInv
<1>5. OutIsRecorded'
  <2>1. gate /\ reason.kind \in {"healthy", "upload"} =>
          /\ \A v \in Uploads : OutUpload(v) => reason = UploadReason(v)
          /\ \A t \in TrashIds : ~OutTrash(t) /\ ~OutRestore(t)
    BY <1>0, IdleReason DEF OutIsRecorded
  <2> QED
    BY <2>1, QuietOut DEF OutIsRecorded
<1> QED
  BY <1>2, <1>3, <1>4, <1>5 DEF IndexInv

LEMMA UploadsRequestIndex ==
  ASSUME RootIInv, IndexInv, UploadsRequest \/ JobStep \/ Background, UNCHANGED filesVars
  PROVE  IndexInv'
<1>0. /\ status \in [Uploads -> Statuses] /\ part \in [Uploads -> BOOLEAN]
      /\ target \in [Uploads -> Targets \cup {Root}]
      /\ OpInv /\ TargetInv /\ GateInv
      /\ \A t \in TrashIds : QuietEntry(t)
  BY DEF RootIInv, RootInv, IInv, TypeOK, UploadsTypeOK, IndexInv, QuietEntry, filesVars
<1>1. ASSUME NEW u \in Uploads,
             \/ \E p \in Targets : CreatePart(u, p)
             \/ CreateRow(u) \/ PutChunk(u) \/ Cancel(u) \/ CleanupExpired(u)
             \/ CancelWithAudit(u) \/ ExpireWithAudit(u) \/ Expire(u)
      PROVE  IndexInv'
  <2>1. /\ UNCHANGED <<files, trash, rows, hidden, reason, gate, op>>
        /\ UNCHANGED server \/ server' = "stopping"
    BY <1>1 DEF CreatePart, CreateRow, PutChunk, Cancel, CleanupExpired, RemovePart,
                CancelWithAudit, ExpireWithAudit, Expire, planeVars, indexVars
  <2>2. ASSUME NEW v \in Uploads \ {u} PROVE QuietUpload(v)
    BY <1>0, <1>1, <2>2
       DEF CreatePart, CreateRow, PutChunk, Cancel, CleanupExpired, RemovePart, CancelWithAudit,
           ExpireWithAudit, FinishUncompleted, Expire, QuietUpload
  <2>3. QuietUpload(u)
    <3>1. CASE (\E p \in Targets : CreatePart(u, p)) \/ CreateRow(u)
      BY <1>0, <3>1 DEF CreatePart, CreateRow, OpInv, QuietUpload
    <3>2. CASE Cancel(u) \/ CleanupExpired(u)
      BY <1>0, <3>2 DEF Cancel, CleanupExpired, RemovePart, QuietUpload
    <3>3. CASE CancelWithAudit(u) \/ ExpireWithAudit(u)
      BY <1>0, <3>3 DEF CancelWithAudit, ExpireWithAudit, FinishUncompleted, QuietUpload
    <3>4. CASE PutChunk(u) \/ Expire(u)
      BY <3>4 DEF PutChunk, Expire, QuietUpload
    <3> QED
      BY <1>1, <3>1, <3>2, <3>3, <3>4
  <2>4. Quiet
    BY <1>0, <2>1, <2>2, <2>3 DEF Quiet
  <2> QED
    BY <1>0, <2>1, <2>4, SameOpIndex DEF GateInv
<1>2. ASSUME NEW u \in Uploads, PrepareFinalization(u) \/ ResumeFinalization(u)
      PROVE  IndexInv'
  <2>1. /\ UNCHANGED <<files, trash, rows, hidden, reason, gate, server>>
        /\ Accepting /\ op = Idle
        /\ op'.pc \in {"publish", "complete", "mark"} /\ op'.reason = UploadReason(u)
    BY <1>2 DEF PrepareFinalization, ResumeFinalization, Step, indexVars
  <2>2. \A v \in Uploads : QuietUpload(v)
    BY <1>0, <1>2 DEF PrepareFinalization, ResumeFinalization, QuietUpload, uploadsVars
  <2>3. Quiet
    BY <1>0, <2>1, <2>2 DEF Quiet
  <2> QED
    BY <2>1, <2>3, BeginUploadIndex
<1>3. CASE CleanupError
  <2>1. Quiet
    BY <1>0, <1>3 DEF CleanupError, Quiet, QuietUpload, indexVars, uploadsVars
  <2> QED
    BY <1>3, <2>1, SameOpIndex DEF CleanupError, indexVars
<1> QED
  BY <1>1, <1>2, <1>3 DEF UploadsRequest, JobStep, Background

LEMMA UploadsNextIndex ==
  ASSUME RootIInv, IndexInv, UploadsNext
  PROVE  IndexInv'
  BY UploadsRequestIndex, FinalizePartIndex, ResetFinalizingIndex, CompletePublishedIndex
     DEF UploadsNext, CompleteStep

(***************************************************************************)
(* The mark of a failed repair.  This is where "mark" must not be among    *)
(* the faults: the mark is the only record of what the operation left out. *)
(***************************************************************************)

LEMMA MarkNextIndex ==
  ASSUME RootIInv, IndexInv, MarkNext, "mark" \notin Faults
  PROVE  IndexInv'
<1>0. /\ op.pc = "mark" /\ reason' = Marked(op.reason) /\ op' = Idle
      /\ UNCHANGED <<files, trash, server, gate, rows, hidden, trashState, trashPath,
                     status, part, target>>
      /\ op.pc \notin MoveDone \cup MkdirDone
  BY DEF MarkNext, MarkIndexUnhealthy, At, Done, filesVars, uploadsVars, MoveDone, MkdirDone
<1>1. Quiet
  BY <1>0 DEF Quiet, QuietEntry, QuietUpload
<1>2. Hopeless => Hopeless'
  BY <1>0, HopelessStays
<1>3. OutIsRecorded'
  <2> SUFFICES ASSUME gate, reason'.kind \in {"healthy", "upload"}
               PROVE  /\ \A u \in Uploads : OutUpload(u)' => reason' = UploadReason(u)
                      /\ \A t \in TrashIds : ~OutTrash(t)' /\ ~OutRestore(t)'
    BY <1>0 DEF OutIsRecorded
  <2>1. /\ reason \in {Healthy, op.reason} /\ reason' = op.reason
        /\ reason.kind \in {"healthy", "upload"} /\ op.reason.kind \in {"healthy", "upload"}
    BY <1>0, Kinds DEF Marked
  <2>2. /\ \A u \in Uploads : OutUpload(u) => reason = UploadReason(u) \/ Completing(u)
        /\ \A t \in TrashIds : /\ OutTrash(t) => op.reason = TrashReason(t)
                               /\ OutRestore(t) => op.reason = RestoreReason(t)
    BY <2>1 DEF IndexInv, OutIsRecorded
  <2>3. \A u \in Uploads : OutUpload(u) => reason' = UploadReason(u)
    BY <2>1, <2>2, ReasonsDiffer DEF Completing
  <2>4. \A t \in TrashIds : ~OutTrash(t) /\ ~OutRestore(t)
    BY <2>1, <2>2, Kinds
  <2> QED
    BY <1>1, <2>3, <2>4, QuietOut
<1> QED
  BY <1>0, <1>1, <1>2, <1>3, EndIndex DEF IndexInv, GateInv

(***************************************************************************)
(* The startup.  Until it serves the gate is shut and nothing has to be    *)
(* recorded; it serves when nothing is out.                                *)
(***************************************************************************)

LEMMA NothingPending ==
  /\ PendingTrash = {} => \A t \in TrashIds : ~Out(t) /\ trashState[t] \notin {"trashing", "restoring"}
  /\ PendingUploads = {} => \A u \in Uploads : ~OutUpload(u)
  BY DEF PendingTrash, PendingUploads, Out, OutTrash, OutRestore, OutUpload

LEMMA NotServing ==
  ASSUME RootIInv, IndexInv, server \in {"down", "refused", "starting"}
  PROVE  /\ op = Idle /\ ~gate /\ PlainPc
         /\ op.pc \notin MoveDone \cup MkdirDone /\ op.reason = Healthy
  BY IdleReason, Kinds DEF RootIInv, IInv, OpInv, IndexInv, GateInv, PlainPc

LEMMA ReconcileTrashIndex ==
  ASSUME RootIInv, IndexInv, NEW t \in TrashIds, ReconcileTrash(t)
  PROVE  IndexInv'
<1>0. /\ op = Idle /\ ~gate /\ PlainPc /\ op.reason = Healthy
      /\ server = "starting" /\ trashState[t] \in {"trashing", "restoring"}
      /\ trashState \in [TrashIds -> TrashStates] /\ trashPath \in [TrashIds -> Paths \cup {Root}]
      /\ UNCHANGED <<files, trash, gate, op, status, part, target>>
  BY NotServing DEF ReconcileTrash, Reconciling, PendingTrash, RootIInv, IInv, TypeOK, FilesTypeOK,
                    uploadsVars
<1>1. GateInv' /\ FileOpInv' /\ PlainPc' /\ OutIsRecorded' /\ op' = Idle
  BY <1>0, IdleFrame DEF PlainPc, OutIsRecorded
<1>2. ASSUME Quiet, UNCHANGED reason PROVE IndexInv'
  <2>1. Hopeless => Hopeless'
    BY <1>0, <1>2, HopelessStays
  <2> QED
    BY <1>0, <1>1, <1>2, <2>1, EndIndex DEF PlainPc
<1>3. CASE OutTrash(t) /\ files[trashPath[t]] = Absent /\ CanCommitTrash(t) /\ DoCommitTrash(t)
  <2>1. OutInv' /\ OneOut' /\ RowsInv' /\ HiddenInv'
    BY <1>0, <1>1, <1>3, CommitTrashIndex
  <2> QED
    BY <1>1, <2>1 DEF IndexInv
<1>4. CASE OutRestore(t) /\ CanFinishRestore(t) /\ DoFinishRestore(t)
  <2>1. OutInv' /\ OneOut' /\ RowsInv' /\ HiddenInv'
    BY <1>0, <1>1, <1>4, FinishRestoreIndex
  <2> QED
    BY <1>1, <2>1 DEF IndexInv
<1>5. CASE /\ trashState[t] = "trashing" /\ trash[t] = EmptyTree
           /\ trashState' = [trashState EXCEPT ![t] = "none"]
           /\ trashPath' = [trashPath EXCEPT ![t] = Root]
           /\ UNCHANGED indexVars
  BY <1>0, <1>2, <1>5 DEF Quiet, QuietEntry, QuietUpload, indexVars
<1>6. CASE /\ trashState[t] = "restoring" /\ trash[t] # EmptyTree
           /\ trashState' = [trashState EXCEPT ![t] = "trashed"]
           /\ UNCHANGED <<indexVars, trashPath>>
  BY <1>0, <1>2, <1>6 DEF Quiet, QuietEntry, QuietUpload, indexVars
<1>7. CASE UNCHANGED <<rows, hidden, trashState, trashPath, reason>>
  BY <1>0, <1>2, <1>7 DEF Quiet, QuietEntry, QuietUpload
<1> QED
  BY <1>0, <1>3, <1>4, <1>5, <1>6, <1>7
     DEF ReconcileTrash, Refuse, OutTrash, OutRestore

LEMMA ReconcileUploadIndex ==
  ASSUME RootIInv, IndexInv, NEW u \in Uploads, ReconcileUpload(u)
  PROVE  IndexInv'
<1>0. /\ op = Idle /\ ~gate /\ PlainPc /\ op.reason = Healthy
      /\ server = "starting" /\ status[u] = "finalizing"
      /\ part \in [Uploads -> BOOLEAN] /\ status \in [Uploads -> Statuses]
      /\ UploadReason(u) \in RepairReasons
      /\ \A t \in TrashIds : ~Out(t)
      /\ UNCHANGED <<files, trash, gate, op, trashState, trashPath, part, target>>
  BY NotServing, NothingPending
     DEF ReconcileUpload, Reconciling, PendingUploads, RootIInv, IInv, TypeOK, UploadsTypeOK,
         filesVars, RepairReasons
<1>1. GateInv' /\ FileOpInv' /\ PlainPc' /\ OutIsRecorded' /\ op' = Idle
  BY <1>0, IdleFrame DEF PlainPc, OutIsRecorded
<1>2. ASSUME UNCHANGED <<rows, hidden>>,
             status' = status \/ (part[u] /\ status' = [status EXCEPT ![u] = "pending"]),
             reason' \in {reason, Cleared(UploadReason(u)), Marked(UploadReason(u))}
      PROVE  IndexInv'
  <2>1. Quiet
    BY <1>0, <1>2 DEF Quiet, QuietEntry, QuietUpload
  <2>2. Hopeless => Hopeless'
    <3>1. CASE reason' = reason
      BY <1>0, <3>1, HopelessStays
    <3>2. CASE reason' \in {Cleared(UploadReason(u)), Marked(UploadReason(u))}
      BY <1>0, <3>2, HopelessStays
    <3> QED
      BY <1>2, <3>1, <3>2
  <2> QED
    BY <1>0, <1>1, <2>1, <2>2, EndIndex DEF PlainPc
<1>3. CASE /\ ~part[u] /\ target[u] \notin Unindexable
           /\ CanComplete(u) /\ DoComplete(u) /\ UNCHANGED hidden
  <2>1. OutInv' /\ OneOut' /\ RowsInv' /\ HiddenInv'
    BY <1>0, <1>1, <1>3, CompleteIndex DEF OutUpload
  <2> QED
    BY <1>1, <2>1 DEF IndexInv
<1>4. CASE part[u] /\ DoResetFinalizing(u) /\ UNCHANGED <<rows, hidden>>
  BY <1>2, <1>4 DEF DoResetFinalizing
<1>5. CASE UNCHANGED <<rows, hidden, status>> /\ reason' \in {reason, Marked(UploadReason(u))}
  BY <1>2, <1>5
<1> QED
  BY <1>3, <1>4, <1>5 DEF ReconcileUpload, ResetDue, Refuse

LEMMA StartupIndex ==
  ASSUME RootIInv, IndexInv, Startup
  PROVE  IndexInv'
<1>1. CASE Start \/ StartDegraded \/ FinishStartup \/ StartWithoutStorage
  <2>1. /\ server \in {"down", "refused", "starting"}
        /\ UNCHANGED <<files, trash, rows, hidden, reason, trashState, trashPath>>
        /\ UNCHANGED <<status, part, target, op>>
        /\ server' \in {"down", "refused", "starting"} => ~gate' \/ UNCHANGED gate
        /\ gate' => UNCHANGED gate \/ ~Transitional
    BY <1>1 DEF Start, StartDegraded, FinishStartup, StartWithoutStorage, Down, Reconciling,
                indexVars, filesVars, uploadsVars
  <2>2. op = Idle /\ ~gate /\ op.pc \notin MoveDone \cup MkdirDone /\ op.reason = Healthy
    BY <2>1, NotServing
  <2>3. Quiet
    BY <2>1 DEF Quiet, QuietEntry, QuietUpload
  <2>4. Hopeless => Hopeless'
    BY <2>1, HopelessStays
  <2>5. OutIsRecorded'
    BY <2>1, <2>2, <2>3, NothingPending, QuietOut DEF OutIsRecorded, Transitional, Out
  <2> QED
    BY <2>1, <2>2, <2>3, <2>4, <2>5, EndIndex
<1> QED
  BY <1>1, ReconcileTrashIndex, ReconcileUploadIndex DEF Startup, Reconciliation

(***************************************************************************)
(* The end of the process and the offline commands.                        *)
(***************************************************************************)

LEMMA StopIndex ==
  ASSUME RootIInv, IndexInv, Stop
  PROVE  IndexInv'
<1>1. /\ UNCHANGED <<files, trash, rows, hidden, reason, trashState, trashPath>>
      /\ UNCHANGED <<status, part, target>>
      /\ op' = Idle /\ ~gate'
  BY DEF Stop, ForgetProcess, indexVars
<1>2. Quiet
  BY <1>1 DEF Quiet, QuietEntry, QuietUpload
<1>3. Hopeless => Hopeless'
  BY <1>1, HopelessStays, Kinds
<1>4. ASSUME op.pc \in MoveDone \cup MkdirDone PROVE Hopeless'
  <2>1. reason \in {MkdirReason, MoveReason, Multiple}
    BY <1>4 DEF IndexInv, FileOpInv, MoveDone, MkdirDone
  <2> QED
    BY <1>1, <2>1, Kinds, FileReasonsDiffer DEF Hopeless
<1>5. OutIsRecorded'
  BY <1>1 DEF OutIsRecorded
<1> QED
  BY <1>1, <1>2, <1>3, <1>4, <1>5, EndIndex

LEMMA ReindexIndex ==
  ASSUME RootIInv, IndexInv, Reindex
  PROVE  IndexInv'
<1>0. /\ UNCHANGED <<files, trash, gate, op, server, trashState, trashPath, status, part, target>>
      /\ rows' = files
      /\ \A t \in TrashIds :
           hidden'[t] = IF trashState[t] = "trashed" THEN trash[t] ELSE EmptyTree
      /\ \A t \in TrashIds : trashState[t] \notin {"trashing", "restoring"}
      /\ op = Idle /\ ~gate
      /\ OutInv /\ TrashInv
  <2>1. server \in {"down", "refused", "starting"}
    BY DEF Reindex, Down
  <2> QED
    BY <2>1, NotServing, NothingPending
       DEF Reindex, ReindexAccepts, planeVars, filesVars, uploadsVars, IndexInv, RootIInv, RootInv
<1>1. GateInv' /\ FileOpInv' /\ OutIsRecorded' /\ op'.pc \notin MoveDone \cup MkdirDone
  BY <1>0, IdleFrame DEF OutIsRecorded
<1>2. \A t \in TrashIds : ~OutTrash(t)' /\ ~OutRestore(t)' /\ ~Out(t)'
  BY <1>0 DEF Out, OutTrash, OutRestore
<1>3. OutInv' /\ OneOut'
  BY <1>0, <1>2 DEF OutInv, OneOut, OutUpload
<1>4. RowsInv'
  BY <1>0, <1>1 DEF RowsInv, ShowsAt, MoveDone, MkdirDone
<1>5. HiddenInv'
  <2>1. ASSUME NEW t \in TrashIds
        PROVE  /\ \A p \in Paths : hidden'[t][p] # Absent => p \in Below(trashPath'[t])
               /\ trashState'[t] \in {"none", "trashing"} => hidden'[t] = EmptyTree
               /\ Stored(t)' => Shows(hidden[t], trash[t])'
    BY <1>0 DEF TrashInv, SubtreeAt, EmptyTree, Stored, Shows
  <2> QED
    BY <1>2, <2>1 DEF HiddenInv, EmptyTree
<1> QED
  BY <1>1, <1>3, <1>4, <1>5 DEF IndexInv

LEMMA OtherIndex ==
  ASSUME RootIInv, IndexInv, LoseStorage \/ Stop \/ Administration \/ UNCHANGED vars
  PROVE  IndexInv'
<1>0. GateInv
  BY DEF IndexInv
<1>1. CASE LoseStorage \/ UNCHANGED vars \/ \E u \in Uploads : ReconcileUploadParts(u)
  <2>1. /\ UNCHANGED <<files, trash, rows, hidden, reason, trashState, trashPath, op, gate, server>>
        /\ \A u \in Uploads : QuietUpload(u)
    <3>1. CASE LoseStorage \/ UNCHANGED vars
      BY <3>1 DEF LoseStorage, vars, planeVars, indexVars, filesVars, uploadsVars, QuietUpload
    <3>2. ASSUME NEW u \in Uploads, ReconcileUploadParts(u)
          PROVE  /\ UNCHANGED <<files, trash, rows, hidden, reason, trashState, trashPath, op,
                                gate, server>>
                 /\ \A v \in Uploads : QuietUpload(v)
      BY <3>2 DEF ReconcileUploadParts, planeVars, indexVars, filesVars, QuietUpload,
                  RootIInv, IInv, TypeOK, UploadsTypeOK
    <3> QED
      BY <1>1, <3>1, <3>2
  <2>2. Quiet
    BY <2>1 DEF Quiet, QuietEntry
  <2> QED
    BY <1>0, <2>1, <2>2, SameOpIndex DEF GateInv
<1> QED
  BY <1>1, StopIndex, ReindexIndex DEF Administration

(***************************************************************************)
(* The invariant.                                                          *)
(***************************************************************************)

LEMMA InitIndexInv == Init => IndexInv
<1> SUFFICES ASSUME Init PROVE IndexInv
  OBVIOUS
<1>0. /\ rows = files /\ reason = Healthy /\ gate = FALSE /\ op = Idle
      /\ hidden = [t \in TrashIds |-> EmptyTree]
      /\ trashState = [t \in TrashIds |-> "none"]
      /\ status = [u \in Uploads |-> "none"]
  BY DEF Init, PlaneInit, FilesInit, UploadsInit
<1>1. /\ \A t \in TrashIds : ~OutTrash(t) /\ ~OutRestore(t) /\ ~Stored(t)
      /\ \A u \in Uploads : ~OutUpload(u)
      /\ op.pc = "idle" /\ op.reason = Healthy
  BY <1>0, Kinds DEF OutTrash, OutRestore, Stored, OutUpload
<1>2. OutInv /\ OneOut /\ GateInv /\ OutIsRecorded
  BY <1>0, <1>1 DEF OutInv, OneOut, Out, GateInv, OutIsRecorded
<1>3. FileOpInv
  BY <1>1, FileReasonsDiffer DEF FileOpInv
<1>4. RowsInv
  BY <1>0, <1>1 DEF RowsInv, ShowsAt
<1>5. HiddenInv
  BY <1>0, <1>1 DEF HiddenInv, EmptyTree
<1> QED
  BY <1>2, <1>3, <1>4, <1>5 DEF IndexInv

LEMMA StepIndexIInv ==
  ASSUME "mark" \notin Faults, IndexIInv, [Next]_vars
  PROVE  IndexIInv'
<1>1. RootIInv /\ IndexInv /\ RootIInv'
  BY StepRootIInv DEF IndexIInv
<1>2. IndexInv'
  BY <1>1, FilesNextIndex, UploadsNextIndex, MarkNextIndex, StartupIndex, OtherIndex DEF Next
<1> QED
  BY <1>1, <1>2 DEF IndexIInv

\* Whatever fails except the marking of the index, disk and index differ only
\* in what the operation, the transitional records and the reason account for.
THEOREM IndexInvariant ==
  ASSUME "mark" \notin Faults
  PROVE  Spec => []IndexIInv
<1>1. Init => IndexIInv
  BY InitRootIInv, InitIndexInv DEF IndexIInv
<1>2. IndexIInv /\ [Next]_vars => IndexIInv'
  BY StepIndexIInv
<1> QED
  BY <1>1, <1>2, PTL DEF Spec

(***************************************************************************)
(* What it means to a client, and to the next startup.                     *)
(***************************************************************************)

\* A request that reads the index behind an open gate, with no mutation in
\* progress, finds every row true and no file missing but those that no row
\* can describe, whatever failed and whoever crashed before.
THEOREM TheServedIndexIsTrue ==
  ASSUME "mark" \notin Faults
  PROVE  Spec => []ServedIndexIsTrue
<1>1. IndexIInv => ServedIndexIsTrue
  BY TruthOfIdle DEF IndexIInv, ServedIndexIsTrue, Stored
<1> QED
  BY <1>1, IndexInvariant, PTL

\* Of an entry that shows a disk truly: it is the disk, unless the disk has
\* a file that waits for its row or can have none.
LEMMA SettledShows ==
  ASSUME RootIInv, IndexInv, PendingUploads = {},
         NEW index \in Trees, NEW disk \in Trees, Shows(index, disk),
         \A p \in Paths : disk[p] \in Contents => Visible(disk[p])
  PROVE  index = disk
<1>1. ASSUME NEW p \in Paths PROVE index[p] = disk[p]
  <2> SUFFICES ASSUME disk[p] \in Uploads, target[disk[p]] \in Unindexable PROVE FALSE
    BY DEF Shows
  <2>1. Visible(disk[p])
    BY ContentPlaneAssumption
  <2>2. status[disk[p]] = "completed"
    BY <2>1 DEF RootIInv, IInv, VisibleInv, PendingUploads
  <2> QED
    BY <2>2 DEF IndexInv, OutInv
<1> QED
  BY <1>1 DEF Trees

LEMMA NothingHidden == IndexIInv => DivergenceIsRecorded
<1> SUFFICES ASSUME IndexIInv, UsableIndex, ~Transitional PROVE Agreement
  BY DEF DivergenceIsRecorded
<1>0. /\ RootIInv /\ IndexInv /\ reason = Healthy /\ ~Hopeless
      /\ files \in Trees /\ rows \in Trees
      /\ trash \in [TrashIds -> Trees] /\ hidden \in [TrashIds -> Trees]
      /\ PendingTrash = {} /\ PendingUploads = {}
  BY Kinds DEF IndexIInv, UsableIndex, Transitional, Hopeless,
               RootIInv, IInv, TypeOK, PlaneTypeOK
<1>1. /\ \A t \in TrashIds : ~Out(t)
      /\ \A u \in Uploads : ~OutUpload(u)
  BY <1>0, NothingPending
<1>2. op.pc \notin MoveDone \cup MkdirDone
  BY <1>0, FileReasonsDiffer, Kinds DEF IndexInv, FileOpInv, MoveDone, MkdirDone
<1>3. Shows(rows, files)
  BY <1>0, <1>1, <1>2, ShowsPointwise DEF IndexInv, RowsInv, RowIsDue, MoveDone, MkdirDone
<1>4. rows = files
  BY <1>0, <1>3, VisibleIn, SettledShows
<1>5. ASSUME NEW t \in TrashIds, trashState[t] = "trashed" PROVE hidden[t] = trash[t]
  <2>1. Shows(hidden[t], trash[t])
    BY <1>0, <1>5 DEF IndexInv, HiddenInv, Stored
  <2> QED
    BY <1>0, <2>1, VisibleIn, SettledShows
<1> QED
  BY <1>4, <1>5 DEF Agreement

\* Wherever the process stops, a healthy index without a transitional record
\* is the disk, active rows and rows of the trash.
THEOREM DivergenceLeavesARecord ==
  ASSUME "mark" \notin Faults
  PROVE  Spec => []DivergenceIsRecorded
  BY NothingHidden, IndexInvariant, PTL

\* Only three ways lead to a serving process.
LEMMA ServingBegins ==
  ASSUME [Next]_vars, server # "serving", server' = "serving"
  PROVE  StartDegraded \/ FinishStartup \/ StartWithoutStorage
<1>1. ~FilesNext
  BY DEF FilesNext, FilesRequest, FilesStep, Download, CreateDirectory, Move, BeginMutation,
         PrepareTrash, BeginRestore, MkdirOnDisk, MkdirIndex, MkdirUndo, ClearMutation,
         MoveOnDisk, MoveIndex, MoveUndo, MoveToTrash, AbortTrash, CommitTrash, RestoreFromTrash,
         RollbackRestore, FinishRestore, Lookup, OpenFile, MarkDownload, planeVars
<1>2. ~UploadsNext
  BY DEF UploadsNext, UploadsRequest, CompleteStep, JobStep, Background, CreatePart, PutChunk,
         PrepareFinalization, ResumeFinalization, Cancel, RemovePart, FinalizePart,
         ResetFinalizing, CompletePublished, CreateRow, CancelWithAudit, ExpireWithAudit,
         CleanupExpired, Expire, CleanupError, planeVars
<1>3. ~MarkNext /\ ~LoseStorage /\ ~Stop /\ ~Administration /\ ~UNCHANGED vars
  BY DEF MarkNext, LoseStorage, Stop, Administration, Reindex, ReconcileUploadParts, vars, planeVars
<1>4. ~Start /\ (\A t \in TrashIds : ~ReconcileTrash(t)) /\ (\A u \in Uploads : ~ReconcileUpload(u))
  BY DEF Start, ReconcileTrash, ReconcileUpload, Reconciling, Refuse
<1> QED
  BY <1>1, <1>2, <1>3, <1>4 DEF Next, Startup, Reconciliation

\* The startup opens the gate only on an index that agrees with the disk:
\* what a crash left over is reconciled or the process refuses to serve.
THEOREM TheGateOpensOnTruth ==
  ASSUME "mark" \notin Faults
  PROVE  Spec => GateOpensOnTruth
<1>1. ASSUME IndexIInv, [Next]_vars, server # "serving", server' = "serving", gate'
      PROVE  Agreement'
  <2>1. CASE StartWithoutStorage
    BY <1>1, <2>1 DEF StartWithoutStorage, IndexIInv, IndexInv, GateInv
  <2>2. CASE StartDegraded \/ FinishStartup
    <3>1. /\ UsableIndex /\ ~Transitional
          /\ UNCHANGED <<files, trash, rows, hidden, trashState>>
      <4>1. ~gate
        BY <1>1, <2>2 DEF StartDegraded, FinishStartup, Down, Reconciling, IndexIInv, IndexInv, GateInv
      <4> QED
        BY <1>1, <2>2, <4>1 DEF StartDegraded, FinishStartup, indexVars, filesVars
    <3>2. Agreement
      BY <1>1, <3>1, NothingHidden DEF DivergenceIsRecorded
    <3> QED
      BY <3>1, <3>2 DEF Agreement
  <2> QED
    BY <1>1, <2>1, <2>2, ServingBegins
<1>2. IndexIInv /\ [Next]_vars
        => [server # "serving" /\ server' = "serving" /\ gate' => Agreement']_vars
  BY <1>1
<1> QED
  BY <1>2, IndexInvariant, PTL DEF Spec, GateOpensOnTruth
=============================================================================
