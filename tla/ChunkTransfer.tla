--------------------------- MODULE ChunkTransfer ---------------------------
(***************************************************************************)
(* The bytes of one upload on their way from chunk requests to the         *)
(* published file: PutChunk, Complete, Cancel and CleanupExpired of        *)
(* internal/uploads, with the part file, its directory entry, the page     *)
(* cache between both and the disk, and the rows of upload_chunks.         *)
(*                                                                         *)
(* A chunk is identified by its index; its bytes are a member of Data, and *)
(* equal data have equal SHA-256 values.  The locks of UploadLocks appear  *)
(* as what they guarantee: one request per index, and no chunk request     *)
(* while an upload is completed, cancelled or expired.                     *)
(***************************************************************************)
EXTENDS Naturals, FiniteSets

CONSTANTS
  Workers,  \* concurrent requests
  Indexes,  \* 0 .. TotalChunks - 1
  Data,     \* correct-length contents of a chunk
  None,     \* no row, no checksum
  Torn      \* bytes that no complete chunk request sent

VARIABLES
  whole,    \* whole_sha256 announced at creation, or None
  status,   \* uploads.status
  recorded, \* upload_chunks.sha256 of each index
  part,     \* the part file as the page cache shows it
  stable,   \* the part file as it survives a power failure
  entry,    \* the directory entry of the part
  put,      \* put[w]: the chunk request of a goroutine
  published,\* the file below files/
  acked     \* history: what clients were told is stored

vars == <<whole, status, recorded, part, stable, entry, put, published, acked>>

Files == [Indexes -> Data \cup {Torn}]

ASSUME ChunkTransferAssumption ==
  None \notin Data /\ Torn \notin Data /\ None # Torn /\ None \notin Files

NoFile == [i \in Indexes |-> Torn]

\* The entry is "unlinked" while a power failure may still undo the removal
\* of the part, which no fsync of the directory follows.
EntryStates == {"linked", "unlinked", "gone"}

\* A request: its index, the bytes of the body, the checksum header, and
\* the row it found.
NotPutting == [pc |-> "idle"]
Puts == [pc : {"stream", "verify", "sync", "record"}, index : Indexes,
         body : Data \cup {Torn}, sha256 : Data, row : Data \cup {None}] \cup {NotPutting}

Init ==
  /\ whole \in [Indexes -> Data] \cup {None}
  /\ status = "pending"
  /\ recorded = [i \in Indexes |-> None]
  /\ part = NoFile /\ stable = NoFile /\ entry = "linked"
  /\ put = [w \in Workers |-> NotPutting]
  /\ published = None
  /\ acked = [i \in Indexes |-> {}]

Putting == {w \in Workers : put[w] # NotPutting}

\* lockExclusive waits for every chunk request.
Quiet == Putting = {}

At(w, pc) == w \in Putting /\ put[w].pc = pc
Goto(w, pc) == put' = [put EXCEPT ![w].pc = pc]
Leave(w) == put' = [put EXCEPT ![w] = NotPutting]

-----------------------------------------------------------------------------
(* PutChunk *)

\* Mutant of BeginPut: no lock per index.
BeginPutUnlocked(w, i, body, sha256) ==
  /\ w \notin Putting
  /\ status = "pending"
  /\ recorded[i] = None => entry = "linked"
  /\ put' = [put EXCEPT ![w] = [pc |-> "stream", index |-> i, body |-> body,
                                sha256 |-> sha256, row |-> recorded[i]]]
  /\ UNCHANGED <<whole, status, recorded, part, stable, entry, published, acked>>

\* lockChunk, Find, chunkBounds, FindChunk and, for a chunk without a row,
\* OpenPart, which does not create the part.  The body may be cut off by
\* the client; the handler lets no body through that is longer than the
\* chunk.
BeginPut(w, i, body, sha256) ==
  /\ w \notin Putting
  /\ \A v \in Putting : put[v].index # i
  /\ status = "pending"
  /\ recorded[i] = None => entry = "linked"
  /\ put' = [put EXCEPT ![w] = [pc |-> "stream", index |-> i, body |-> body,
                                sha256 |-> sha256, row |-> recorded[i]]]
  /\ UNCHANGED <<whole, status, recorded, part, stable, entry, published, acked>>

\* CopyBuffer into the part file, or into nothing when the chunk is there.
Stream(w) ==
  /\ At(w, "stream")
  /\ part' = IF put[w].row = None THEN [part EXCEPT ![put[w].index] = put[w].body]
             ELSE part
  /\ Goto(w, "verify")
  /\ UNCHANGED <<whole, status, recorded, stable, entry, published, acked>>

\* Mutant of Verify: any correct retry of a recorded chunk is a success.
VerifyLoosely(w) ==
  /\ At(w, "verify")
  /\ LET p == put[w]  correct == p.body \in Data /\ p.body = p.sha256 IN
     \/ /\ correct /\ p.row = None
        /\ Goto(w, "sync") /\ UNCHANGED acked
     \/ /\ correct /\ p.row # None
        /\ acked' = [acked EXCEPT ![p.index] = @ \cup {p.body}]
        /\ Leave(w)
     \/ /\ ~correct
        /\ Leave(w) /\ UNCHANGED acked
  /\ UNCHANGED <<whole, status, recorded, part, stable, entry, published>>

\* Length and checksum, and the verdict on a chunk that is already there.
Verify(w) ==
  /\ At(w, "verify")
  /\ LET p == put[w]  correct == p.body \in Data /\ p.body = p.sha256 IN
     \/ /\ correct /\ p.row = None
        /\ Goto(w, "sync") /\ UNCHANGED acked
     \/ /\ correct /\ p.row = p.body
        /\ acked' = [acked EXCEPT ![p.index] = @ \cup {p.body}]
        /\ Leave(w)
     \/ /\ ~correct \/ p.row \notin {None, p.body}
        /\ Leave(w) /\ UNCHANGED acked
  /\ UNCHANGED <<whole, status, recorded, part, stable, entry, published>>

\* fsync covers the file, the bytes of other requests included.
Sync(w) ==
  /\ At(w, "sync")
  /\ \/ stable' = part /\ Goto(w, "record")
     \/ Leave(w) /\ UNCHANGED stable
  /\ UNCHANGED <<whole, status, recorded, part, entry, published, acked>>

\* RecordChunk; the transaction may fail, or the answer alone get lost.
Record(w) ==
  /\ At(w, "record")
  /\ LET p == put[w] IN
     \/ /\ recorded[p.index] = None
        /\ recorded' = [recorded EXCEPT ![p.index] = p.body]
        /\ \/ acked' = [acked EXCEPT ![p.index] = @ \cup {p.body}]
           \/ UNCHANGED acked
     \/ UNCHANGED <<recorded, acked>>
  /\ Leave(w)
  /\ UNCHANGED <<whole, status, part, stable, entry, published>>

-----------------------------------------------------------------------------
(* Complete *)

\* Mutant of Prepare: the announced checksum is kept but not compared.
PrepareUnverified ==
  /\ Quiet
  /\ status \in {"pending", "finalizing"} /\ published = None /\ entry = "linked"
  /\ \A i \in Indexes : recorded[i] # None /\ part[i] = recorded[i]
  /\ stable' = part
  /\ status' = "finalizing"
  /\ whole' = IF whole = None THEN part ELSE whole
  /\ UNCHANGED <<recorded, part, entry, put, published, acked>>

\* ValidateChunks, PartInfo, verifyAndSyncPart with the fsync, PrepareFinalization.
Prepare ==
  /\ Quiet
  /\ status \in {"pending", "finalizing"} /\ published = None /\ entry = "linked"
  /\ \A i \in Indexes : recorded[i] # None /\ part[i] = recorded[i]
  /\ whole \in {None, part}
  /\ stable' = part
  /\ status' = "finalizing"
  /\ whole' = part
  /\ UNCHANGED <<recorded, part, entry, put, published, acked>>

\* FinalizePart; a failure resets a first attempt, and so does a startup.
Publish ==
  /\ Quiet /\ status = "finalizing" /\ published = None /\ entry = "linked"
  /\ \/ published' = part /\ entry' = "gone" /\ UNCHANGED status
     \/ status' = "pending" /\ UNCHANGED <<published, entry>>
  /\ UNCHANGED <<whole, recorded, part, stable, put, acked>>

\* CompleteWithAudit.
Commit ==
  /\ Quiet /\ status = "finalizing" /\ published # None
  /\ status' = "completed"
  /\ UNCHANGED <<whole, recorded, part, stable, entry, put, published, acked>>

-----------------------------------------------------------------------------
(* Cancel and CleanupExpired *)

\* RemovePart; it succeeds as well when there is no part.  What follows may
\* fail or not come about: the upload is then pending, with its rows and
\* without its part, until it is cancelled again.
RemovePart ==
  /\ Quiet /\ status = "pending"
  /\ entry' = IF entry = "linked" THEN "unlinked" ELSE entry
  /\ UNCHANGED <<whole, status, recorded, part, stable, put, published, acked>>

\* Mutant of FinishUncompleted: the rows keep an empty checksum.
FinishKeepsRows ==
  /\ Quiet /\ status = "pending" /\ entry # "linked"
  /\ recorded' = NoFile
  /\ status' = "cancelled"
  /\ UNCHANGED <<whole, part, stable, entry, put, published, acked>>

\* The transaction of CancelWithAudit and ExpireWithAudit.
FinishUncompleted ==
  /\ Quiet /\ status = "pending" /\ entry # "linked"
  /\ recorded' = [i \in Indexes |-> None]
  /\ status' = "cancelled"
  /\ UNCHANGED <<whole, part, stable, entry, put, published, acked>>

-----------------------------------------------------------------------------
(* Faults *)

\* The client goes away, or a read or a write fails, in the middle of a
\* body.
Break(w) ==
  /\ At(w, "stream")
  /\ part' = IF put[w].row = None THEN [part EXCEPT ![put[w].index] = Torn] ELSE part
  /\ Leave(w)
  /\ UNCHANGED <<whole, status, recorded, stable, entry, published, acked>>

\* Power failure: of the bytes that no fsync covered any part may be lost,
\* and a part that was removed may be there again.
Crash ==
  /\ published = None
  /\ entry' \in IF entry = "unlinked" THEN {"linked", "gone"} ELSE {entry}
  /\ \E lost \in SUBSET Indexes :
       part' = IF entry' = "gone" THEN NoFile
               ELSE [i \in Indexes |-> IF i \in lost THEN stable[i] ELSE part[i]]
  /\ stable' = part'
  /\ put' = [w \in Workers |-> NotPutting]
  /\ UNCHANGED <<whole, status, recorded, published, acked>>

-----------------------------------------------------------------------------

Next ==
  \/ \E w \in Workers :
       \/ \E i \in Indexes, body \in Data \cup {Torn}, sha256 \in Data :
            BeginPut(w, i, body, sha256)
       \/ Stream(w) \/ Verify(w) \/ Sync(w) \/ Record(w) \/ Break(w)
  \/ Prepare \/ Publish \/ Commit
  \/ RemovePart \/ FinishUncompleted
  \/ Crash

Spec == Init /\ [][Next]_vars

TypeOK ==
  /\ whole \in [Indexes -> Data \cup {Torn}] \cup {None}
  /\ status \in {"pending", "finalizing", "completed", "cancelled"}
  /\ recorded \in [Indexes -> Data \cup {None}]
  /\ part \in Files /\ stable \in Files /\ entry \in EntryStates
  /\ put \in [Workers -> Puts]
  /\ published \in Files \cup {None}
  /\ acked \in [Indexes -> SUBSET Data]

-----------------------------------------------------------------------------

\* A recorded chunk is in the part as recorded, in the page cache and after
\* any power failure: no slower, repeated, broken or conflicting request
\* for it, and none for its neighbours, writes into it.  Only a cancellation
\* or a cleanup that stopped after RemovePart leaves rows whose part is
\* gone, and such an upload is never on its way to being published.
RecordedIsStored ==
  /\ status \in {"pending", "finalizing"} /\ entry # "gone" =>
       \A i \in Indexes : recorded[i] # None => part[i] = recorded[i] /\ stable[i] = recorded[i]
  /\ status = "finalizing" => entry = "linked" \/ published # None

\* The published file is, chunk by chunk, what the rows record and what the
\* clients were told is stored, and as a whole what the client that created
\* the upload announced.
PublishedIsAcknowledged ==
  published # None =>
    /\ \A i \in Indexes : recorded[i] = published[i] /\ acked[i] \subseteq {published[i]}
    /\ whole = published

\* Of two different contents for one chunk only one is ever acknowledged.
OneAnswerPerChunk == \A i \in Indexes : Cardinality(acked[i]) <= 1
=============================================================================
