------------------------- MODULE ChunkTransferProofs -------------------------
(***************************************************************************)
(* Proofs about ChunkTransfer, for every number of requests, chunks and    *)
(* contents.                                                               *)
(*                                                                         *)
(* RecordedIsStored is not inductive: that a row may be written rests on   *)
(* what the request has done before, and that nobody has touched the chunk *)
(* since.  StageInv says what a request knows at each of its steps, LockInv*)
(* that it is the only one for its chunk, and FinalInv what a completion   *)
(* has frozen.                                                             *)
(***************************************************************************)
EXTENDS ChunkTransfer, FiniteSetTheorems, TLAPS

\* One request per chunk, only while the upload is pending, the row a
\* request has read is still the row, and the part is there for a request
\* that writes.
LockInv ==
  /\ \A v, w \in Putting : v # w => put[v].index # put[w].index
  /\ Putting # {} => status = "pending"
  /\ \A w \in Putting : put[w].row = recorded[put[w].index]
  /\ \A w \in Putting : put[w].row = None => entry = "linked"

\* What a request without a row has achieved at its steps.
StageInv ==
  \A w \in Putting :
    LET p == put[w] IN
    /\ p.pc = "verify" /\ p.row = None => part[p.index] = p.body
    /\ p.pc \in {"sync", "record"} =>
         p.row = None /\ p.body \in Data /\ part[p.index] = p.body
    /\ p.pc = "record" => stable[p.index] = p.body

\* What Prepare has established holds until the upload is pending again.
FinalInv ==
  /\ status = "finalizing" \/ published # None =>
       /\ whole = part /\ stable = part
       /\ \A i \in Indexes : recorded[i] # None /\ part[i] = recorded[i]
  /\ published # None => published = part /\ status \in {"finalizing", "completed"}

\* An answer names the recorded content, as long as there are rows.
AckInv ==
  /\ \A i \in Indexes : \A a, b \in acked[i] : a = b
  /\ status # "cancelled" => \A i \in Indexes : \A a \in acked[i] : a = recorded[i]

IInv == TypeOK /\ LockInv /\ StageInv /\ RecordedIsStored /\ FinalInv /\ AckInv

-----------------------------------------------------------------------------
(* What the three ways to change put do. *)

LEMMA PutType ==
  ASSUME TypeOK, NEW w \in Putting
  PROVE  /\ w \in Workers
         /\ put[w] \in [pc : {"stream", "verify", "sync", "record"}, index : Indexes,
                        body : Data \cup {Torn}, sha256 : Data, row : Data \cup {None}]
         /\ put[w].index \in Indexes /\ put[w].body \in Data \cup {Torn}
         /\ put[w].sha256 \in Data /\ put[w].row \in Data \cup {None}
  BY DEF TypeOK, Putting, Puts

LEMMA GotoFacts ==
  ASSUME TypeOK, NEW w \in Putting, NEW s \in {"verify", "sync", "record"}, Goto(w, s)
  PROVE  /\ put' \in [Workers -> Puts] /\ Putting' = Putting
         /\ \A v \in Putting : v # w => put'[v] = put[v]
         /\ put'[w].pc = s /\ put'[w].index = put[w].index /\ put'[w].body = put[w].body
         /\ put'[w].sha256 = put[w].sha256 /\ put'[w].row = put[w].row
<1>1. put'[w] = [put[w] EXCEPT !.pc = s] /\ \A v \in Workers : v # w => put'[v] = put[v]
  BY PutType DEF Goto, TypeOK
<1>2. /\ put'[w].pc = s /\ put'[w].index = put[w].index /\ put'[w].body = put[w].body
      /\ put'[w].sha256 = put[w].sha256 /\ put'[w].row = put[w].row
      /\ put'[w] \in [pc : {"stream", "verify", "sync", "record"}, index : Indexes,
                      body : Data \cup {Torn}, sha256 : Data, row : Data \cup {None}]
  BY <1>1, PutType
<1>3. put'[w] # NotPutting
  BY <1>2 DEF NotPutting
<1>4. put' \in [Workers -> Puts]
  BY <1>2, PutType DEF Goto, TypeOK, Puts
<1>5. Putting' = Putting
  BY <1>1, <1>3 DEF Putting
<1> QED
  BY <1>1, <1>2, <1>4, <1>5 DEF Putting

LEMMA LeaveFacts ==
  ASSUME TypeOK, NEW w \in Putting, Leave(w)
  PROVE  /\ put' \in [Workers -> Puts] /\ Putting' = Putting \ {w}
         /\ \A v \in Putting : v # w => put'[v] = put[v]
  BY DEF TypeOK, Leave, Putting, Puts

LEMMA BeginFacts ==
  ASSUME TypeOK, NEW w \in Workers, w \notin Putting, NEW i \in Indexes,
         NEW body \in Data \cup {Torn}, NEW sha256 \in Data, BeginPut(w, i, body, sha256)
  PROVE  /\ put' \in [Workers -> Puts] /\ Putting' = Putting \cup {w}
         /\ \A v \in Putting : v # w => put'[v] = put[v]
         /\ put'[w].pc = "stream" /\ put'[w].index = i /\ put'[w].row = recorded[i]
<1>1. /\ put'[w] = [pc |-> "stream", index |-> i, body |-> body, sha256 |-> sha256, row |-> recorded[i]]
      /\ \A v \in Workers : v # w => put'[v] = put[v]
  BY DEF TypeOK, BeginPut
<1>2. put'[w].pc = "stream" /\ put'[w].index = i /\ put'[w].row = recorded[i]
  BY <1>1
<1>3. put'[w] \in Puts /\ put'[w] # NotPutting
  BY <1>1, <1>2 DEF TypeOK, Puts, NotPutting
<1>4. put' \in [Workers -> Puts]
  BY <1>3 DEF TypeOK, BeginPut
<1> QED
  BY <1>1, <1>2, <1>3, <1>4 DEF Putting

-----------------------------------------------------------------------------
(* The invariant holds at first, and every step preserves it. *)

LEMMA InitIInv == Init => IInv
<1> SUFFICES ASSUME Init PROVE IInv
  OBVIOUS
<1>1. Putting = {}
  BY DEF Init, Putting
<1>2. TypeOK
  BY DEF Init, TypeOK, Files, NoFile, Puts, EntryStates
<1>3. LockInv /\ StageInv
  BY <1>1 DEF LockInv, StageInv
<1>4. RecordedIsStored /\ FinalInv /\ AckInv
  BY DEF Init, RecordedIsStored, FinalInv, AckInv
<1> QED
  BY <1>2, <1>3, <1>4 DEF IInv

\* A new request reads the row while no other request has the chunk.
LEMMA BeginPutStep ==
  ASSUME IInv, NEW w \in Workers, NEW i \in Indexes, NEW body \in Data \cup {Torn},
         NEW sha256 \in Data, BeginPut(w, i, body, sha256)
  PROVE  IInv'
<1> USE ChunkTransferAssumption DEF IInv
<1>a. /\ w \notin Putting /\ status = "pending" /\ \A v \in Putting : put[v].index # i
      /\ UNCHANGED <<whole, status, recorded, part, stable, entry, published, acked>>
      /\ recorded[i] = None => entry = "linked"
  BY DEF BeginPut
<1>b. /\ put' \in [Workers -> Puts] /\ Putting' = Putting \cup {w}
      /\ \A v \in Putting : v # w => put'[v] = put[v]
      /\ put'[w].pc = "stream" /\ put'[w].index = i /\ put'[w].row = recorded[i]
  BY <1>a, BeginFacts
<1>1. TypeOK'
  BY <1>a, <1>b DEF TypeOK
<1>2. LockInv'
  BY <1>a, <1>b DEF LockInv
<1>3. StageInv'
  BY <1>a, <1>b DEF StageInv
<1>4. RecordedIsStored'
  BY <1>a DEF RecordedIsStored
<1>5. FinalInv'
  BY <1>a DEF FinalInv
<1>6. AckInv'
  BY <1>a DEF AckInv
<1> QED
  BY <1>1, <1>2, <1>3, <1>4, <1>5, <1>6

\* The body goes into the part only when the chunk has no row.
LEMMA StreamStep ==
  ASSUME IInv, NEW w \in Workers, Stream(w)
  PROVE  IInv'
<1> USE ChunkTransferAssumption DEF IInv
<1>a. w \in Putting /\ Goto(w, "verify")
  BY DEF Stream, At
<1>b. /\ put' \in [Workers -> Puts] /\ Putting' = Putting
      /\ \A v \in Putting : v # w => put'[v] = put[v]
      /\ put'[w].pc = "verify" /\ put'[w].index = put[w].index /\ put'[w].body = put[w].body
      /\ put'[w].row = put[w].row
  BY <1>a, GotoFacts
<1>c. /\ status = "pending" /\ put[w].row = recorded[put[w].index]
      /\ put[w].index \in Indexes /\ put[w].body \in Data \cup {Torn}
      /\ \A v \in Putting : v # w => put[v].index # put[w].index
  BY <1>a, PutType DEF LockInv
<1>d. /\ \A j \in Indexes : part'[j] = IF j = put[w].index /\ put[w].row = None
                                       THEN put[w].body ELSE part[j]
      /\ part' \in Files
      /\ UNCHANGED <<whole, status, recorded, stable, entry, published, acked>>
  BY <1>c DEF Stream, TypeOK, Files
<1>1. TypeOK'
  BY <1>b, <1>d DEF TypeOK
<1>2. LockInv'
  BY <1>b, <1>c, <1>d DEF LockInv
<1>3. StageInv'
  <2>1. \A v \in Putting : put[v].index \in Indexes
    BY PutType
  <2> QED
    BY <2>1, <1>a, <1>b, <1>c, <1>d DEF StageInv
<1>4. RecordedIsStored'
  BY <1>c, <1>d DEF RecordedIsStored
<1>5. FinalInv'
  BY <1>c, <1>d DEF FinalInv
<1>6. AckInv'
  BY <1>d DEF AckInv
<1> QED
  BY <1>1, <1>2, <1>3, <1>4, <1>5, <1>6

\* A broken request leaves a torn chunk only where there is no row.
LEMMA BreakStep ==
  ASSUME IInv, NEW w \in Workers, Break(w)
  PROVE  IInv'
<1> USE ChunkTransferAssumption DEF IInv
<1>a. w \in Putting /\ Leave(w)
  BY DEF Break, At
<1>b. /\ put' \in [Workers -> Puts] /\ Putting' = Putting \ {w}
      /\ \A v \in Putting : v # w => put'[v] = put[v]
  BY <1>a, LeaveFacts
<1>c. /\ status = "pending" /\ put[w].row = recorded[put[w].index]
      /\ put[w].index \in Indexes
      /\ \A v \in Putting : v # w => put[v].index # put[w].index
  BY <1>a, PutType DEF LockInv
<1>d. /\ \A j \in Indexes : part'[j] = IF j = put[w].index /\ put[w].row = None
                                       THEN Torn ELSE part[j]
      /\ part' \in Files
      /\ UNCHANGED <<whole, status, recorded, stable, entry, published, acked>>
  BY <1>c DEF Break, TypeOK, Files
<1>1. TypeOK'
  BY <1>b, <1>d DEF TypeOK
<1>2. LockInv'
  BY <1>b, <1>c, <1>d DEF LockInv
<1>3. StageInv'
  <2>1. \A v \in Putting : put[v].index \in Indexes
    BY PutType
  <2> QED
    BY <2>1, <1>a, <1>b, <1>c, <1>d DEF StageInv
<1>4. RecordedIsStored'
  BY <1>c, <1>d DEF RecordedIsStored
<1>5. FinalInv'
  BY <1>c, <1>d DEF FinalInv
<1>6. AckInv'
  BY <1>d DEF AckInv
<1> QED
  BY <1>1, <1>2, <1>3, <1>4, <1>5, <1>6

\* Only a correct body goes on, and only one that agrees with the row is
\* answered.
LEMMA VerifyStep ==
  ASSUME IInv, NEW w \in Workers, Verify(w)
  PROVE  IInv'
<1> USE ChunkTransferAssumption DEF IInv
<1>a. /\ w \in Putting /\ put[w].pc = "verify"
      /\ UNCHANGED <<whole, status, recorded, part, stable, entry, published>>
  BY DEF Verify, At
<1>b. /\ put[w].row = recorded[put[w].index] /\ put[w].index \in Indexes
      /\ put[w].row \in Data \cup {None}
  BY <1>a, PutType DEF LockInv
<1>c. \/ put[w].row = None /\ put[w].body \in Data /\ Goto(w, "sync") /\ acked' = acked
      \/ /\ put[w].body \in Data /\ put[w].row = put[w].body /\ Leave(w)
         /\ acked' = [acked EXCEPT ![put[w].index] = @ \cup {put[w].body}]
      \/ Leave(w) /\ acked' = acked
  BY DEF Verify
<1>d. \/ /\ put[w].row = None /\ put[w].body \in Data /\ acked' = acked
         /\ put' \in [Workers -> Puts] /\ Putting' = Putting
         /\ \A v \in Putting : v # w => put'[v] = put[v]
         /\ put'[w].pc = "sync" /\ put'[w].index = put[w].index /\ put'[w].body = put[w].body
         /\ put'[w].row = put[w].row
      \/ /\ put' \in [Workers -> Puts] /\ Putting' = Putting \ {w}
         /\ \A v \in Putting : v # w => put'[v] = put[v]
  BY <1>a, <1>c, GotoFacts, LeaveFacts
<1>e. acked' \in [Indexes -> SUBSET Data]
  <2>1. CASE acked' = acked
    BY <2>1 DEF TypeOK
  <2>2. CASE /\ put[w].body \in Data
             /\ acked' = [acked EXCEPT ![put[w].index] = @ \cup {put[w].body}]
    BY <2>2 DEF TypeOK
  <2> QED
    BY <1>c, <2>1, <2>2
<1>f. \A j \in Indexes : \A a \in acked'[j] :
        a \in acked[j] \/ (a = recorded[j] /\ recorded[j] # None)
  <2>1. CASE acked' = acked
    BY <2>1
  <2>2. CASE /\ put[w].body \in Data /\ put[w].row = put[w].body
             /\ acked' = [acked EXCEPT ![put[w].index] = @ \cup {put[w].body}]
    <3>1. recorded[put[w].index] = put[w].body /\ put[w].body # None
      BY <1>b, <2>2
    <3> QED
      BY <1>b, <2>2, <3>1 DEF TypeOK
  <2> QED
    BY <1>c, <2>1, <2>2
<1>1. TypeOK'
  BY <1>a, <1>d, <1>e DEF TypeOK
<1>2. LockInv'
  BY <1>a, <1>b, <1>d DEF LockInv
<1>3. StageInv'
  BY <1>a, <1>b, <1>d DEF StageInv
<1>4. RecordedIsStored'
  BY <1>a DEF RecordedIsStored
<1>5. FinalInv'
  BY <1>a DEF FinalInv
<1>6. AckInv'
  <2>1. status = "pending"
    BY <1>a DEF LockInv
  <2>2. \A j \in Indexes : \A a \in acked'[j] : a = recorded[j]
    BY <1>f, <2>1 DEF AckInv
  <2> QED
    BY <1>a, <2>2 DEF AckInv
<1> QED
  BY <1>1, <1>2, <1>3, <1>4, <1>5, <1>6

\* A successful fsync makes the bytes of the request durable.
LEMMA SyncStep ==
  ASSUME IInv, NEW w \in Workers, Sync(w)
  PROVE  IInv'
<1> USE ChunkTransferAssumption DEF IInv
<1>a. /\ w \in Putting /\ put[w].pc = "sync" /\ status = "pending"
      /\ UNCHANGED <<whole, status, recorded, part, entry, published, acked>>
  BY DEF Sync, At, LockInv
<1>b. \/ Goto(w, "record") /\ stable' = part
      \/ Leave(w) /\ stable' = stable
  BY DEF Sync
<1>c. \/ /\ put' \in [Workers -> Puts] /\ Putting' = Putting /\ stable' = part
         /\ \A v \in Putting : v # w => put'[v] = put[v]
         /\ put'[w].pc = "record" /\ put'[w].index = put[w].index /\ put'[w].body = put[w].body
         /\ put'[w].row = put[w].row
      \/ /\ put' \in [Workers -> Puts] /\ Putting' = Putting \ {w} /\ stable' = stable
         /\ \A v \in Putting : v # w => put'[v] = put[v]
  BY <1>a, <1>b, GotoFacts, LeaveFacts
<1>1. TypeOK'
  BY <1>a, <1>c DEF TypeOK
<1>2. LockInv'
  BY <1>a, <1>c DEF LockInv
<1>3. StageInv'
  BY <1>a, <1>c DEF StageInv
<1>4. RecordedIsStored'
  BY <1>a, <1>c DEF RecordedIsStored
<1>5. FinalInv'
  BY <1>a, <1>c DEF FinalInv
<1>6. AckInv'
  BY <1>a DEF AckInv
<1> QED
  BY <1>1, <1>2, <1>3, <1>4, <1>5, <1>6

\* The row is written for bytes that are durable.
LEMMA RecordStep ==
  ASSUME IInv, NEW w \in Workers, Record(w)
  PROVE  IInv'
<1> USE ChunkTransferAssumption DEF IInv
<1>a. /\ w \in Putting /\ put[w].pc = "record" /\ Leave(w)
      /\ UNCHANGED <<whole, status, part, stable, entry, published>>
  BY DEF Record, At
<1>b. /\ put' \in [Workers -> Puts] /\ Putting' = Putting \ {w}
      /\ \A v \in Putting : v # w => put'[v] = put[v]
  BY <1>a, LeaveFacts
<1>c. /\ status = "pending" /\ put[w].row = recorded[put[w].index]
      /\ put[w].index \in Indexes /\ put[w].body \in Data /\ put[w].row = None
      /\ part[put[w].index] = put[w].body /\ stable[put[w].index] = put[w].body
      /\ \A v \in Putting : v # w => put[v].index # put[w].index
  BY <1>a, PutType DEF LockInv, StageInv
<1>d. \/ /\ recorded' = [recorded EXCEPT ![put[w].index] = put[w].body]
         /\ \/ acked' = [acked EXCEPT ![put[w].index] = @ \cup {put[w].body}]
            \/ acked' = acked
      \/ recorded' = recorded /\ acked' = acked
  BY DEF Record
<1>e. /\ recorded' \in [Indexes -> Data \cup {None}] /\ acked' \in [Indexes -> SUBSET Data]
      /\ \A j \in Indexes : j # put[w].index => recorded'[j] = recorded[j] /\ acked'[j] = acked[j]
      /\ \/ recorded'[put[w].index] = put[w].body
         \/ recorded' = recorded /\ acked' = acked
      /\ \A a \in acked'[put[w].index] : a \in acked[put[w].index] \/ a = recorded'[put[w].index]
  BY <1>c, <1>d DEF TypeOK
<1>1. TypeOK'
  BY <1>a, <1>b, <1>e DEF TypeOK
<1>2. LockInv'
  <2>1. \A v \in Putting : put[v].index \in Indexes
    BY PutType
  <2> QED
    BY <2>1, <1>a, <1>b, <1>c, <1>e DEF LockInv
<1>3. StageInv'
  BY <1>a, <1>b DEF StageInv
<1>4. RecordedIsStored'
  BY <1>a, <1>c, <1>e DEF RecordedIsStored
<1>5. FinalInv'
  BY <1>a, <1>c DEF FinalInv
<1>6. AckInv'
  <2>1. acked[put[w].index] = {}
    <3>1. acked[put[w].index] \subseteq Data
      BY <1>c DEF TypeOK
    <3>2. \A a \in acked[put[w].index] : a = None
      BY <1>c DEF AckInv
    <3> QED
      BY <3>1, <3>2
  <2>2. \A j \in Indexes : \A a \in acked'[j] : a = recorded'[j]
    BY <1>c, <1>e, <2>1 DEF AckInv
  <2> QED
    BY <2>2 DEF AckInv
<1> QED
  BY <1>1, <1>2, <1>3, <1>4, <1>5, <1>6

\* Prepare freezes a part whose chunks are all recorded.
LEMMA PrepareStep ==
  ASSUME IInv, Prepare
  PROVE  IInv'
<1> USE ChunkTransferAssumption DEF IInv
<1>a. Putting = {} /\ put' = put /\ Putting' = {}
  BY DEF Quiet, Putting, Prepare
<1>1. TypeOK'
  BY DEF TypeOK, Prepare, Files
<1>2. LockInv'
  BY <1>a DEF LockInv
<1>3. StageInv'
  BY <1>a DEF StageInv
<1>4. RecordedIsStored'
  BY DEF RecordedIsStored, Prepare
<1>5. FinalInv'
  BY DEF FinalInv, Prepare
<1>6. AckInv'
  BY DEF AckInv, Prepare
<1> QED
  BY <1>1, <1>2, <1>3, <1>4, <1>5, <1>6

\* Publish shows what Prepare froze.
LEMMA PublishStep ==
  ASSUME IInv, Publish
  PROVE  IInv'
<1> USE ChunkTransferAssumption DEF IInv
<1>a. Putting = {} /\ put' = put /\ Putting' = {}
  BY DEF Quiet, Putting, Publish
<1>1. TypeOK'
  BY DEF TypeOK, Publish, Files, EntryStates
<1>2. LockInv'
  BY <1>a DEF LockInv
<1>3. StageInv'
  BY <1>a DEF StageInv
<1>4. RecordedIsStored'
  BY DEF RecordedIsStored, Publish, TypeOK
<1>5. FinalInv'
  BY DEF FinalInv, Publish
<1>6. AckInv'
  BY DEF AckInv, Publish
<1> QED
  BY <1>1, <1>2, <1>3, <1>4, <1>5, <1>6

\* Commit changes the status alone.
LEMMA CommitStep ==
  ASSUME IInv, Commit
  PROVE  IInv'
<1> USE ChunkTransferAssumption DEF IInv
<1>a. Putting = {} /\ put' = put /\ Putting' = {}
  BY DEF Quiet, Putting, Commit
<1>1. TypeOK'
  BY DEF TypeOK, Commit
<1>2. LockInv'
  BY <1>a DEF LockInv
<1>3. StageInv'
  BY <1>a DEF StageInv
<1>4. RecordedIsStored'
  BY DEF RecordedIsStored, Commit
<1>5. FinalInv'
  BY DEF FinalInv, Commit
<1>6. AckInv'
  BY DEF AckInv, Commit
<1> QED
  BY <1>1, <1>2, <1>3, <1>4, <1>5, <1>6

\* The part is removed while no request writes into it.
LEMMA RemovePartStep ==
  ASSUME IInv, RemovePart
  PROVE  IInv'
<1> USE DEF IInv
<1>a. /\ Putting = {} /\ put' = put /\ Putting' = {} /\ status = "pending"
      /\ entry' \in {entry, "unlinked"} /\ (entry' = "gone" <=> entry = "gone")
      /\ UNCHANGED <<whole, status, recorded, part, stable, published, acked>>
  BY DEF Quiet, Putting, RemovePart
<1>1. TypeOK'
  BY <1>a DEF TypeOK, EntryStates
<1>2. LockInv' /\ StageInv'
  BY <1>a DEF LockInv, StageInv
<1>3. RecordedIsStored'
  BY <1>a DEF RecordedIsStored
<1>4. FinalInv' /\ AckInv'
  BY <1>a DEF FinalInv, AckInv
<1> QED
  BY <1>1, <1>2, <1>3, <1>4

\* A cancelled upload has no rows.
LEMMA FinishStep ==
  ASSUME IInv, FinishUncompleted
  PROVE  IInv'
<1> USE ChunkTransferAssumption DEF IInv
<1>a. Putting = {} /\ put' = put /\ Putting' = {}
  BY DEF Quiet, Putting, FinishUncompleted
<1>1. TypeOK'
  BY DEF TypeOK, FinishUncompleted
<1>2. LockInv'
  BY <1>a DEF LockInv
<1>3. StageInv'
  BY <1>a DEF StageInv
<1>4. RecordedIsStored'
  BY DEF RecordedIsStored, FinishUncompleted
<1>5. FinalInv'
  BY DEF FinalInv, FinishUncompleted
<1>6. AckInv'
  BY DEF AckInv, FinishUncompleted
<1> QED
  BY <1>1, <1>2, <1>3, <1>4, <1>5, <1>6

\* A power failure takes bytes that no row describes, unless it takes a part
\* that was removed.
LEMMA CrashStep ==
  ASSUME IInv, Crash
  PROVE  IInv'
<1> USE ChunkTransferAssumption DEF IInv
<1>a. Putting' = {}
  BY DEF Putting, Crash
<1>b. PICK lost \in SUBSET Indexes :
        part' = IF entry' = "gone" THEN NoFile
                ELSE [i \in Indexes |-> IF i \in lost THEN stable[i] ELSE part[i]]
  BY DEF Crash
<1>c. /\ stable' = part' /\ published = None
      /\ UNCHANGED <<whole, status, recorded, published, acked>>
  BY DEF Crash
<1>d. /\ entry' \in EntryStates
      /\ entry' # "gone" => entry # "gone"
      /\ entry = "linked" => entry' = "linked"
  BY DEF Crash, TypeOK, EntryStates
<1>1. TypeOK'
  <2>1. put' \in [Workers -> Puts]
    BY DEF Crash, Puts
  <2> QED
    BY <2>1, <1>b, <1>c, <1>d DEF TypeOK, Files, NoFile
<1>2. LockInv'
  BY <1>a DEF LockInv
<1>3. StageInv'
  BY <1>a DEF StageInv
<1>4. RecordedIsStored'
  <2>1. CASE entry' = "gone"
    BY <2>1, <1>c, <1>d DEF RecordedIsStored
  <2>2. CASE entry' # "gone"
    BY <2>2, <1>b, <1>c, <1>d DEF RecordedIsStored
  <2> QED
    BY <2>1, <2>2
<1>5. FinalInv'
  <2>1. CASE status = "finalizing"
    <3>1. part' = part
      <4>1. entry' = "linked"
        BY <2>1, <1>c, <1>d DEF RecordedIsStored
      <4> QED
        BY <2>1, <4>1, <1>b DEF FinalInv, TypeOK, Files
    <3> QED
      BY <2>1, <3>1, <1>c DEF FinalInv
  <2>2. CASE status # "finalizing"
    BY <2>2, <1>c DEF FinalInv
  <2> QED
    BY <2>1, <2>2
<1>6. AckInv'
  BY <1>c DEF AckInv
<1> QED
  BY <1>1, <1>2, <1>3, <1>4, <1>5, <1>6

-----------------------------------------------------------------------------
(* The theorems *)

LEMMA StepIInv == IInv /\ [Next]_vars => IInv'
<1> SUFFICES ASSUME IInv, [Next]_vars PROVE IInv'
  OBVIOUS
<1>1. ASSUME NEW w \in Workers, NEW i \in Indexes, NEW body \in Data \cup {Torn},
             NEW sha256 \in Data, BeginPut(w, i, body, sha256)
      PROVE  IInv'
  BY <1>1, BeginPutStep
<1>2. ASSUME NEW w \in Workers, Stream(w) \/ Verify(w) \/ Sync(w) \/ Record(w) \/ Break(w)
      PROVE  IInv'
  BY <1>2, StreamStep, VerifyStep, SyncStep, RecordStep, BreakStep
<1>3. CASE Prepare \/ Publish \/ Commit \/ RemovePart \/ FinishUncompleted \/ Crash
  BY <1>3, PrepareStep, PublishStep, CommitStep, RemovePartStep, FinishStep, CrashStep
<1>4. CASE UNCHANGED vars
  BY <1>4 DEF vars, IInv, TypeOK, LockInv, StageInv, RecordedIsStored, FinalInv, AckInv, Putting
<1> QED
  BY <1>1, <1>2, <1>3, <1>4 DEF Next

LEMMA InductiveInvariant == Spec => []IInv
  BY InitIInv, StepIInv, PTL DEF Spec

\* Every variable keeps its type.
THEOREM TypeCorrect == Spec => []TypeOK
  BY InductiveInvariant, PTL DEF IInv

\* What upload_chunks records is in the part, before and after any power
\* failure, however requests for the chunks of an upload overlap, as long as
\* no cancellation has removed the part; and no upload without its part is
\* about to be published.
THEOREM RowsAreTrue == Spec => []RecordedIsStored
  BY InductiveInvariant, PTL DEF IInv

\* The published file consists of the recorded chunks, which are the
\* acknowledged ones, and has the announced checksum.
THEOREM PublicationIsTrue == Spec => []PublishedIsAcknowledged
<1>1. IInv => PublishedIsAcknowledged
  BY DEF IInv, FinalInv, AckInv, PublishedIsAcknowledged
<1> QED
  BY <1>1, InductiveInvariant, PTL

\* No chunk is acknowledged with two contents.
THEOREM AnswersAgree == Spec => []OneAnswerPerChunk
<1>1. IInv => OneAnswerPerChunk
  <2> SUFFICES ASSUME IInv, NEW i \in Indexes PROVE Cardinality(acked[i]) <= 1
    BY DEF OneAnswerPerChunk
  <2>1. CASE acked[i] = {}
    BY <2>1, FS_EmptySet
  <2>2. CASE acked[i] # {}
    <3>1. PICK a : a \in acked[i]
      BY <2>2
    <3>2. acked[i] = {a}
      BY <3>1 DEF IInv, AckInv
    <3>3. Cardinality({a}) = 1
      BY FS_Singleton
    <3> QED
      BY <3>2, <3>3
  <2> QED
    BY <2>1, <2>2
<1> QED
  BY <1>1, InductiveInvariant, PTL
=============================================================================
