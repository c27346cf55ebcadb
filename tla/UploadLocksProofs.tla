-------------------------- MODULE UploadLocksProofs --------------------------
(***************************************************************************)
(* Proofs about UploadLocks, for every number of goroutines, uploads,      *)
(* chunks and lock objects.                                                *)
(*                                                                         *)
(* The exclusion properties compare upload ids, the locks exclude users of *)
(* one object.  The invariant ties the two together: whoever works for an  *)
(* upload points to the object that the map holds for it, because an       *)
(* object stays in the map as long as its count, the number of goroutines  *)
(* that point to it, is not zero.  The same argument is made once more for *)
(* the chunk locks inside an upload lock.                                  *)
(***************************************************************************)
EXTENDS UploadLocks, FiniteSetTheorems, TLAPS

\* The steps at which a goroutine uses an upload lock, has the read lock,
\* uses a chunk lock, and has the write lock.
ChunkSteps == {"chunk-lock", "writing", "chunk-release"}
Reading == ChunkSteps \cup {"runlock"}
ForUpload(w) == pc[w] \in {"mutation", "mutating"} /\ job[w].kind # "files"
UsesEntry(w) ==
  \/ pc[w] \in Reading \cup {"rlock", "rwait", "lock", "announced", "exclusive", "release"}
  \/ ForUpload(w)
Announced(w) == pc[w] \in {"announced", "exclusive"} \/ ForUpload(w)

\* The goroutines that point to an object.
Holders(f, x) == {w \in Workers : f[w] = x}
Users(e) == Holders(ent, e)
ChunkUsers(c) == Holders(chunk, c)

KindInv ==
  \A w \in Workers :
    /\ pc[w] \in Reading \cup {"admitted", "rlock", "rwait"} => job[w].kind = "chunk"
    /\ pc[w] \in {"acquire", "lock", "announced", "exclusive", "release"} => job[w].kind # "files"
    /\ pc[w] \in {"mutation", "mutating"} => job[w].kind \in {"complete", "files"}

\* The map from uploads to lock objects.
EntryInv ==
  /\ \A w \in Workers :
       IF UsesEntry(w) THEN ent[w] \in Entries /\ entries[job[w].id] = ent[w]
       ELSE ent[w] = Nil
  /\ \A i, j \in Ids : entries[i] # Nil /\ entries[i] = entries[j] => i = j
  /\ \A i \in Ids : entries[i] # Nil => \E w \in Workers : ent[w] = entries[i]

EntryCount == \A e \in Entries : refs[e] = Cardinality(Users(e))

\* The read-write lock of an object: readers and waiting readers, writers.
ReaderInv ==
  /\ \A e \in Entries : \A w \in readers[e] : ent[w] = e /\ pc[w] \in Reading \cup {"rwait"}
  /\ \A e \in Entries : \A w \in waiting[e] : ent[w] = e /\ pc[w] = "rwait"
  /\ \A e \in Entries : readers[e] \cap waiting[e] = {}
  /\ \A w \in Workers : pc[w] \in Reading => w \in readers[ent[w]]

WriterInv ==
  /\ \A w \in Workers : Announced(w) => writer[ent[w]] = w
  /\ \A w \in Workers : Exclusive(w) => readers[ent[w]] = {}

\* The map from chunks to lock objects.
ChunkInv ==
  /\ \A w \in Workers :
       IF pc[w] \in ChunkSteps
         THEN chunk[w] \in ChunkEntries /\ chunkLocks[ent[w]][job[w].index] = chunk[w]
         ELSE chunk[w] = Nil
  /\ \A e, f \in Entries, k, l \in Indexes :
       chunkLocks[e][k] # Nil /\ chunkLocks[e][k] = chunkLocks[f][l] => e = f /\ k = l
  /\ \A e \in Entries, k \in Indexes :
       chunkLocks[e][k] # Nil => \E w \in Workers : chunk[w] = chunkLocks[e][k]

ChunkCount == \A c \in ChunkEntries : chunkRefs[c] = Cardinality(ChunkUsers(c))

HolderInv == \A w \in Workers : pc[w] = "writing" => holder[chunk[w]] = w

IInv ==
  /\ TypeOK /\ KindInv /\ EntryInv /\ EntryCount /\ ReaderInv /\ WriterInv
  /\ ChunkInv /\ ChunkCount /\ HolderInv

-----------------------------------------------------------------------------
(* Counting *)

\* What one assignment to a function does to the sets of goroutines with one
\* value: the reference counts of locks.go follow them.
LEMMA CountMoved ==
  ASSUME NEW f, NEW g, NEW w \in Workers, NEW x, f[w] # x,
         \A v \in Workers : g[v] = IF v = w THEN x ELSE f[v]
  PROVE  /\ Cardinality(Holders(g, x)) = Cardinality(Holders(f, x)) + 1
         /\ Cardinality(Holders(g, f[w])) = Cardinality(Holders(f, f[w])) - 1
         /\ \A y : y # x /\ y # f[w] => Holders(g, y) = Holders(f, y)
<1>1. \A y : IsFiniteSet(Holders(f, y))
  BY FS_Subset, UploadLocksAssumption DEF Holders
<1>2. Holders(g, x) = Holders(f, x) \cup {w} /\ w \notin Holders(f, x)
  BY DEF Holders
<1>3. Holders(g, f[w]) = Holders(f, f[w]) \ {w} /\ w \in Holders(f, f[w])
  BY DEF Holders
<1>4. \A y : y # x /\ y # f[w] => Holders(g, y) = Holders(f, y)
  BY DEF Holders
<1>5. Cardinality(Holders(g, x)) = Cardinality(Holders(f, x)) + 1
  BY <1>1, <1>2, FS_AddElement
<1>6. Cardinality(Holders(g, f[w])) = Cardinality(Holders(f, f[w])) - 1
  BY <1>1, <1>3, FS_RemoveElement
<1> QED
  BY <1>4, <1>5, <1>6

\* A count is zero exactly when nobody is counted, and one exactly when
\* nobody else is.
LEMMA CountOne ==
  ASSUME NEW f, NEW x
  PROVE  /\ Cardinality(Holders(f, x)) \in Nat
         /\ (\A v \in Workers : f[v] # x) <=> Cardinality(Holders(f, x)) = 0
         /\ \A w \in Workers : f[w] = x =>
              (Cardinality(Holders(f, x)) = 1 <=> \A v \in Workers : f[v] = x => v = w)
<1>1. IsFiniteSet(Holders(f, x))
  BY FS_Subset, UploadLocksAssumption DEF Holders
<1>2. Cardinality(Holders(f, x)) \in Nat
  BY <1>1, FS_CardinalityType
<1>3. (\A v \in Workers : f[v] # x) <=> Cardinality(Holders(f, x)) = 0
  BY <1>1, FS_EmptySet DEF Holders
<1>4. ASSUME NEW w \in Workers, f[w] = x
      PROVE  Cardinality(Holders(f, x)) = 1 <=> \A v \in Workers : f[v] = x => v = w
  <2>1. Cardinality(Holders(f, x)) = 1 <=> \E y : Holders(f, x) = {y}
    BY <1>1, FS_Singleton
  <2>2. (\E y : Holders(f, x) = {y}) <=> \A v \in Workers : f[v] = x => v = w
    BY <1>4 DEF Holders
  <2> QED
    BY <2>1, <2>2
<1> QED
  BY <1>2, <1>3, <1>4

-----------------------------------------------------------------------------
(* The invariant holds at first, and every step preserves it. *)

LEMMA InitIInv == Init => IInv
<1> SUFFICES ASSUME Init PROVE IInv
  OBVIOUS
<1> USE UploadLocksAssumption, RequestsAssumption DEF Init
<1>1. TypeOK
  BY DEF TypeOK, Pcs
<1>2. KindInv
  BY DEF KindInv, Reading, ChunkSteps
<1>3. EntryInv
  BY DEF EntryInv, UsesEntry, ForUpload, Reading, ChunkSteps
<1>4. EntryCount
  <2>1. \A e \in Entries : Users(e) = {}
    BY DEF Users, Holders
  <2> QED
    BY <2>1, FS_EmptySet DEF EntryCount
<1>5. ReaderInv
  BY DEF ReaderInv, Reading, ChunkSteps
<1>6. WriterInv
  BY DEF WriterInv, Announced, Exclusive, ForUpload
<1>7. ChunkInv
  BY DEF ChunkInv, ChunkSteps
<1>8. ChunkCount
  <2>1. \A c \in ChunkEntries : ChunkUsers(c) = {}
    BY DEF ChunkUsers, Holders
  <2> QED
    BY <2>1, FS_EmptySet DEF ChunkCount
<1>9. HolderInv
  BY DEF HolderInv
<1> QED
  BY <1>1, <1>2, <1>3, <1>4, <1>5, <1>6, <1>7, <1>8, <1>9 DEF IInv

\* A request that gets a slot or gives up uses no lock.
LEMMA TakeSlotStep ==
  ASSUME IInv, NEW w \in Workers, TakeSlot(w)
  PROVE  IInv'
<1> USE UploadLocksAssumption DEF IInv, mapVars, rwVars, chunkVars, Goto
<1>1. TypeOK'
  BY DEF TypeOK, Pcs, TakeSlot
<1>2. KindInv'
  BY DEF TypeOK, KindInv, Reading, ChunkSteps, TakeSlot
<1>3. EntryInv'
  BY DEF TypeOK, KindInv, EntryInv, UsesEntry, ForUpload, Reading, ChunkSteps, TakeSlot
<1>4. EntryCount'
  BY DEF EntryCount, Users, TakeSlot
<1>5. ReaderInv'
  BY DEF TypeOK, EntryInv, ReaderInv, UsesEntry, Reading, ChunkSteps, TakeSlot
<1>6. WriterInv'
  BY DEF TypeOK, KindInv, EntryInv, ReaderInv, WriterInv, UsesEntry, Announced, Exclusive, ForUpload, Reading, ChunkSteps, TakeSlot
<1>7. ChunkInv'
  <2>1. \A v \in Workers : pc'[v] \in ChunkSteps <=> pc[v] \in ChunkSteps
    BY DEF TypeOK, ChunkSteps, TakeSlot
  <2> QED
    BY <2>1 DEF ChunkInv, TakeSlot
<1>8. ChunkCount'
  BY DEF ChunkCount, ChunkUsers, TakeSlot
<1>9. HolderInv'
  BY DEF TypeOK, ChunkInv, HolderInv, ChunkSteps, TakeSlot
<1> QED
  BY <1>1, <1>2, <1>3, <1>4, <1>5, <1>6, <1>7, <1>8, <1>9

\* A reader waits or reads.
LEMMA RLockStep ==
  ASSUME IInv, NEW w \in Workers, RLock(w)
  PROVE  IInv'
<1> USE UploadLocksAssumption DEF IInv, mapVars, rwVars, chunkVars, Goto
<1>1. TypeOK'
  <2>1. /\ readers' \in [Entries -> SUBSET Workers]
        /\ waiting' \in [Entries -> SUBSET Workers]
    BY DEF TypeOK, RLock
  <2> QED
    BY <2>1 DEF TypeOK, Pcs, RLock
<1>2. KindInv'
  BY DEF TypeOK, KindInv, Reading, ChunkSteps, RLock
<1>3. EntryInv'
  BY DEF TypeOK, KindInv, EntryInv, UsesEntry, ForUpload, Reading, ChunkSteps, RLock
<1>4. EntryCount'
  BY DEF EntryCount, Users, RLock
<1>5. ReaderInv'
  <2>1. /\ pc[w] = "rlock" /\ ent[w] \in Entries
        /\ pc' = [pc EXCEPT ![w] = "rwait"] /\ ent' = ent
        /\ \A f \in Entries : w \notin readers[f] /\ w \notin waiting[f]
    BY DEF EntryInv, UsesEntry, ReaderInv, Reading, ChunkSteps, RLock
  <2>2. \A f \in Entries :
          \/ readers'[f] = readers[f] /\ waiting'[f] = waiting[f]
          \/ f = ent[w] /\ readers'[f] = readers[f] \cup {w} /\ waiting'[f] = waiting[f]
          \/ f = ent[w] /\ waiting'[f] = waiting[f] \cup {w} /\ readers'[f] = readers[f]
    BY <2>1 DEF TypeOK, RLock
  <2>3. \A v \in Workers : pc'[v] = IF v = w THEN "rwait" ELSE pc[v]
    BY <2>1 DEF TypeOK
  <2>4. \A f \in Entries : readers[f] \subseteq Workers /\ waiting[f] \subseteq Workers
    BY DEF TypeOK
  <2>5. \A f \in Entries : \A v \in readers'[f] : ent'[v] = f /\ pc'[v] \in Reading \cup {"rwait"}
    BY <2>1, <2>2, <2>3, <2>4 DEF ReaderInv
  <2>6. \A f \in Entries : \A v \in waiting'[f] : ent'[v] = f /\ pc'[v] = "rwait"
    BY <2>1, <2>2, <2>3, <2>4 DEF ReaderInv
  <2>7. \A f \in Entries : readers'[f] \cap waiting'[f] = {}
    BY <2>1, <2>2 DEF ReaderInv
  <2>8. \A v \in Workers : pc'[v] \in Reading => v \in readers'[ent'[v]]
    <3> SUFFICES ASSUME NEW v \in Workers, pc'[v] \in Reading
                 PROVE  v \in readers'[ent[v]]
      BY <2>1
    <3>1. v # w /\ pc[v] \in Reading
      BY <2>3 DEF Reading, ChunkSteps
    <3>2. ent[v] \in Entries /\ v \in readers[ent[v]]
      BY <3>1 DEF EntryInv, UsesEntry, ReaderInv
    <3> QED
      BY <3>2, <2>2
  <2> QED
    BY <2>5, <2>6, <2>7, <2>8 DEF ReaderInv
<1>6. WriterInv'
  <2>1. CASE writer[ent[w]] = Nil
    BY <2>1 DEF TypeOK, WriterInv, Announced, Exclusive, ForUpload, EntryInv, UsesEntry, RLock
  <2>2. CASE writer[ent[w]] # Nil
    BY <2>2 DEF TypeOK, WriterInv, Announced, Exclusive, ForUpload, RLock
  <2> QED
    BY <2>1, <2>2
<1>7. ChunkInv'
  BY DEF TypeOK, EntryInv, ChunkInv, UsesEntry, ForUpload, Reading, ChunkSteps, RLock
<1>8. ChunkCount'
  BY DEF ChunkCount, ChunkUsers, RLock
<1>9. HolderInv'
  BY DEF TypeOK, ChunkInv, HolderInv, ChunkSteps, RLock
<1> QED
  BY <1>1, <1>2, <1>3, <1>4, <1>5, <1>6, <1>7, <1>8, <1>9

\* A chunk lock is taken when nobody holds it.
LEMMA LockChunkStep ==
  ASSUME IInv, NEW w \in Workers, LockChunk(w)
  PROVE  IInv'
<1> USE UploadLocksAssumption DEF IInv, mapVars, rwVars, chunkVars, Goto
<1>1. TypeOK'
  BY DEF TypeOK, Pcs, LockChunk
<1>2. KindInv'
  BY DEF TypeOK, KindInv, Reading, ChunkSteps, LockChunk
<1>3. EntryInv'
  BY DEF TypeOK, KindInv, EntryInv, UsesEntry, ForUpload, Reading, ChunkSteps, LockChunk
<1>4. EntryCount'
  BY DEF EntryCount, Users, LockChunk
<1>5. ReaderInv'
  BY DEF TypeOK, EntryInv, ReaderInv, UsesEntry, Reading, ChunkSteps, LockChunk
<1>6. WriterInv'
  BY DEF TypeOK, KindInv, EntryInv, ReaderInv, WriterInv, UsesEntry, Announced, Exclusive, ForUpload, Reading, ChunkSteps, LockChunk
<1>7. ChunkInv'
  BY DEF TypeOK, EntryInv, ChunkInv, UsesEntry, ForUpload, Reading, ChunkSteps, LockChunk
<1>8. ChunkCount'
  BY DEF ChunkCount, ChunkUsers, LockChunk
<1>9. HolderInv'
  BY DEF TypeOK, ChunkInv, HolderInv, ChunkSteps, LockChunk
<1> QED
  BY <1>1, <1>2, <1>3, <1>4, <1>5, <1>6, <1>7, <1>8, <1>9

\* It is given back by its holder.
LEMMA UnlockChunkStep ==
  ASSUME IInv, NEW w \in Workers, UnlockChunk(w)
  PROVE  IInv'
<1> USE UploadLocksAssumption DEF IInv, mapVars, rwVars, chunkVars, Goto
<1>1. TypeOK'
  BY DEF TypeOK, Pcs, UnlockChunk
<1>2. KindInv'
  BY DEF TypeOK, KindInv, Reading, ChunkSteps, UnlockChunk
<1>3. EntryInv'
  BY DEF TypeOK, KindInv, EntryInv, UsesEntry, ForUpload, Reading, ChunkSteps, UnlockChunk
<1>4. EntryCount'
  BY DEF EntryCount, Users, UnlockChunk
<1>5. ReaderInv'
  BY DEF TypeOK, EntryInv, ReaderInv, UsesEntry, Reading, ChunkSteps, UnlockChunk
<1>6. WriterInv'
  BY DEF TypeOK, KindInv, EntryInv, ReaderInv, WriterInv, UsesEntry, Announced, Exclusive, ForUpload, Reading, ChunkSteps, UnlockChunk
<1>7. ChunkInv'
  BY DEF TypeOK, EntryInv, ChunkInv, UsesEntry, ForUpload, Reading, ChunkSteps, UnlockChunk
<1>8. ChunkCount'
  BY DEF ChunkCount, ChunkUsers, UnlockChunk
<1>9. HolderInv'
  BY DEF TypeOK, ChunkInv, HolderInv, ChunkSteps, UnlockChunk
<1> QED
  BY <1>1, <1>2, <1>3, <1>4, <1>5, <1>6, <1>7, <1>8, <1>9

\* A reader leaves with its chunk lock gone.
LEMMA RUnlockStep ==
  ASSUME IInv, NEW w \in Workers, RUnlock(w)
  PROVE  IInv'
<1> USE UploadLocksAssumption DEF IInv, mapVars, rwVars, chunkVars, Goto
<1>1. TypeOK'
  BY DEF TypeOK, Pcs, RUnlock
<1>2. KindInv'
  BY DEF TypeOK, KindInv, Reading, ChunkSteps, RUnlock
<1>3. EntryInv'
  BY DEF TypeOK, KindInv, EntryInv, UsesEntry, ForUpload, Reading, ChunkSteps, RUnlock
<1>4. EntryCount'
  BY DEF EntryCount, Users, RUnlock
<1>5. ReaderInv'
  BY DEF TypeOK, EntryInv, ReaderInv, UsesEntry, Reading, ChunkSteps, RUnlock
<1>6. WriterInv'
  BY DEF TypeOK, KindInv, EntryInv, ReaderInv, WriterInv, UsesEntry, Announced, Exclusive, ForUpload, Reading, ChunkSteps, RUnlock
<1>7. ChunkInv'
  BY DEF TypeOK, EntryInv, ChunkInv, UsesEntry, ForUpload, Reading, ChunkSteps, RUnlock
<1>8. ChunkCount'
  BY DEF ChunkCount, ChunkUsers, RUnlock
<1>9. HolderInv'
  BY DEF TypeOK, ChunkInv, HolderInv, ChunkSteps, RUnlock
<1> QED
  BY <1>1, <1>2, <1>3, <1>4, <1>5, <1>6, <1>7, <1>8, <1>9

\* One writer at a time is announced.
LEMMA LockStep ==
  ASSUME IInv, NEW w \in Workers, Lock(w)
  PROVE  IInv'
<1> USE UploadLocksAssumption DEF IInv, mapVars, rwVars, chunkVars, Goto
<1>1. TypeOK'
  BY DEF TypeOK, Pcs, Lock
<1>2. KindInv'
  BY DEF TypeOK, KindInv, Reading, ChunkSteps, Lock
<1>3. EntryInv'
  BY DEF TypeOK, KindInv, EntryInv, UsesEntry, ForUpload, Reading, ChunkSteps, Lock
<1>4. EntryCount'
  BY DEF EntryCount, Users, Lock
<1>5. ReaderInv'
  BY DEF TypeOK, EntryInv, ReaderInv, UsesEntry, Reading, ChunkSteps, Lock
<1>6. WriterInv'
  BY DEF TypeOK, KindInv, EntryInv, ReaderInv, WriterInv, UsesEntry, Announced, Exclusive, ForUpload, Reading, ChunkSteps, Lock
<1>7. ChunkInv'
  BY DEF TypeOK, EntryInv, ChunkInv, UsesEntry, ForUpload, Reading, ChunkSteps, Lock
<1>8. ChunkCount'
  BY DEF ChunkCount, ChunkUsers, Lock
<1>9. HolderInv'
  BY DEF TypeOK, ChunkInv, HolderInv, ChunkSteps, Lock
<1> QED
  BY <1>1, <1>2, <1>3, <1>4, <1>5, <1>6, <1>7, <1>8, <1>9

\* It has the lock when the readers are gone.
LEMMA LockedStep ==
  ASSUME IInv, NEW w \in Workers, Locked(w)
  PROVE  IInv'
<1> USE UploadLocksAssumption DEF IInv, mapVars, rwVars, chunkVars, Goto
<1>1. TypeOK'
  BY DEF TypeOK, Pcs, Locked
<1>2. KindInv'
  BY DEF TypeOK, KindInv, Reading, ChunkSteps, Locked
<1>3. EntryInv'
  BY DEF TypeOK, KindInv, EntryInv, UsesEntry, ForUpload, Reading, ChunkSteps, Locked
<1>4. EntryCount'
  BY DEF EntryCount, Users, Locked
<1>5. ReaderInv'
  BY DEF TypeOK, EntryInv, ReaderInv, UsesEntry, Reading, ChunkSteps, Locked
<1>6. WriterInv'
  BY DEF TypeOK, KindInv, EntryInv, ReaderInv, WriterInv, UsesEntry, Announced, Exclusive, ForUpload, Reading, ChunkSteps, Locked
<1>7. ChunkInv'
  BY DEF TypeOK, EntryInv, ChunkInv, UsesEntry, ForUpload, Reading, ChunkSteps, Locked
<1>8. ChunkCount'
  BY DEF ChunkCount, ChunkUsers, Locked
<1>9. HolderInv'
  BY DEF TypeOK, ChunkInv, HolderInv, ChunkSteps, Locked
<1> QED
  BY <1>1, <1>2, <1>3, <1>4, <1>5, <1>6, <1>7, <1>8, <1>9

\* The MutationCoordinator changes nothing here.
LEMMA LockMutationStep ==
  ASSUME IInv, NEW w \in Workers, LockMutation(w)
  PROVE  IInv'
<1> USE UploadLocksAssumption DEF IInv, mapVars, rwVars, chunkVars, Goto
<1>1. TypeOK'
  BY DEF TypeOK, Pcs, LockMutation
<1>2. KindInv'
  BY DEF TypeOK, KindInv, Reading, ChunkSteps, LockMutation
<1>3. EntryInv'
  BY DEF TypeOK, KindInv, EntryInv, UsesEntry, ForUpload, Reading, ChunkSteps, LockMutation
<1>4. EntryCount'
  BY DEF EntryCount, Users, LockMutation
<1>5. ReaderInv'
  BY DEF TypeOK, EntryInv, ReaderInv, UsesEntry, Reading, ChunkSteps, LockMutation
<1>6. WriterInv'
  BY DEF TypeOK, KindInv, EntryInv, ReaderInv, WriterInv, UsesEntry, Announced, Exclusive, ForUpload, Reading, ChunkSteps, LockMutation
<1>7. ChunkInv'
  BY DEF TypeOK, EntryInv, ChunkInv, UsesEntry, ForUpload, Reading, ChunkSteps, LockMutation
<1>8. ChunkCount'
  BY DEF ChunkCount, ChunkUsers, LockMutation
<1>9. HolderInv'
  BY DEF TypeOK, ChunkInv, HolderInv, ChunkSteps, LockMutation
<1> QED
  BY <1>1, <1>2, <1>3, <1>4, <1>5, <1>6, <1>7, <1>8, <1>9

\* Nor does its end.
LEMMA UnlockMutationStep ==
  ASSUME IInv, NEW w \in Workers, UnlockMutation(w)
  PROVE  IInv'
<1> USE UploadLocksAssumption DEF IInv, mapVars, rwVars, chunkVars, Goto
<1>1. TypeOK'
  BY DEF TypeOK, Pcs, UnlockMutation
<1>2. KindInv'
  BY DEF TypeOK, KindInv, Reading, ChunkSteps, UnlockMutation
<1>3. EntryInv'
  BY DEF TypeOK, KindInv, EntryInv, UsesEntry, ForUpload, Reading, ChunkSteps, UnlockMutation
<1>4. EntryCount'
  BY DEF EntryCount, Users, UnlockMutation
<1>5. ReaderInv'
  BY DEF TypeOK, EntryInv, ReaderInv, UsesEntry, Reading, ChunkSteps, UnlockMutation
<1>6. WriterInv'
  BY DEF TypeOK, KindInv, EntryInv, ReaderInv, WriterInv, UsesEntry, Announced, Exclusive, ForUpload, Reading, ChunkSteps, UnlockMutation
<1>7. ChunkInv'
  BY DEF TypeOK, EntryInv, ChunkInv, UsesEntry, ForUpload, Reading, ChunkSteps, UnlockMutation
<1>8. ChunkCount'
  BY DEF ChunkCount, ChunkUsers, UnlockMutation
<1>9. HolderInv'
  BY DEF TypeOK, ChunkInv, HolderInv, ChunkSteps, UnlockMutation
<1> QED
  BY <1>1, <1>2, <1>3, <1>4, <1>5, <1>6, <1>7, <1>8, <1>9

\* Waiting readers read when the writer leaves.
LEMMA UnlockStep ==
  ASSUME IInv, NEW w \in Workers, Unlock(w)
  PROVE  IInv'
<1> USE UploadLocksAssumption DEF IInv, mapVars, rwVars, chunkVars, Goto
<1>1. TypeOK'
  BY DEF TypeOK, Pcs, Unlock
<1>2. KindInv'
  BY DEF TypeOK, KindInv, Reading, ChunkSteps, Unlock
<1>3. EntryInv'
  BY DEF TypeOK, KindInv, EntryInv, UsesEntry, ForUpload, Reading, ChunkSteps, Unlock
<1>4. EntryCount'
  BY DEF EntryCount, Users, Unlock
<1>5. ReaderInv'
  BY DEF TypeOK, EntryInv, ReaderInv, UsesEntry, Reading, ChunkSteps, Unlock
<1>6. WriterInv'
  BY DEF TypeOK, KindInv, EntryInv, ReaderInv, WriterInv, UsesEntry, Announced, Exclusive, ForUpload, Reading, ChunkSteps, Unlock
<1>7. ChunkInv'
  BY DEF TypeOK, EntryInv, ChunkInv, UsesEntry, ForUpload, Reading, ChunkSteps, Unlock
<1>8. ChunkCount'
  BY DEF ChunkCount, ChunkUsers, Unlock
<1>9. HolderInv'
  BY DEF TypeOK, ChunkInv, HolderInv, ChunkSteps, Unlock
<1> QED
  BY <1>1, <1>2, <1>3, <1>4, <1>5, <1>6, <1>7, <1>8, <1>9

\* A new request uses no lock yet.
LEMMA BeginStep ==
  ASSUME IInv, NEW w \in Workers, NEW j \in Jobs, Begin(w, j)
  PROVE  IInv'
<1> USE UploadLocksAssumption DEF IInv, mapVars, rwVars, chunkVars, Goto
<1>1. TypeOK'
  BY DEF TypeOK, Pcs, Jobs, Begin
<1>2. KindInv'
  BY DEF TypeOK, KindInv, Reading, ChunkSteps, Jobs, Begin
<1>3. EntryInv'
  <2>1. ent[w] = Nil /\ ent' = ent /\ entries' = entries
    BY DEF EntryInv, UsesEntry, ForUpload, Reading, ChunkSteps, Begin
  <2>2. ~UsesEntry(w)'
    BY DEF TypeOK, UsesEntry, ForUpload, Reading, ChunkSteps, Begin
  <2>3. \A v \in Workers \ {w} : job'[v] = job[v] /\ (UsesEntry(v)' <=> UsesEntry(v))
    BY DEF TypeOK, UsesEntry, ForUpload, Begin
  <2> QED
    BY <2>1, <2>2, <2>3 DEF EntryInv
<1>4. EntryCount'
  BY DEF EntryCount, Users, Begin
<1>5. ReaderInv'
  BY DEF TypeOK, EntryInv, ReaderInv, UsesEntry, Reading, ChunkSteps, Begin
<1>6. WriterInv'
  BY DEF TypeOK, KindInv, EntryInv, ReaderInv, WriterInv, UsesEntry, Announced, Exclusive, ForUpload, Reading, ChunkSteps, Begin
<1>7. ChunkInv'
  BY DEF TypeOK, EntryInv, ChunkInv, UsesEntry, ForUpload, Reading, ChunkSteps, Begin
<1>8. ChunkCount'
  BY DEF ChunkCount, ChunkUsers, Begin
<1>9. HolderInv'
  BY DEF TypeOK, ChunkInv, HolderInv, ChunkSteps, Begin
<1> QED
  BY <1>1, <1>2, <1>3, <1>4, <1>5, <1>6, <1>7, <1>8, <1>9

\* Whoever comes for an upload gets the object of the map, or the map gets
\* the object.
LEMMA AcquireStep ==
  ASSUME IInv, NEW w \in Workers, Acquire(w)
  PROVE  IInv'
<1> USE UploadLocksAssumption DEF IInv, mapVars, rwVars, chunkVars, Goto
<1>a. /\ pc[w] = "acquire" /\ ent[w] = Nil
      /\ job[w].id \in Ids /\ job[w].kind # "files"
  BY DEF TypeOK, Jobs, KindInv, EntryInv, UsesEntry, ForUpload, Reading, ChunkSteps, Acquire
<1>b. PICK x \in Entries :
        /\ ent' = [ent EXCEPT ![w] = x]
        /\ \/ /\ entries[job[w].id] = x /\ entries' = entries
              /\ refs' = [refs EXCEPT ![x] = @ + 1]
              /\ chunkLocks' = chunkLocks
           \/ /\ entries[job[w].id] = Nil /\ entries' = [entries EXCEPT ![job[w].id] = x]
              /\ \A v \in Workers : ent[v] # x
              /\ \A i \in Ids : entries[i] # x
              /\ refs' = [refs EXCEPT ![x] = 1]
              /\ chunkLocks' = [chunkLocks EXCEPT ![x] = [k \in Indexes |-> Nil]]
        /\ \E s \in {"rlock", "lock"} : pc' = [pc EXCEPT ![w] = s]
        /\ job' = job /\ readers' = readers /\ waiting' = waiting /\ writer' = writer
        /\ chunkRefs' = chunkRefs /\ chunk' = chunk /\ holder' = holder
  BY <1>a DEF TypeOK, Acquire, Point, FreshEntry
<1>1. TypeOK'
  <2>1. /\ entries' \in [Ids -> Entries \cup {Nil}] /\ ent' \in [Workers -> Entries \cup {Nil}]
    BY <1>a, <1>b DEF TypeOK
  <2>4. refs' \in [Entries -> Nat]
    <3>1. CASE refs' = [refs EXCEPT ![x] = @ + 1]
      BY <3>1 DEF TypeOK
    <3>2. CASE refs' = [refs EXCEPT ![x] = 1]
      BY <3>2 DEF TypeOK
    <3> QED
      BY <3>1, <3>2, <1>b
  <2>2. chunkLocks' \in [Entries -> [Indexes -> ChunkEntries \cup {Nil}]]
    BY <1>b DEF TypeOK
  <2>3. pc' \in [Workers -> Pcs]
    BY <1>b DEF TypeOK, Pcs
  <2> QED
    BY <2>1, <2>2, <2>3, <2>4, <1>b DEF TypeOK
<1>2. KindInv'
  BY DEF TypeOK, KindInv, Reading, ChunkSteps, Acquire
<1>3. EntryInv'
  <2>1. \A v \in Workers \ {w} : UsesEntry(v)' <=> UsesEntry(v)
    BY DEF TypeOK, UsesEntry, ForUpload, Acquire
  <2>2. UsesEntry(w)'
    BY DEF TypeOK, UsesEntry, Reading, ChunkSteps, Acquire
  <2>3. \A v \in Workers \ {w} : ent'[v] = ent[v]
    BY <1>b DEF TypeOK
  <2>4. \A v \in Workers : IF UsesEntry(v)' THEN ent'[v] \in Entries /\ entries'[job'[v].id] = ent'[v]
                           ELSE ent'[v] = Nil
    <3> SUFFICES ASSUME NEW v \in Workers
                 PROVE  IF UsesEntry(v)' THEN ent'[v] \in Entries /\ entries'[job[v].id] = ent'[v]
                        ELSE ent'[v] = Nil
      BY <1>b
    <3>1. CASE v = w
      BY <3>1, <2>2, <1>a, <1>b DEF TypeOK
    <3>2. CASE v # w
      BY <3>2, <2>1, <2>3, <1>a, <1>b DEF TypeOK, EntryInv, Jobs
    <3> QED
      BY <3>1, <3>2
  <2>5. \A i, k \in Ids : entries'[i] # Nil /\ entries'[i] = entries'[k] => i = k
    BY <1>a, <1>b DEF TypeOK, EntryInv
  <2>6. \A i \in Ids : entries'[i] # Nil => \E v \in Workers : ent'[v] = entries'[i]
    <3> SUFFICES ASSUME NEW i \in Ids, entries'[i] # Nil
                 PROVE  \E v \in Workers : ent'[v] = entries'[i]
      OBVIOUS
    <3>1. CASE i = job[w].id
      BY <3>1, <1>a, <1>b DEF TypeOK
    <3>2. CASE i # job[w].id
      <4>1. entries'[i] = entries[i]
        BY <3>2, <1>a, <1>b DEF TypeOK
      <4>2. PICK v \in Workers : ent[v] = entries[i]
        BY <4>1 DEF EntryInv
      <4>3. v # w
        BY <4>1, <4>2, <1>a
      <4> QED
        BY <4>1, <4>2, <4>3, <2>3
    <3> QED
      BY <3>1, <3>2
  <2> QED
    BY <2>4, <2>5, <2>6 DEF EntryInv
<1>4. EntryCount'
  <2>1. /\ Cardinality(Users(x)') = Cardinality(Users(x)) + 1
        /\ \A f \in Entries \ {x} : Users(f)' = Users(f)
    <3>1. ent[w] # x /\ \A v \in Workers : ent'[v] = IF v = w THEN x ELSE ent[v]
      BY <1>a, <1>b DEF TypeOK
    <3>2. /\ Cardinality(Holders(ent', x)) = Cardinality(Holders(ent, x)) + 1
          /\ \A y : y # x /\ y # ent[w] => Holders(ent', y) = Holders(ent, y)
      BY <3>1, CountMoved
    <3> QED
      BY <3>2, <1>a DEF Users
  <2>2. CASE entries[job[w].id] # Nil
    BY <2>1, <2>2, <1>a, <1>b DEF TypeOK, EntryCount
  <2>3. CASE entries[job[w].id] = Nil
    <3>1. Cardinality(Users(x)) = 0
      BY <2>3, <1>b, CountOne DEF Users
    <3> QED
      BY <2>1, <2>3, <3>1, <1>a, <1>b DEF TypeOK, EntryCount
  <2> QED
    BY <2>2, <2>3
<1>5. ReaderInv'
  BY <1>a, <1>b DEF TypeOK, ReaderInv, Reading, ChunkSteps
<1>6. WriterInv'
  <2>1. \A v \in Workers : Announced(v)' => v # w /\ Announced(v)
    BY <1>a, <1>b DEF TypeOK, Announced, ForUpload
  <2>2. \A v \in Workers : Exclusive(v)' => v # w /\ Exclusive(v)
    BY <1>a, <1>b DEF TypeOK, Exclusive
  <2> QED
    BY <2>1, <2>2, <1>b DEF TypeOK, WriterInv
<1>7. ChunkInv'
  <2>1. \A v \in Workers : pc'[v] \in ChunkSteps => v # w /\ pc[v] \in ChunkSteps
    BY <1>a, <1>b DEF TypeOK, ChunkSteps
  <2>2. \A v \in Workers : pc[v] \in ChunkSteps => ent[v] \in Entries /\ ent[v] = ent'[v] /\ pc'[v] \in ChunkSteps
    BY <1>a, <1>b DEF TypeOK, EntryInv, UsesEntry, Reading, ChunkSteps
  <2>3. \A f \in Entries, k \in Indexes :
          \/ chunkLocks'[f][k] = chunkLocks[f][k]
          \/ chunkLocks'[f][k] = Nil /\ \A v \in Workers : ent[v] # f
    <3>1. CASE chunkLocks' = chunkLocks
      BY <3>1
    <3>2. CASE /\ \A v \in Workers : ent[v] # x
               /\ chunkLocks' = [chunkLocks EXCEPT ![x] = [k \in Indexes |-> Nil]]
      BY <3>2 DEF TypeOK
    <3> QED
      BY <3>1, <3>2, <1>b
  <2>4. \A v \in Workers : job'[v] = job[v] /\ job[v].index \in Indexes
    BY <1>b DEF TypeOK, Jobs
  <2>5. \A v \in Workers : IF pc'[v] \in ChunkSteps
          THEN chunk'[v] \in ChunkEntries /\ chunkLocks'[ent'[v]][job'[v].index] = chunk'[v]
          ELSE chunk'[v] = Nil
    BY <2>1, <2>2, <2>3, <2>4, <1>b DEF ChunkInv
  <2>6. \A f, g \in Entries, k, l \in Indexes :
          chunkLocks'[f][k] # Nil /\ chunkLocks'[f][k] = chunkLocks'[g][l] => f = g /\ k = l
    BY <2>3 DEF ChunkInv
  <2>7. \A f \in Entries, k \in Indexes :
          chunkLocks'[f][k] # Nil => \E v \in Workers : chunk'[v] = chunkLocks'[f][k]
    BY <2>3, <1>b DEF ChunkInv
  <2> QED
    BY <2>5, <2>6, <2>7 DEF ChunkInv
<1>8. ChunkCount'
  BY <1>b DEF ChunkCount, ChunkUsers
<1>9. HolderInv'
  BY <1>a, <1>b DEF TypeOK, HolderInv
<1> QED
  BY <1>1, <1>2, <1>3, <1>4, <1>5, <1>6, <1>7, <1>8, <1>9

\* The last user of an object, and nobody else, takes it out of the map.
LEMMA ReleaseStep ==
  ASSUME IInv, NEW w \in Workers, Release(w)
  PROVE  IInv'
<1> USE UploadLocksAssumption DEF IInv, mapVars, rwVars, chunkVars, Goto
<1>a. /\ pc[w] = "release" /\ job[w].id \in Ids
      /\ ent[w] \in Entries /\ entries[job[w].id] = ent[w]
  BY DEF TypeOK, Jobs, EntryInv, UsesEntry, Release
<1>b. refs[ent[w]] = 1 <=> \A v \in Workers : ent[v] = ent[w] => v = w
  BY <1>a, CountOne DEF EntryCount, Users
<1>1. TypeOK'
  <2>1. entries' \in [Ids -> Entries \cup {Nil}]
    BY <1>a DEF TypeOK, Release
  <2>2. refs' \in [Entries -> Nat]
    <3>1. refs[ent[w]] \in Nat \ {0}
      BY <1>a, <1>b, CountOne DEF TypeOK, EntryCount, Users
    <3>2. refs[ent[w]] - 1 \in Nat
      BY <3>1
    <3>3. refs' = [refs EXCEPT ![ent[w]] = refs[ent[w]] - 1]
      BY DEF Release
    <3> QED
      BY <3>2, <3>3 DEF TypeOK
  <2>3. ent' \in [Workers -> Entries \cup {Nil}] /\ pc' \in [Workers -> Pcs]
    BY DEF TypeOK, Pcs, Release
  <2> QED
    BY <2>1, <2>2, <2>3 DEF TypeOK, Release
<1>2. KindInv'
  BY DEF TypeOK, KindInv, Reading, ChunkSteps, Release
<1>3. EntryInv'
  <2>1. \A v \in Workers : UsesEntry(v)' <=> v # w /\ UsesEntry(v)
    BY DEF TypeOK, UsesEntry, ForUpload, Reading, ChunkSteps, Release
  <2>2. \A v \in Workers : ent'[v] = IF v = w THEN Nil ELSE ent[v]
    BY DEF TypeOK, Release
  <2>3. CASE refs[ent[w]] = 1
    <3>1. \A v \in Workers : ent[v] = ent[w] => v = w
      BY <2>3, <1>b
    <3>2. \A i \in Ids : entries'[i] = IF i = job[w].id THEN Nil ELSE entries[i]
      BY <2>3 DEF TypeOK, Release
    <3>3. \A v \in Workers \ {w} : UsesEntry(v) => job[v].id # job[w].id
      BY <3>1, <1>a DEF EntryInv
    <3>4. \A v \in Workers :
            IF UsesEntry(v)' THEN ent'[v] \in Entries /\ entries'[job[v].id] = ent'[v]
            ELSE ent'[v] = Nil
      <4>1. \A v \in Workers : job[v].id \in Ids
        BY DEF TypeOK, Jobs
      <4> QED
        BY <4>1, <2>1, <2>2, <3>2, <3>3 DEF EntryInv
    <3>5. \A i, j \in Ids : entries'[i] # Nil /\ entries'[i] = entries'[j] => i = j
      BY <3>2 DEF EntryInv
    <3>6. \A i \in Ids : entries'[i] # Nil => \E v \in Workers : ent'[v] = entries'[i]
      BY <2>2, <3>2, <1>a DEF EntryInv
    <3> QED
      BY <3>4, <3>5, <3>6 DEF EntryInv, Release
  <2>4. CASE refs[ent[w]] # 1
    <3>1. PICK u \in Workers : ent[u] = ent[w] /\ u # w
      BY <2>4, <1>b
    <3>2. entries' = entries
      BY <2>4 DEF Release
    <3>3. \A i \in Ids : entries[i] # Nil => \E v \in Workers : ent'[v] = entries[i]
      BY <2>2, <3>1 DEF EntryInv
    <3> QED
      BY <2>1, <2>2, <3>2, <3>3 DEF EntryInv, Release
  <2> QED
    BY <2>3, <2>4
<1>4. EntryCount'
  <2>1. ent[w] # Nil /\ \A v \in Workers : ent'[v] = IF v = w THEN Nil ELSE ent[v]
    BY <1>a DEF TypeOK, Release
  <2>2. /\ Cardinality(Holders(ent', ent[w])) = Cardinality(Holders(ent, ent[w])) - 1
        /\ \A y : y # Nil /\ y # ent[w] => Holders(ent', y) = Holders(ent, y)
    <3> DEFINE f == ent
               g == ent'
    <3>1. f[w] # Nil /\ \A v \in Workers : g[v] = IF v = w THEN Nil ELSE f[v]
      BY <2>1
    <3> HIDE DEF f, g
    <3>2. /\ Cardinality(Holders(g, f[w])) = Cardinality(Holders(f, f[w])) - 1
          /\ \A y : y # Nil /\ y # f[w] => Holders(g, y) = Holders(f, y)
      BY <3>1, CountMoved
    <3> QED
      BY <3>2 DEF f, g
  <2>3. \A e \in Entries : refs'[e] = IF e = ent[w] THEN refs[e] - 1 ELSE refs[e]
    BY DEF TypeOK, Release
  <2> QED
    BY <2>2, <2>3, <1>a DEF EntryCount, Users
<1>5. ReaderInv'
  BY DEF TypeOK, EntryInv, ReaderInv, UsesEntry, Reading, ChunkSteps, Release
<1>6. WriterInv'
  BY DEF TypeOK, KindInv, EntryInv, ReaderInv, WriterInv, UsesEntry, Announced, Exclusive, ForUpload, Reading, ChunkSteps, Release
<1>7. ChunkInv'
  <2>1. \A v \in Workers : pc'[v] \in ChunkSteps <=> pc[v] \in ChunkSteps
    BY DEF TypeOK, ChunkSteps, Release
  <2> QED
    <3>1. \A v \in Workers : pc[v] \in ChunkSteps => ent'[v] = ent[v]
      BY <1>a DEF TypeOK, ChunkSteps, Release
    <3> QED
      BY <2>1, <3>1 DEF ChunkInv, Release
<1>8. ChunkCount'
  BY DEF ChunkCount, ChunkUsers, Release
<1>9. HolderInv'
  BY DEF TypeOK, ChunkInv, HolderInv, ChunkSteps, Release
<1> QED
  BY <1>1, <1>2, <1>3, <1>4, <1>5, <1>6, <1>7, <1>8, <1>9

\* Whoever comes for a chunk gets the chunk lock of the upload lock, or the
\* upload lock gets one.
LEMMA RefChunkStep ==
  ASSUME IInv, NEW w \in Workers, RefChunk(w)
  PROVE  IInv'
<1> USE UploadLocksAssumption DEF IInv, mapVars, rwVars, chunkVars, Goto
<1>a. /\ pc[w] = "rwait" /\ w \in readers[ent[w]] /\ chunk[w] = Nil
      /\ ent[w] \in Entries /\ job[w].index \in Indexes
  BY DEF TypeOK, Jobs, EntryInv, UsesEntry, ChunkInv, ChunkSteps, RefChunk
<1>b. PICK x \in ChunkEntries :
        /\ \/ /\ chunkLocks[ent[w]][job[w].index] = x /\ chunkLocks' = chunkLocks
              /\ chunkRefs' = [chunkRefs EXCEPT ![x] = @ + 1]
           \/ /\ chunkLocks[ent[w]][job[w].index] = Nil
              /\ \A v \in Workers : chunk[v] # x
              /\ \A f \in Entries, l \in Indexes : chunkLocks[f][l] # x
              /\ chunkLocks' = [chunkLocks EXCEPT ![ent[w]][job[w].index] = x]
              /\ chunkRefs' = [chunkRefs EXCEPT ![x] = 1]
        /\ chunk' = [chunk EXCEPT ![w] = x]
        /\ pc' = [pc EXCEPT ![w] = "chunk-lock"]
        /\ job' = job /\ entries' = entries /\ refs' = refs /\ ent' = ent
        /\ readers' = readers /\ waiting' = waiting /\ writer' = writer /\ holder' = holder
  <2>1. chunkLocks[ent[w]][job[w].index] \in ChunkEntries \cup {Nil}
    BY <1>a DEF TypeOK
  <2> QED
    BY <2>1 DEF RefChunk, FreshChunk
<1>1. TypeOK'
  <2>1. chunk' \in [Workers -> ChunkEntries \cup {Nil}]
    BY <1>b DEF TypeOK
  <2>2. chunkRefs' \in [ChunkEntries -> Nat]
    <3>1. CASE chunkRefs' = [chunkRefs EXCEPT ![x] = @ + 1]
      BY <3>1 DEF TypeOK
    <3>2. CASE chunkRefs' = [chunkRefs EXCEPT ![x] = 1]
      BY <3>2 DEF TypeOK
    <3> QED
      BY <3>1, <3>2, <1>b
  <2>3. chunkLocks' \in [Entries -> [Indexes -> ChunkEntries \cup {Nil}]]
    <3>1. CASE chunkLocks' = chunkLocks
      BY <3>1 DEF TypeOK
    <3>2. CASE chunkLocks' = [chunkLocks EXCEPT ![ent[w]][job[w].index] = x]
      BY <3>2 DEF TypeOK
    <3> QED
      BY <3>1, <3>2, <1>b
  <2>4. pc' \in [Workers -> Pcs]
    BY <1>b DEF TypeOK, Pcs
  <2> QED
    BY <2>1, <2>2, <2>3, <2>4, <1>b DEF TypeOK
<1>2. KindInv'
  BY <1>a, <1>b DEF TypeOK, KindInv, Reading, ChunkSteps
<1>3. EntryInv'
  BY <1>a, <1>b DEF TypeOK, EntryInv, UsesEntry, ForUpload, Reading, ChunkSteps
<1>4. EntryCount'
  BY <1>b DEF EntryCount, Users
<1>5. ReaderInv'
  BY <1>a, <1>b DEF TypeOK, ReaderInv, Reading, ChunkSteps
<1>6. WriterInv'
  BY <1>a, <1>b DEF TypeOK, WriterInv, Announced, Exclusive, ForUpload
<1>7. ChunkInv'
  <2>1. \A v \in Workers : pc'[v] \in ChunkSteps <=> v = w \/ pc[v] \in ChunkSteps
    BY <1>b DEF TypeOK, ChunkSteps
  <2>2. \A f \in Entries, l \in Indexes :
          chunkLocks'[f][l] = IF f = ent[w] /\ l = job[w].index THEN x ELSE chunkLocks[f][l]
    <3>1. CASE chunkLocks[ent[w]][job[w].index] = x /\ chunkLocks' = chunkLocks
      BY <3>1
    <3>2. CASE chunkLocks' = [chunkLocks EXCEPT ![ent[w]][job[w].index] = x]
      BY <3>2 DEF TypeOK
    <3> QED
      BY <3>1, <3>2, <1>b
  <2>3. \A v \in Workers : chunk'[v] = IF v = w THEN x ELSE chunk[v]
    BY <1>b DEF TypeOK
  <2>4. \A v \in Workers : pc[v] \in ChunkSteps => ent[v] \in Entries /\ job[v].index \in Indexes
    BY DEF TypeOK, Jobs, EntryInv, UsesEntry, Reading
  <2>5. \A v \in Workers \ {w} : pc[v] \in ChunkSteps =>
          chunkLocks'[ent[v]][job[v].index] = chunk[v]
    BY <2>2, <2>4, <1>b DEF ChunkInv
  <2>6. \A v \in Workers : IF pc'[v] \in ChunkSteps
          THEN chunk'[v] \in ChunkEntries /\ chunkLocks'[ent[v]][job[v].index] = chunk'[v]
          ELSE chunk'[v] = Nil
    BY <1>a, <2>1, <2>2, <2>3, <2>5 DEF ChunkInv
  <2>7. \A f, g \in Entries, k, l \in Indexes :
          chunkLocks'[f][k] # Nil /\ chunkLocks'[f][k] = chunkLocks'[g][l] => f = g /\ k = l
    BY <1>a, <1>b, <2>2 DEF ChunkInv
  <2>8. \A f \in Entries, k \in Indexes :
          chunkLocks'[f][k] # Nil => \E v \in Workers : chunk'[v] = chunkLocks'[f][k]
    BY <1>a, <2>2, <2>3 DEF ChunkInv
  <2> QED
    BY <2>6, <2>7, <2>8, <1>b DEF ChunkInv
<1>8. ChunkCount'
  <2>1. chunk[w] # x /\ \A v \in Workers : chunk'[v] = IF v = w THEN x ELSE chunk[v]
    BY <1>a, <1>b DEF TypeOK
  <2>2. /\ Cardinality(Holders(chunk', x)) = Cardinality(Holders(chunk, x)) + 1
        /\ \A y : y # x /\ y # chunk[w] => Holders(chunk', y) = Holders(chunk, y)
    BY <2>1, CountMoved
  <2>3. CASE chunkRefs' = [chunkRefs EXCEPT ![x] = @ + 1]
    BY <2>2, <2>3, <1>a DEF TypeOK, ChunkCount, ChunkUsers
  <2>4. CASE chunkRefs' = [chunkRefs EXCEPT ![x] = 1] /\ \A v \in Workers : chunk[v] # x
    <3>1. Cardinality(Holders(chunk, x)) = 0
      BY <2>4, CountOne
    <3> QED
      BY <2>2, <2>4, <3>1, <1>a DEF TypeOK, ChunkCount, ChunkUsers
  <2> QED
    BY <2>3, <2>4, <1>b
<1>9. HolderInv'
  BY <1>a, <1>b DEF TypeOK, HolderInv
<1> QED
  BY <1>1, <1>2, <1>3, <1>4, <1>5, <1>6, <1>7, <1>8, <1>9

\* The last user of a chunk lock, and nobody else, takes it out of the map.
LEMMA UnrefChunkStep ==
  ASSUME IInv, NEW w \in Workers, UnrefChunk(w)
  PROVE  IInv'
<1> USE UploadLocksAssumption DEF IInv, mapVars, rwVars, chunkVars, Goto
<1>a. /\ pc[w] = "chunk-release" /\ chunk[w] \in ChunkEntries
      /\ ent[w] \in Entries /\ job[w].index \in Indexes
      /\ chunkLocks[ent[w]][job[w].index] = chunk[w]
  BY DEF TypeOK, Jobs, EntryInv, UsesEntry, Reading, ChunkInv, ChunkSteps, UnrefChunk
<1>b. chunkRefs[chunk[w]] = 1 <=> \A v \in Workers : chunk[v] = chunk[w] => v = w
  BY <1>a, CountOne DEF ChunkCount, ChunkUsers
<1>1. TypeOK'
  <2>1. chunkLocks' \in [Entries -> [Indexes -> ChunkEntries \cup {Nil}]]
    <3>1. CASE chunkLocks' = chunkLocks
      BY <3>1 DEF TypeOK
    <3>2. CASE chunkLocks' = [chunkLocks EXCEPT ![ent[w]][job[w].index] = Nil]
      BY <3>2 DEF TypeOK
    <3> QED
      BY <3>1, <3>2 DEF UnrefChunk
  <2>2. chunkRefs' \in [ChunkEntries -> Nat]
    <3>1. chunkRefs[chunk[w]] \in Nat \ {0}
      BY <1>a, CountOne DEF TypeOK, ChunkCount, ChunkUsers
    <3>2. chunkRefs[chunk[w]] - 1 \in Nat
      BY <3>1
    <3>3. chunkRefs' = [chunkRefs EXCEPT ![chunk[w]] = chunkRefs[chunk[w]] - 1]
      BY DEF UnrefChunk
    <3> QED
      BY <3>2, <3>3 DEF TypeOK
  <2>3. chunk' \in [Workers -> ChunkEntries \cup {Nil}] /\ pc' \in [Workers -> Pcs]
    BY DEF TypeOK, Pcs, UnrefChunk
  <2> QED
    BY <2>1, <2>2, <2>3 DEF TypeOK, UnrefChunk
<1>2. KindInv'
  BY DEF TypeOK, KindInv, Reading, ChunkSteps, UnrefChunk
<1>3. EntryInv'
  BY DEF TypeOK, KindInv, EntryInv, UsesEntry, ForUpload, Reading, ChunkSteps, UnrefChunk
<1>4. EntryCount'
  BY DEF EntryCount, Users, UnrefChunk
<1>5. ReaderInv'
  BY DEF TypeOK, EntryInv, ReaderInv, UsesEntry, Reading, ChunkSteps, UnrefChunk
<1>6. WriterInv'
  BY DEF TypeOK, KindInv, EntryInv, ReaderInv, WriterInv, UsesEntry, Announced, Exclusive, ForUpload, Reading, ChunkSteps, UnrefChunk
<1>7. ChunkInv'
  <2>1. \A v \in Workers : pc'[v] \in ChunkSteps <=> v # w /\ pc[v] \in ChunkSteps
    BY DEF TypeOK, ChunkSteps, UnrefChunk
  <2>2. \A v \in Workers : chunk'[v] = IF v = w THEN Nil ELSE chunk[v]
    BY DEF TypeOK, UnrefChunk
  <2>3. \A v \in Workers : pc[v] \in ChunkSteps => ent[v] \in Entries /\ job[v].index \in Indexes
    BY DEF TypeOK, Jobs, EntryInv, UsesEntry, Reading
  <2>4. CASE chunkRefs[chunk[w]] = 1
    <3>1. \A v \in Workers : chunk[v] = chunk[w] => v = w
      BY <2>4, <1>b
    <3>2. \A f \in Entries, l \in Indexes :
            chunkLocks'[f][l] = IF f = ent[w] /\ l = job[w].index THEN Nil ELSE chunkLocks[f][l]
      BY <2>4, <1>a DEF TypeOK, UnrefChunk
    <3>3. \A v \in Workers \ {w} : pc[v] \in ChunkSteps =>
            chunkLocks'[ent[v]][job[v].index] = chunk[v]
      BY <3>1, <3>2, <2>3, <1>a DEF ChunkInv
    <3>4. \A v \in Workers : IF pc'[v] \in ChunkSteps
            THEN chunk'[v] \in ChunkEntries /\ chunkLocks'[ent[v]][job[v].index] = chunk'[v]
            ELSE chunk'[v] = Nil
      BY <3>3, <2>1, <2>2 DEF ChunkInv
    <3>5. \A f, g \in Entries, k, l \in Indexes :
            chunkLocks'[f][k] # Nil /\ chunkLocks'[f][k] = chunkLocks'[g][l] => f = g /\ k = l
      BY <3>2 DEF ChunkInv
    <3>6. \A f \in Entries, k \in Indexes :
            chunkLocks'[f][k] # Nil => \E v \in Workers : chunk'[v] = chunkLocks'[f][k]
      BY <3>2, <2>2, <1>a DEF ChunkInv
    <3> QED
      BY <3>4, <3>5, <3>6 DEF ChunkInv, UnrefChunk
  <2>5. CASE chunkRefs[chunk[w]] # 1
    <3>1. PICK u \in Workers : chunk[u] = chunk[w] /\ u # w
      BY <2>5, <1>b
    <3>2. chunkLocks' = chunkLocks
      BY <2>5 DEF UnrefChunk
    <3>3. \A f \in Entries, k \in Indexes :
            chunkLocks[f][k] # Nil => \E v \in Workers : chunk'[v] = chunkLocks[f][k]
      BY <2>2, <3>1 DEF ChunkInv
    <3> QED
      BY <2>1, <2>2, <3>2, <3>3 DEF ChunkInv, UnrefChunk
  <2> QED
    BY <2>4, <2>5
<1>8. ChunkCount'
  <2>1. chunk[w] # Nil /\ \A v \in Workers : chunk'[v] = IF v = w THEN Nil ELSE chunk[v]
    BY <1>a DEF TypeOK, UnrefChunk
  <2>2. /\ Cardinality(Holders(chunk', chunk[w])) = Cardinality(Holders(chunk, chunk[w])) - 1
        /\ \A y : y # Nil /\ y # chunk[w] => Holders(chunk', y) = Holders(chunk, y)
    <3> DEFINE f == chunk
               g == chunk'
    <3>1. f[w] # Nil /\ \A v \in Workers : g[v] = IF v = w THEN Nil ELSE f[v]
      BY <2>1
    <3> HIDE DEF f, g
    <3>2. /\ Cardinality(Holders(g, f[w])) = Cardinality(Holders(f, f[w])) - 1
          /\ \A y : y # Nil /\ y # f[w] => Holders(g, y) = Holders(f, y)
      BY <3>1, CountMoved
    <3> QED
      BY <3>2 DEF f, g
  <2>3. \A c \in ChunkEntries : chunkRefs'[c] = IF c = chunk[w] THEN chunkRefs[c] - 1 ELSE chunkRefs[c]
    BY DEF TypeOK, UnrefChunk
  <2> QED
    BY <2>2, <2>3, <1>a DEF ChunkCount, ChunkUsers
<1>9. HolderInv'
  BY DEF TypeOK, ChunkInv, HolderInv, ChunkSteps, UnrefChunk
<1> QED
  BY <1>1, <1>2, <1>3, <1>4, <1>5, <1>6, <1>7, <1>8, <1>9


-----------------------------------------------------------------------------
(* The theorems *)

LEMMA StepIInv == IInv /\ [Next]_vars => IInv'
<1> SUFFICES ASSUME IInv, [Next]_vars PROVE IInv'
  OBVIOUS
<1>1. ASSUME NEW w \in Workers, Continue(w) PROVE IInv'
  BY <1>1, TakeSlotStep, AcquireStep, ReleaseStep, RLockStep, RefChunkStep, LockChunkStep,
     UnlockChunkStep, UnrefChunkStep, RUnlockStep, LockStep, LockedStep, LockMutationStep,
     UnlockMutationStep, UnlockStep DEF Continue
<1>2. ASSUME NEW w \in Workers, NEW j \in Requests, Begin(w, j) PROVE IInv'
  BY <1>2, RequestsAssumption, BeginStep
<1>3. CASE UNCHANGED vars
  BY <1>3 DEF vars, mapVars, rwVars, chunkVars, IInv, TypeOK, KindInv, EntryInv, EntryCount,
       ReaderInv, WriterInv, ChunkInv, ChunkCount, HolderInv, UsesEntry, ForUpload, Announced,
       Exclusive, Users, ChunkUsers
<1> QED
  BY <1>1, <1>2, <1>3 DEF Next

LEMMA InductiveInvariant == Spec => []IInv
  BY InitIInv, StepIInv, PTL DEF Spec

\* Every variable keeps its type; the reference counts stay natural numbers,
\* whatever the order in which goroutines come and go.
THEOREM TypeCorrect == Spec => []TypeOK
  BY InductiveInvariant, PTL DEF IInv

\* The reference counts of uploadLocks and chunkLocks are exact: as many as
\* goroutines point to the object, before and after every critical section.
THEOREM CountsAreExact == Spec => [](EntryCount /\ ChunkCount)
  BY InductiveInvariant, PTL DEF IInv

\* Two requests of one upload never write the same chunk at the same time,
\* for any number of requests, uploads and chunks.
THEOREM ChunksExclude == Spec => []ChunkExclusion
<1>1. IInv => ChunkExclusion
  <2> SUFFICES ASSUME IInv, NEW v \in Workers, NEW w \in Workers, v # w,
                      pc[v] = "writing", pc[w] = "writing",
                      job[v].id = job[w].id, job[v].index = job[w].index
               PROVE  FALSE
    BY DEF ChunkExclusion, Writing
  <2>1. ent[v] = ent[w]
    BY DEF IInv, EntryInv, UsesEntry, Reading, ChunkSteps
  <2>2. chunk[v] = chunk[w]
    BY <2>1 DEF IInv, ChunkInv, ChunkSteps
  <2> QED
    BY <2>2 DEF IInv, HolderInv
<1> QED
  BY <1>1, InductiveInvariant, PTL

\* While a completion, a cancel or an expiry has an upload, nobody else
\* completes, cancels, expires or writes it.
THEOREM UploadsExclude == Spec => []UploadExclusion
<1>1. IInv => UploadExclusion
  <2> SUFFICES ASSUME IInv, NEW v \in Workers, NEW w \in Workers, v # w,
                      Exclusive(v), job[v].id = job[w].id, Exclusive(w) \/ Writing(w)
               PROVE  FALSE
    BY DEF UploadExclusion
  <2>1. UsesEntry(v) /\ UsesEntry(w)
    BY DEF UsesEntry, ForUpload, Exclusive, Writing, Reading, ChunkSteps
  <2>2. ent[v] = ent[w]
    BY <2>1 DEF IInv, EntryInv
  <2>3. writer[ent[v]] = v /\ readers[ent[v]] = {}
    BY DEF IInv, WriterInv, Announced, ForUpload, Exclusive
  <2>4. CASE Exclusive(w)
    BY <2>2, <2>3, <2>4 DEF IInv, WriterInv, Announced, ForUpload, Exclusive
  <2>5. CASE Writing(w)
    BY <2>2, <2>3, <2>5 DEF IInv, ReaderInv, Writing, Reading, ChunkSteps
  <2> QED
    BY <2>4, <2>5
<1> QED
  BY <1>1, InductiveInvariant, PTL

\* The maps of locks.go hold exactly the locks somebody uses.
THEOREM LocksDoNotLeak == Spec => []NoLockLeaks
<1>1. IInv => NoLockLeaks
  <2> SUFFICES ASSUME IInv PROVE NoLockLeaks
    OBVIOUS
  <2> USE UploadLocksAssumption
  <2>1. \A w \in Workers : job[w].id \in Ids /\ job[w].index \in Indexes
    BY DEF IInv, TypeOK, Jobs
  <2>2. \A w \in Workers : ent[w] # Nil => ent[w] \in Entries /\ entries[job[w].id] = ent[w]
    BY DEF IInv, EntryInv
  <2>3. \A w \in Workers : chunk[w] # Nil =>
          ent[w] \in Entries /\ chunkLocks[ent[w]][job[w].index] = chunk[w]
    BY DEF IInv, ChunkInv, EntryInv, UsesEntry, Reading
  <2>4. ASSUME NEW i \in Ids
        PROVE  entries[i] # Nil <=> \E w \in Workers : ent[w] # Nil /\ job[w].id = i
    BY <2>1, <2>2 DEF IInv, EntryInv
  <2>5. ASSUME NEW i \in Ids, NEW k \in Indexes
        PROVE  entries[i] # Nil /\ chunkLocks[entries[i]][k] # Nil
                 <=> \E w \in Workers : chunk[w] # Nil /\ job[w].id = i /\ job[w].index = k
    <3>1. ASSUME entries[i] # Nil, chunkLocks[entries[i]][k] # Nil
          PROVE  \E w \in Workers : chunk[w] # Nil /\ job[w].id = i /\ job[w].index = k
      <4>1. entries[i] \in Entries
        BY <3>1 DEF IInv, TypeOK
      <4>2. PICK w \in Workers : chunk[w] = chunkLocks[entries[i]][k]
        BY <3>1, <4>1 DEF IInv, ChunkInv
      <4>3. ent[w] = entries[i] /\ job[w].index = k
        BY <2>1, <2>3, <3>1, <4>1, <4>2 DEF IInv, ChunkInv
      <4>4. job[w].id = i
        BY <2>1, <2>2, <3>1, <4>3 DEF IInv, EntryInv
      <4> QED
        BY <3>1, <4>2, <4>3, <4>4
    <3>2. ASSUME NEW w \in Workers, chunk[w] # Nil, job[w].id = i, job[w].index = k
          PROVE  entries[i] # Nil /\ chunkLocks[entries[i]][k] # Nil
      BY <2>2, <2>3, <3>2
    <3> QED
      BY <3>1, <3>2
  <2> QED
    BY <2>4, <2>5 DEF NoLockLeaks
<1> QED
  BY <1>1, InductiveInvariant, PTL
=============================================================================
