---------------------------- MODULE UploadLocks ----------------------------
(***************************************************************************)
(* The locks of the upload service (internal/uploads/locks.go): a map from *)
(* upload ids to reference-counted lock objects that exist only while      *)
(* somebody holds or waits for them, each with a read-write lock and a map *)
(* of reference-counted locks per chunk index; with the chunk admissions   *)
(* and slots a request passes before it locks (PutChunk), and the          *)
(* MutationCoordinator a completion takes while it holds an upload lock.   *)
(*                                                                         *)
(* A lock object is an identity: an id whose object was deleted gets a new *)
(* one, and a goroutine that still has the old one would not exclude the   *)
(* users of the new one.  Each step is one critical section of a mutex or  *)
(* one operation of a lock or channel.                                     *)
(***************************************************************************)
EXTENDS Naturals, FiniteSets

CONSTANTS
  Workers,      \* goroutines
  Ids,          \* upload ids
  Indexes,      \* chunk indexes
  Entries,      \* addresses of uploadLockEntry objects
  ChunkEntries, \* addresses of chunkLockEntry objects
  Nil,          \* the nil pointer
  Slots,        \* maxConcurrentChunks
  Admissions,   \* capacity of chunkAdmissions, four times as much
  Requests      \* bound of the model: the jobs that come

VARIABLES
  pc, job,      \* what a goroutine does, and its next step
  entries,      \* uploadLocks.entries
  refs,         \* uploadLockEntry.refs
  ent,          \* the entry a goroutine points to
  readers, waiting, writer,  \* uploadLockEntry.mutex, a sync.RWMutex
  chunkLocks,   \* uploadLockEntry.chunkLocks
  chunkRefs,    \* chunkLockEntry.refs
  chunk,        \* the chunk entry a goroutine points to
  holder        \* chunkLockEntry.mutex

mapVars == <<entries, refs, ent>>
rwVars == <<readers, waiting, writer>>
chunkVars == <<chunkLocks, chunkRefs, chunk, holder>>
vars == <<pc, job, mapVars, rwVars, chunkVars>>

\* "chunk" is PutChunk; "cancel" is Cancel and one round of CleanupExpired;
\* "complete" is Complete and a startup reconciliation; "files" is a
\* mutation of the file service.
Jobs == [kind : {"chunk", "cancel", "complete", "files"}, id : Ids, index : Indexes]

ASSUME UploadLocksAssumption ==
  /\ IsFiniteSet(Workers)
  /\ Nil \notin Workers \cup Entries \cup ChunkEntries
  /\ Slots \in Nat \ {0} /\ Admissions \in Nat

ASSUME RequestsAssumption == Requests \subseteq Jobs

Pcs == {"idle", "admitted", "acquire", "release",
        "rlock", "rwait", "chunk-lock", "writing", "chunk-release", "runlock",
        "lock", "announced", "exclusive", "mutation", "mutating"}

Init ==
  /\ pc = [w \in Workers |-> "idle"]
  /\ job \in [Workers -> Requests]
  /\ entries = [i \in Ids |-> Nil]
  /\ refs = [e \in Entries |-> 0]
  /\ ent = [w \in Workers |-> Nil]
  /\ readers = [e \in Entries |-> {}]
  /\ waiting = [e \in Entries |-> {}]
  /\ writer = [e \in Entries |-> Nil]
  /\ chunkLocks = [e \in Entries |-> [k \in Indexes |-> Nil]]
  /\ chunkRefs = [c \in ChunkEntries |-> 0]
  /\ chunk = [w \in Workers |-> Nil]
  /\ holder = [c \in ChunkEntries |-> Nil]

Goto(w, next) == pc' = [pc EXCEPT ![w] = next]

-----------------------------------------------------------------------------
(* Requests, chunkAdmissions and chunkSlots *)

Admitted == {w \in Workers : pc[w] # "idle" /\ job[w].kind = "chunk"}
InSlot == {w \in Admitted : pc[w] # "admitted"}

\* A chunk beyond the admissions is refused with ErrUploadBusy.
Begin(w, j) ==
  /\ pc[w] = "idle"
  /\ job' = [job EXCEPT ![w] = j]
  /\ \/ /\ j.kind = "chunk" /\ Cardinality(Admitted) < Admissions
        /\ Goto(w, "admitted")
     \/ j.kind \in {"cancel", "complete"} /\ Goto(w, "acquire")
     \/ j.kind = "files" /\ Goto(w, "mutation")
  /\ UNCHANGED <<mapVars, rwVars, chunkVars>>

TakeSlot(w) ==
  /\ pc[w] = "admitted"
  /\ \/ Cardinality(InSlot) < Slots /\ Goto(w, "acquire")
     \/ Goto(w, "idle") \* the request is cancelled
  /\ UNCHANGED <<job, mapVars, rwVars, chunkVars>>

-----------------------------------------------------------------------------
(* acquire and release *)

\* Mutant of Point: the second user of an object is not counted.
PointUncounted(w, e) ==
  /\ ent' = [ent EXCEPT ![w] = e]
  /\ UNCHANGED refs

Point(w, e) ==
  /\ ent' = [ent EXCEPT ![w] = e]
  /\ refs' = [refs EXCEPT ![e] = @ + 1]

FreshEntry(e) == \A v \in Workers : ent[v] # e

Acquire(w) ==
  /\ pc[w] = "acquire"
  /\ LET i == job[w].id IN
     \/ /\ entries[i] # Nil
        /\ Point(w, entries[i])
        /\ UNCHANGED <<entries, chunkLocks>>
     \/ /\ entries[i] = Nil
        /\ \E e \in Entries :
             /\ FreshEntry(e) /\ \A k \in Ids : entries[k] # e
             /\ entries' = [entries EXCEPT ![i] = e]
             /\ chunkLocks' = [chunkLocks EXCEPT ![e] = [k \in Indexes |-> Nil]]
             /\ ent' = [ent EXCEPT ![w] = e]
             /\ refs' = [refs EXCEPT ![e] = 1]
  /\ Goto(w, IF job[w].kind = "chunk" THEN "rlock" ELSE "lock")
  /\ UNCHANGED <<job, rwVars, chunkRefs, chunk, holder>>

\* Mutants of Release: the object is deleted by the first that leaves, or
\* never.
ReleaseFirst(w) ==
  /\ pc[w] = "release"
  /\ refs' = [refs EXCEPT ![ent[w]] = @ - 1]
  /\ entries' = [entries EXCEPT ![job[w].id] = Nil]
  /\ ent' = [ent EXCEPT ![w] = Nil]
  /\ Goto(w, "idle")
  /\ UNCHANGED <<job, rwVars, chunkVars>>

ReleaseNever(w) ==
  /\ pc[w] = "release"
  /\ refs' = [refs EXCEPT ![ent[w]] = @ - 1]
  /\ ent' = [ent EXCEPT ![w] = Nil]
  /\ Goto(w, "idle")
  /\ UNCHANGED <<job, entries, rwVars, chunkVars>>

Release(w) ==
  /\ pc[w] = "release"
  /\ refs' = [refs EXCEPT ![ent[w]] = @ - 1]
  /\ entries' = IF refs[ent[w]] = 1 THEN [entries EXCEPT ![job[w].id] = Nil]
                ELSE entries
  /\ ent' = [ent EXCEPT ![w] = Nil]
  /\ Goto(w, "idle")
  /\ UNCHANGED <<job, rwVars, chunkVars>>

-----------------------------------------------------------------------------
(* lockChunk *)

\* RLock waits behind a writer that has announced itself.
RLock(w) ==
  /\ pc[w] = "rlock"
  /\ IF writer[ent[w]] = Nil
       THEN readers' = [readers EXCEPT ![ent[w]] = @ \cup {w}] /\ UNCHANGED waiting
       ELSE waiting' = [waiting EXCEPT ![ent[w]] = @ \cup {w}] /\ UNCHANGED readers
  /\ Goto(w, "rwait")
  /\ UNCHANGED <<job, mapVars, writer, chunkVars>>

FreshChunk(c) ==
  /\ \A v \in Workers : chunk[v] # c
  /\ \A e \in Entries, k \in Indexes : chunkLocks[e][k] # c

RefChunk(w) ==
  /\ pc[w] = "rwait" /\ w \in readers[ent[w]]
  /\ LET e == ent[w]  k == job[w].index IN
     \/ /\ chunkLocks[e][k] # Nil
        /\ chunk' = [chunk EXCEPT ![w] = chunkLocks[e][k]]
        /\ chunkRefs' = [chunkRefs EXCEPT ![chunkLocks[e][k]] = @ + 1]
        /\ UNCHANGED chunkLocks
     \/ /\ chunkLocks[e][k] = Nil
        /\ \E c \in ChunkEntries :
             /\ FreshChunk(c)
             /\ chunkLocks' = [chunkLocks EXCEPT ![e][k] = c]
             /\ chunk' = [chunk EXCEPT ![w] = c]
             /\ chunkRefs' = [chunkRefs EXCEPT ![c] = 1]
  /\ Goto(w, "chunk-lock")
  /\ UNCHANGED <<job, mapVars, rwVars, holder>>

LockChunk(w) ==
  /\ pc[w] = "chunk-lock" /\ holder[chunk[w]] = Nil
  /\ holder' = [holder EXCEPT ![chunk[w]] = w]
  /\ Goto(w, "writing")
  /\ UNCHANGED <<job, mapVars, rwVars, chunkLocks, chunkRefs, chunk>>

UnlockChunk(w) ==
  /\ pc[w] = "writing"
  /\ holder' = [holder EXCEPT ![chunk[w]] = Nil]
  /\ Goto(w, "chunk-release")
  /\ UNCHANGED <<job, mapVars, rwVars, chunkLocks, chunkRefs, chunk>>

\* Mutant of UnrefChunk: the references are not looked at.
UnrefChunkFirst(w) ==
  /\ pc[w] = "chunk-release"
  /\ chunkRefs' = [chunkRefs EXCEPT ![chunk[w]] = @ - 1]
  /\ chunkLocks' = [chunkLocks EXCEPT ![ent[w]][job[w].index] = Nil]
  /\ chunk' = [chunk EXCEPT ![w] = Nil]
  /\ Goto(w, "runlock")
  /\ UNCHANGED <<job, mapVars, rwVars, holder>>

UnrefChunk(w) ==
  /\ pc[w] = "chunk-release"
  /\ chunkRefs' = [chunkRefs EXCEPT ![chunk[w]] = @ - 1]
  /\ chunkLocks' = IF chunkRefs[chunk[w]] = 1
                     THEN [chunkLocks EXCEPT ![ent[w]][job[w].index] = Nil]
                     ELSE chunkLocks
  /\ chunk' = [chunk EXCEPT ![w] = Nil]
  /\ Goto(w, "runlock")
  /\ UNCHANGED <<job, mapVars, rwVars, holder>>

RUnlock(w) ==
  /\ pc[w] = "runlock"
  /\ readers' = [readers EXCEPT ![ent[w]] = @ \ {w}]
  /\ Goto(w, "release")
  /\ UNCHANGED <<job, mapVars, waiting, writer, chunkVars>>

-----------------------------------------------------------------------------
(* lockExclusive, and the MutationCoordinator inside it *)

\* The first half of Lock stops new readers, the second waits for the old.
Lock(w) ==
  /\ pc[w] = "lock" /\ writer[ent[w]] = Nil
  /\ writer' = [writer EXCEPT ![ent[w]] = w]
  /\ Goto(w, "announced")
  /\ UNCHANGED <<job, mapVars, readers, waiting, chunkVars>>

Locked(w) ==
  /\ pc[w] = "announced" /\ readers[ent[w]] = {}
  /\ Goto(w, IF job[w].kind = "complete" THEN "mutation" ELSE "exclusive")
  /\ UNCHANGED <<job, mapVars, rwVars, chunkVars>>

LockMutation(w) ==
  /\ pc[w] = "mutation" /\ \A v \in Workers : pc[v] # "mutating"
  /\ Goto(w, "mutating")
  /\ UNCHANGED <<job, mapVars, rwVars, chunkVars>>

\* Mutant of UnlockMutation: a completion forgets it.
UnlockFilesMutation(w) ==
  /\ pc[w] = "mutating" /\ job[w].kind = "files"
  /\ Goto(w, "idle")
  /\ UNCHANGED <<job, mapVars, rwVars, chunkVars>>

UnlockMutation(w) ==
  /\ pc[w] = "mutating"
  /\ Goto(w, IF job[w].kind = "complete" THEN "exclusive" ELSE "idle")
  /\ UNCHANGED <<job, mapVars, rwVars, chunkVars>>

\* Unlock lets every reader that waited go before the next writer.
Unlock(w) ==
  /\ pc[w] = "exclusive"
  /\ writer' = [writer EXCEPT ![ent[w]] = Nil]
  /\ readers' = [readers EXCEPT ![ent[w]] = @ \cup waiting[ent[w]]]
  /\ waiting' = [waiting EXCEPT ![ent[w]] = {}]
  /\ Goto(w, "release")
  /\ UNCHANGED <<job, mapVars, chunkVars>>

-----------------------------------------------------------------------------

Continue(w) ==
  \/ TakeSlot(w) \/ Acquire(w) \/ Release(w)
  \/ RLock(w) \/ RefChunk(w) \/ LockChunk(w)
  \/ UnlockChunk(w) \/ UnrefChunk(w) \/ RUnlock(w)
  \/ Lock(w) \/ Locked(w) \/ LockMutation(w) \/ UnlockMutation(w) \/ Unlock(w)

Next == \E w \in Workers : Continue(w) \/ \E j \in Requests : Begin(w, j)

Spec == Init /\ [][Next]_vars

\* Go runs every runnable goroutine; its mutexes and channels serve waiters
\* in order once they have waited long enough.
FairSpec == Spec /\ \A w \in Workers : SF_vars(Continue(w))

TypeOK ==
  /\ pc \in [Workers -> Pcs]
  /\ job \in [Workers -> Jobs]
  /\ entries \in [Ids -> Entries \cup {Nil}]
  /\ refs \in [Entries -> Nat]
  /\ ent \in [Workers -> Entries \cup {Nil}]
  /\ readers \in [Entries -> SUBSET Workers]
  /\ waiting \in [Entries -> SUBSET Workers]
  /\ writer \in [Entries -> Workers \cup {Nil}]
  /\ chunkLocks \in [Entries -> [Indexes -> ChunkEntries \cup {Nil}]]
  /\ chunkRefs \in [ChunkEntries -> Nat]
  /\ chunk \in [Workers -> ChunkEntries \cup {Nil}]
  /\ holder \in [ChunkEntries -> Workers \cup {Nil}]

-----------------------------------------------------------------------------

\* Inside the critical sections that PutChunk and lockExclusive protect.
Writing(w) == pc[w] = "writing"
Exclusive(w) == pc[w] \in {"exclusive", "mutation", "mutating"} /\ job[w].kind # "files"

\* Two requests never write the same chunk of the same upload at the same
\* time, although each may have created or found the lock object.
ChunkExclusion ==
  \A v, w \in Workers :
    v # w /\ Writing(v) /\ Writing(w) /\ job[v].id = job[w].id
      => job[v].index # job[w].index

\* While one goroutine completes, cancels or expires an upload, no other
\* goroutine does so and none writes a chunk of it.
UploadExclusion ==
  \A v, w \in Workers :
    v # w /\ Exclusive(v) /\ job[v].id = job[w].id
      => ~Exclusive(w) /\ ~Writing(w)

\* The maps hold an object exactly as long as somebody uses it: neither map
\* grows with the uploads and chunks the server has ever seen.
NoLockLeaks ==
  /\ \A i \in Ids : entries[i] # Nil <=> \E w \in Workers : ent[w] # Nil /\ job[w].id = i
  /\ \A i \in Ids, k \in Indexes :
       entries[i] # Nil /\ chunkLocks[entries[i]][k] # Nil
         <=> \E w \in Workers : chunk[w] # Nil /\ job[w].id = i /\ job[w].index = k

\* Every request gets through the admissions, slots and locks: a completion
\* that holds an upload while it waits for the MutationCoordinator, and a
\* chunk that holds a slot while it waits for an upload, block nobody for
\* good.
EveryRequestEnds == \A w \in Workers : pc[w] # "idle" ~> pc[w] = "idle"
=============================================================================
