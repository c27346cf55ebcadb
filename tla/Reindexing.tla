------------------------------ MODULE Reindexing ------------------------------
(***************************************************************************)
(* The generations of the metadata index (internal/files/reindex.go): an   *)
(* offline reindex walks the volume, writes what it meets as batches of a  *)
(* new generation, switches to it in one transaction and collects the rows *)
(* of the others; it may end between any two of its steps.  A server works *)
(* on the active generation (module SwaDrive has its mutations in full:    *)
(* there a reindex is one step, here a mutation is).                       *)
(***************************************************************************)
EXTENDS Ownership

CONSTANTS
  Admins,          \* the processes that are reindex commands; the rest serve
  ItemCount,       \* paths of files/ and of the trash
  Parent,          \* of an item: the directory it is in, 0 for a top one
  ReindexBatch,    \* ReindexBatchSize
  CleanupBatch,    \* ReindexCleanupBatchSize
  MaxGeneration,   \* bound: generation ids
  Unusable

VARIABLES
  disk,     \* the items on the volume
  status,   \* file_index_generations: none for no row
  entries,  \* file_entries of each generation
  active,   \* file_index_state.active_generation_id
  healthy,  \* file_index_state.healthy
  build     \* local state of each reindex command

indexVars == <<disk, status, entries, active, healthy>>
vars == <<ownershipVars, indexVars, build>>

Items == 1 .. ItemCount  \* in the order of the walk
Generations == 1 .. MaxGeneration

ASSUME ReindexingAssumption ==
  /\ ItemCount \in Nat /\ Parent \in [Items -> Items \cup {0}]
  /\ ReindexBatch \in Nat \ {0} /\ CleanupBatch \in Nat \ {0}
  /\ MaxGeneration \in Nat \ {0}
  /\ \A d \in SUBSET Items : d # Unusable

Builds == [step : {"none", "walk", "activate", "clean", "done"},
           gen : Generations \cup {0}, next : Nat, batch : SUBSET Items, indexed : Nat]
NotBuilding == [step |-> "none", gen |-> 0, next |-> 1, batch |-> {}, indexed |-> 0]

\* A volume: each item in its directory.
Volumes == {d \in SUBSET Items : \A i \in d : Parent[i] \in d \cup {0}}

\* Migration 5 creates generation 1, active and without rows.
Init ==
  /\ OwnershipInit
  /\ disk = {}
  /\ status = [g \in Generations |-> IF g = 1 THEN "active" ELSE "none"]
  /\ entries = [g \in Generations |-> {}]
  /\ active = 1 /\ healthy = TRUE
  /\ build = [p \in Processes |-> NotBuilding]

\* activeGeneration.
Usable == healthy /\ status[active] = "active"

-----------------------------------------------------------------------------
(* The server *)

\* A mutation of the volume: with its rows, or after MarkUnhealthy.
Serve(p) ==
  /\ phase[p] = "working" /\ p \notin Admins /\ Usable
  /\ disk' \in Volumes \ {disk}
  /\ \/ entries' = [entries EXCEPT ![active] = disk'] /\ UNCHANGED healthy
     \/ healthy' = FALSE /\ UNCHANGED entries
  /\ UNCHANGED <<ownershipVars, status, active, build>>

-----------------------------------------------------------------------------
(* The reindex command: Rebuilder.Rebuild *)

At(p, step) == phase[p] = "working" /\ p \in Admins /\ build[p].step = step

Ids == {g \in Generations : status[g] # "none"}
IsNextId(g) == g - 1 \in Ids /\ \A h \in Ids : h < g

\* Mutant of StartGeneration: an interrupted build keeps its status.
StartBeside(p) ==
  /\ At(p, "none")
  /\ \E g \in Generations :
       /\ IsNextId(g)
       /\ status' = [status EXCEPT ![g] = "building"]
       /\ build' = [build EXCEPT ![p] = [NotBuilding EXCEPT !.step = "walk", !.gen = g]]
  /\ UNCHANGED <<ownershipVars, disk, entries, active, healthy>>

StartGeneration(p) ==
  /\ At(p, "none")
  /\ \E g \in Generations :
       /\ IsNextId(g)
       /\ status' = [h \in Generations |->
                       IF h = g THEN "building"
                       ELSE IF status[h] = "building" THEN "obsolete" ELSE status[h]]
       /\ build' = [build EXCEPT ![p] = [NotBuilding EXCEPT !.step = "walk", !.gen = g]]
  /\ UNCHANGED <<ownershipVars, disk, entries, active, healthy>>

\* The next item of the walk, and InsertGenerationBatch when it fills a
\* batch.  An error of the walk ends the process.
Visit(p) ==
  LET b == build[p]
      batch == b.batch \cup ({b.next} \cap disk)
      full == Cardinality(batch) = ReindexBatch
  IN
  /\ At(p, "walk") /\ b.next \in Items
  /\ full => status[b.gen] = "building"
  /\ entries' = IF full THEN [entries EXCEPT ![b.gen] = @ \cup batch] ELSE entries
  /\ build' = [build EXCEPT ![p] =
       [b EXCEPT !.next = @ + 1,
                 !.batch = IF full THEN {} ELSE batch,
                 !.indexed = IF full THEN @ + ReindexBatch ELSE @]]
  /\ UNCHANGED <<ownershipVars, disk, status, active, healthy>>

\* Mutant of Flush: the last batch is forgotten.
FlushNothing(p) ==
  LET b == build[p] IN
  /\ At(p, "walk") /\ b.next \notin Items
  /\ build' = [build EXCEPT ![p] = [b EXCEPT !.step = "activate", !.batch = {}]]
  /\ UNCHANGED <<ownershipVars, indexVars>>

\* After the walk: what is left of the last batch.
Flush(p) ==
  LET b == build[p] IN
  /\ At(p, "walk") /\ b.next \notin Items
  /\ b.batch # {} => status[b.gen] = "building"
  /\ entries' = [entries EXCEPT ![b.gen] = @ \cup b.batch]
  /\ build' = [build EXCEPT ![p] =
       [b EXCEPT !.step = "activate", !.batch = {},
                 !.indexed = @ + Cardinality(b.batch)]]
  /\ UNCHANGED <<ownershipVars, disk, status, active, healthy>>

\* What ActivateGeneration finds wrong with a generation.
Complete(g, indexed) ==
  /\ status[g] = "building"
  /\ Cardinality(entries[g]) = indexed
  /\ \A i \in entries[g] : Parent[i] \in entries[g] \cup {0}

\* Mutant of ActivateGeneration: the old generation stays active.
ActivateBeside(p) ==
  LET g == build[p].gen IN
  /\ At(p, "activate") /\ Complete(g, build[p].indexed)
  /\ status' = [status EXCEPT ![g] = "active"]
  /\ active' = g /\ healthy' = TRUE
  /\ build' = [build EXCEPT ![p].step = "clean"]
  /\ UNCHANGED <<ownershipVars, disk, entries>>

ActivateGeneration(p) ==
  LET g == build[p].gen IN
  /\ At(p, "activate") /\ Complete(g, build[p].indexed)
  /\ status' = [h \in Generations |->
                  IF h = g THEN "active"
                  ELSE IF status[h] = "active" THEN "obsolete" ELSE status[h]]
  /\ active' = g /\ healthy' = TRUE
  /\ build' = [build EXCEPT ![p].step = "clean"]
  /\ UNCHANGED <<ownershipVars, disk, entries>>

Garbage == {x \in Generations \X Items :
              status[x[1]] = "obsolete" /\ x[2] \in entries[x[1]]}

\* One batch; the loop of Rebuild ends with the first that deletes no row.
CleanupObsoleteBatch(p) ==
  /\ At(p, "clean")
  /\ \E deleted \in SUBSET Garbage :
       /\ \/ Cardinality(deleted) = CleanupBatch
          \/ deleted = Garbage /\ Cardinality(Garbage) < CleanupBatch
       /\ entries' = [g \in Generations |->
                        {i \in entries[g] : <<g, i>> \notin deleted}]
       /\ build' = [build EXCEPT ![p].step = IF deleted = {} THEN "done" ELSE "clean"]
  /\ status' = [g \in Generations |->
                  IF status[g] = "obsolete" /\ entries'[g] = {} THEN "none" ELSE status[g]]
  /\ UNCHANGED <<ownershipVars, disk, active, healthy>>

-----------------------------------------------------------------------------

Leave(p) ==
  /\ LeaveOwnership(p)
  /\ build' = [build EXCEPT ![p] = NotBuilding]
  /\ UNCHANGED indexVars

Own(p) ==
  /\ AcquireProcessLock(p) \/ Migrate(p)
  /\ UNCHANGED <<indexVars, build>>

Rebuild(p) ==
  \/ StartGeneration(p) \/ Visit(p) \/ Flush(p)
  \/ ActivateGeneration(p) \/ CleanupObsoleteBatch(p)

Next == \E p \in Processes : Own(p) \/ Serve(p) \/ Rebuild(p) \/ Leave(p)

Spec == Init /\ [][Next]_vars

-----------------------------------------------------------------------------

\* Readers have exactly one generation, and it is the one the state names.
TypeOK ==
  /\ OwnershipTypeOK
  /\ disk \in Volumes
  /\ status \in [Generations -> {"none", "building", "active", "obsolete"}]
  /\ entries \in [Generations -> SUBSET Items]
  /\ healthy \in BOOLEAN
  /\ {g \in Generations : status[g] = "active"} = {active}
  /\ build \in [Processes -> Builds]

\* The rows a reader gets.
View == IF Usable THEN entries[active] ELSE Unusable

Atomic == INSTANCE AtomicIndex WITH view <- View

\* A reindex that crashes, fails or is repeated between any two batches
\* looks to readers like one step or none: they never see a part of the new
\* generation, and the switch shows the volume as it is.
ReindexIsAtomic == Atomic!Spec

\* A reindex that ran to its end leaves no row and no generation of an
\* earlier one behind, however many of those were interrupted.
NothingLeftBehind ==
  \A p \in Processes : build[p].step = "done" =>
    \A g \in Generations \ {active} : status[g] = "none" /\ entries[g] = {}
=============================================================================
