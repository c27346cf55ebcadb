-------------------------- MODULE ReindexingProofs --------------------------
(***************************************************************************)
(* Proofs about Ownership and Reindexing: for any releases, any number of  *)
(* processes, items and generations and any batch sizes, a process works   *)
(* on the schema of its own release, migrations run in order, a completed  *)
(* reindex leaves nothing behind, and readers see a reindex as one step.   *)
(***************************************************************************)
EXTENDS Reindexing, FiniteSetTheorems, TLAPS

(* Whoever is not idle holds the lock, so all others are idle.             *)
OwnInv ==
  \A p \in Processes : phase[p] # "idle" => owner = p

(* The local state of a reindex command follows the volume, which nobody   *)
(* changes while it runs.                                                  *)
Walked(p) ==
  /\ build[p].next \in 1 .. ItemCount + 1
  /\ entries[build[p].gen] \cap build[p].batch = {}
  /\ entries[build[p].gen] \cup build[p].batch = {i \in disk : i < build[p].next}

Constructed(p) ==
  /\ build[p].gen \in Generations
  /\ \A g \in Generations : status[g] = "building" <=> g = build[p].gen
  /\ build[p].indexed = Cardinality(entries[build[p].gen])

Superseded == \A g \in Generations : status[g] # "building"

BuildInv ==
  \A p \in Processes :
    /\ build[p].step # "none" => phase[p] = "working" /\ p \in Admins
    /\ build[p].step = "walk" => Constructed(p) /\ Walked(p)
    /\ build[p].step = "activate" => Constructed(p) /\ entries[build[p].gen] = disk
    /\ build[p].step \in {"clean", "done"} => Superseded
    /\ build[p].step = "done" =>
         \A g \in Generations \ {active} : status[g] = "none"

RowInv == \A g \in Generations : status[g] = "none" => entries[g] = {}

IInv == TypeOK /\ OwnInv /\ BuildInv /\ RowInv

-----------------------------------------------------------------------------
(* Ownership: the schema *)

SchemaInv == OwnershipTypeOK /\ OwnInv /\ SchemaIsOwn /\ RanInOrder

LEMMA AppliedIsFinite ==
  ASSUME OwnershipTypeOK
  PROVE  IsFiniteSet(Applied) /\ Cardinality(Applied) \in Nat
<1>1. DOMAIN ran = 1 .. Len(ran) /\ Len(ran) \in Nat
  BY DEF OwnershipTypeOK
<1>2. IsFiniteSet(DOMAIN ran)
  BY <1>1, FS_Interval
<1>3. IsFiniteSet(Applied)
  <2>1. ran \in Surjection(DOMAIN ran, Applied)
    BY <1>1 DEF OwnershipTypeOK, Applied, Surjection
  <2> QED
    BY <2>1, <1>2, FS_Surjection
<1> QED
  BY <1>3, FS_CardinalityType

\* validateAppliedMigrations: what is pending comes after what has run.
LEMMA PendingIsLater ==
  ASSUME OwnershipTypeOK, NEW p \in Processes, Valid(p),
         NEW v \in Versions, NEW w \in Pending(p)
  PROVE  v < w
<1> DEFINE Lower(x) == {y \in DOMAIN Embedded[p] : y < x}
<1>1. /\ v \in DOMAIN Embedded[p] /\ w \in DOMAIN Embedded[p] /\ w \notin Versions
      /\ v \in Nat /\ w \in Nat /\ IsFiniteSet(DOMAIN Embedded[p])
  BY OwnershipAssumption DEF Valid, Versions, Pending
<1>2. SUFFICES ASSUME ~(v < w) PROVE FALSE
  OBVIOUS
<1>3. w < v
  BY <1>1, <1>2
<1>4. IsFiniteSet(Lower(v)) /\ IsFiniteSet(Lower(w)) /\ Lower(w) \subseteq Lower(v)
  BY <1>1, <1>3, FS_Subset, OwnershipAssumption
<1>5. /\ Cardinality(Lower(w)) <= Cardinality(Lower(v))
      /\ Cardinality(Lower(w)) \in Nat /\ Cardinality(Lower(v)) \in Nat
  BY <1>4, FS_Subset, FS_CardinalityType
<1>6. Cardinality(Lower(v)) < Cardinality(Applied)
  BY <1>1 DEF Valid
<1>7. Cardinality(Lower(w)) < Cardinality(Applied)
  BY <1>5, <1>6, AppliedIsFinite
<1> QED
  BY <1>1, <1>7 DEF Valid

LEMMA VersionOf ==
  \A p, v : Migration(p, v).version = v
  BY DEF Migration

LEMMA MigrateSchema ==
  ASSUME SchemaInv, NEW p \in Processes, Migrate(p)
  PROVE  /\ ran' \in Seq(UNION {Schema(q) : q \in Processes})
         /\ Applied' = Schema(p)
         /\ RanInOrder'
<1> DEFINE M == UNION {Schema(q) : q \in Processes}
<1>1. PICK order \in [1 .. Cardinality(Pending(p)) -> Pending(p)] :
        /\ Ascending(order) /\ {order[i] : i \in DOMAIN order} = Pending(p)
        /\ ran' = ran \o [i \in DOMAIN order |-> Migration(p, order[i])]
  BY DEF Migrate
<1> DEFINE new == [i \in DOMAIN order |-> Migration(p, order[i])]
           n == Cardinality(Pending(p))
<1>2. Valid(p) /\ ran \in Seq(M)
  BY DEF Migrate, SchemaInv, OwnershipTypeOK
<1>3. n \in Nat
  <2>1. IsFiniteSet(Pending(p))
    BY FS_Difference, OwnershipAssumption DEF Pending
  <2> QED
    BY <2>1, FS_CardinalityType
<1>4. new \in Seq(M) /\ Len(new) = n /\ DOMAIN new = 1 .. n
      /\ \A i \in 1 .. n : new[i] = Migration(p, order[i])
  <2>1. \A v \in Pending(p) : Migration(p, v) \in M
    BY DEF Pending, Schema
  <2>2. \A i \in 1 .. n : Migration(p, order[i]) \in M
    BY <1>1, <2>1
  <2> QED
    BY <2>2, <1>3
<1> HIDE DEF M
<1>a. Len(ran) \in Nat /\ DOMAIN ran = 1 .. Len(ran)
  BY <1>2
<1>5. /\ ran' \in Seq(M) /\ Len(ran') = Len(ran) + n
      /\ \A i \in 1 .. Len(ran) : ran'[i] = ran[i]
      /\ \A i \in 1 .. n : ran'[Len(ran) + i] = Migration(p, order[i])
  BY <1>1, <1>2, <1>3, <1>4
<1> HIDE DEF new
<1>6. Applied' = Applied \cup {Migration(p, v) : v \in Pending(p)}
  <2>1. ASSUME NEW x \in Applied' PROVE x \in Applied \cup {Migration(p, v) : v \in Pending(p)}
    <3>1. PICK i \in 1 .. Len(ran) + n : x = ran'[i]
      BY <1>2, <1>3, <1>5 DEF Applied
    <3>2. CASE i <= Len(ran)
      BY <3>1, <3>2, <1>2, <1>5 DEF Applied
    <3>3. CASE i > Len(ran)
      <4>1. i - Len(ran) \in 1 .. n /\ i = Len(ran) + (i - Len(ran))
        BY <3>1, <3>3, <1>2, <1>3
      <4> QED
        BY <3>1, <4>1, <1>5
    <3> QED
      BY <3>1, <3>2, <3>3, <1>2, <1>3
  <2>2. ASSUME NEW x \in Applied PROVE x \in Applied'
    <3>1. PICK i \in 1 .. Len(ran) : x = ran[i]
      BY <1>2 DEF Applied
    <3>2. i \in 1 .. Len(ran')
      BY <1>2, <1>3, <1>5
    <3> QED
      BY <3>1, <3>2, <1>5 DEF Applied
  <2>3. ASSUME NEW v \in Pending(p) PROVE Migration(p, v) \in Applied'
    <3>1. PICK i \in 1 .. n : v = order[i]
      BY <1>1
    <3>2. Len(ran) + i \in 1 .. Len(ran')
      BY <1>2, <1>3, <1>5
    <3> QED
      BY <3>1, <3>2, <1>5 DEF Applied
  <2> QED
    BY <2>1, <2>2, <2>3
<1>7. Applied' = Schema(p)
  <2>1. ASSUME NEW m \in Applied PROVE m \in Schema(p)
    <3>1. \E q \in Processes : \E v \in DOMAIN Embedded[q] : m = Migration(q, v)
      BY <1>2 DEF Applied, Schema, M
    <3>2. m.version \in DOMAIN Embedded[p] /\ m.checksum = Embedded[p][m.version]
      BY <1>2 DEF Valid
    <3>3. m = Migration(p, m.version)
      BY <3>1, <3>2 DEF Migration
    <3> QED
      BY <3>2, <3>3 DEF Schema
  <2>2. ASSUME NEW v \in DOMAIN Embedded[p], v \notin Pending(p)
        PROVE  Migration(p, v) \in Applied
    <3>1. PICK m \in Applied : m.version = v
      BY <2>2 DEF Pending, Versions
    <3>2. PICK x \in DOMAIN Embedded[p] : m = Migration(p, x)
      BY <2>1 DEF Schema
    <3>3. x = v
      BY <3>1, <3>2 DEF Migration
    <3> QED
      BY <3>2, <3>3
  <2> QED
    BY <1>6, <2>1, <2>2 DEF Schema, Pending
<1>8. RanInOrder'
  <2> SUFFICES ASSUME NEW i \in 1 .. Len(ran) + n, NEW j \in 1 .. Len(ran) + n, i < j
               PROVE  ran'[i].version < ran'[j].version
    BY <1>5, <1>2, <1>3 DEF RanInOrder
  <2>1. CASE j <= Len(ran)
    <3>1. i \in DOMAIN ran /\ j \in DOMAIN ran /\ ran'[i] = ran[i] /\ ran'[j] = ran[j]
      BY <2>1, <1>a, <1>3, <1>5
    <3> QED
      BY <3>1 DEF SchemaInv, RanInOrder
  <2>2. CASE j > Len(ran)
    <3>1. j - Len(ran) \in 1 .. n /\ j = Len(ran) + (j - Len(ran))
      BY <2>2, <1>2, <1>3
    <3>2. ran'[j].version = order[j - Len(ran)] /\ order[j - Len(ran)] \in Pending(p)
      <4>1. order[j - Len(ran)] \in Pending(p)
        BY <3>1, <1>1
      <4>2. ran'[Len(ran) + (j - Len(ran))] = Migration(p, order[j - Len(ran)])
        BY <3>1, <1>5
      <4> QED
        BY <3>1, <4>1, <4>2, VersionOf
    <3>3. CASE i <= Len(ran)
      <4>1. i \in DOMAIN ran /\ ran'[i] = ran[i]
        BY <3>3, <1>2, <1>3, <1>5
      <4>2. ran[i].version \in Versions
        BY <4>1 DEF Versions, Applied
      <4> QED
        BY <4>1, <4>2, <3>2, <1>2, PendingIsLater DEF SchemaInv
    <3>4. CASE i > Len(ran)
      <4>1. /\ i - Len(ran) \in 1 .. n /\ i = Len(ran) + (i - Len(ran))
            /\ i - Len(ran) < j - Len(ran)
        BY <3>4, <1>2, <1>3
      <4>2. ran'[i].version = order[i - Len(ran)]
        BY <4>1, <1>5, VersionOf
      <4> QED
        BY <4>1, <4>2, <3>1, <3>2, <1>1 DEF Ascending
    <3> QED
      BY <3>3, <3>4, <1>2, <1>3
  <2> QED
    BY <2>1, <2>2, <1>2, <1>3
<1> QED
  BY <1>5, <1>7, <1>8 DEF M

LEMMA InitSchemaInv == Init => SchemaInv
  BY DEF Init, OwnershipInit, SchemaInv, OwnershipTypeOK, OwnInv, SchemaIsOwn, RanInOrder

LEMMA StepSchemaInv == SchemaInv /\ [Next]_vars => SchemaInv'
<1> SUFFICES ASSUME SchemaInv, [Next]_vars PROVE SchemaInv'
  OBVIOUS
<1> USE DEF SchemaInv
<1>1. ASSUME NEW p \in Processes, AcquireProcessLock(p) PROVE SchemaInv'
  <2>1. \A q \in Processes : phase[q] = "idle"
    BY <1>1, OwnershipAssumption DEF AcquireProcessLock, OwnInv
  <2> QED
    BY <1>1, <2>1 DEF AcquireProcessLock, OwnershipTypeOK, OwnInv, SchemaIsOwn, RanInOrder, Applied
<1>2. ASSUME NEW p \in Processes, Migrate(p) PROVE SchemaInv'
  <2>1. \A q \in Processes \ {p} : phase[q] = "idle"
    BY <1>2 DEF Migrate, OwnInv
  <2>2. OwnershipTypeOK' /\ RanInOrder'
    BY <1>2, MigrateSchema DEF Migrate, OwnershipTypeOK
  <2>3. OwnInv'
    BY <1>2, <2>1 DEF Migrate, OwnershipTypeOK, OwnInv
  <2>4. SchemaIsOwn'
    <3>1. \A q \in Processes : phase'[q] = "working" => q = p
      BY <1>2, <2>1 DEF Migrate, OwnershipTypeOK
    <3>2. Applied' = Schema(p)
      BY <1>2, MigrateSchema
    <3> QED
      BY <3>1, <3>2 DEF SchemaIsOwn, Schema, Migration
  <2> QED
    BY <2>2, <2>3, <2>4
<1>3. ASSUME NEW p \in Processes, LeaveOwnership(p) PROVE SchemaInv'
  BY <1>3 DEF LeaveOwnership, OwnershipTypeOK, OwnInv, SchemaIsOwn, RanInOrder, Applied
<1>4. CASE UNCHANGED ownershipVars
  BY <1>4 DEF ownershipVars, OwnershipTypeOK, OwnInv, SchemaIsOwn, RanInOrder, Applied
<1>5. ASSUME NEW p \in Processes, Serve(p) \/ Rebuild(p) PROVE UNCHANGED ownershipVars
  BY <1>5 DEF Serve, Rebuild, StartGeneration, Visit, Flush, ActivateGeneration,
              CleanupObsoleteBatch
<1> QED
  BY <1>1, <1>2, <1>3, <1>4, <1>5 DEF Next, Own, Leave, vars

\* A process works on the schema its own release embeds, whichever releases
\* ran before it: the process lock and validateAppliedMigrations see to it.
THEOREM SchemaIsAlwaysOwn == Spec => []SchemaIsOwn
<1>1. SchemaInv => SchemaIsOwn
  BY DEF SchemaInv
<1> QED
  BY InitSchemaInv, StepSchemaInv, <1>1, PTL DEF Spec

\* Upgrades, downgrades and releases of a fork never run migrations out of
\* the order of their versions.
THEOREM MigrationsRunInOrder == Spec => []RanInOrder
<1>1. SchemaInv => RanInOrder
  BY DEF SchemaInv
<1> QED
  BY InitSchemaInv, StepSchemaInv, <1>1, PTL DEF Spec

-----------------------------------------------------------------------------
(* Reindexing: generations *)

LEMMA ItemsAreFinite ==
  ASSUME NEW S \in SUBSET Items
  PROVE  IsFiniteSet(S) /\ Cardinality(S) \in Nat
<1>1. IsFiniteSet(Items)
  BY ReindexingAssumption, FS_Interval DEF Items
<1>2. IsFiniteSet(S)
  BY <1>1, FS_Subset
<1> QED
  BY <1>2, FS_CardinalityType

LEMMA DisjointUnion ==
  ASSUME NEW S \in SUBSET Items, NEW T \in SUBSET Items, S \cap T = {}
  PROVE  Cardinality(S \cup T) = Cardinality(S) + Cardinality(T)
<1>1. Cardinality(S \cap T) = 0
  BY FS_EmptySet
<1>2. /\ IsFiniteSet(S) /\ Cardinality(S) \in Nat
      /\ IsFiniteSet(T) /\ Cardinality(T) \in Nat
  BY ItemsAreFinite
<1>3. Cardinality(S \cup T) = Cardinality(S) + Cardinality(T) - Cardinality(S \cap T)
  BY <1>2, FS_Union
<1> QED
  BY <1>1, <1>2, <1>3

LEMMA VolumesAreItems == Volumes \subseteq SUBSET Items
  BY DEF Volumes

LEMMA InitIInv == Init => IInv
<1> SUFFICES ASSUME Init PROVE IInv
  OBVIOUS
<1> USE ReindexingAssumption DEF Init
<1>1. TypeOK
  <2>1. {} \in Volumes
    BY DEF Volumes
  <2>2. 1 \in Generations
    BY DEF Generations
  <2>3. NotBuilding \in Builds
    BY DEF NotBuilding, Builds
  <2> QED
    BY <2>1, <2>2, <2>3 DEF TypeOK, OwnershipInit, OwnershipTypeOK
<1>2. OwnInv /\ BuildInv /\ RowInv
  BY DEF OwnershipInit, OwnInv, BuildInv, RowInv, NotBuilding
<1> QED
  BY <1>1, <1>2 DEF IInv

\* While one process works nobody else has a build.
LEMMA OneBuild ==
  ASSUME OwnInv, BuildInv, NEW p \in Processes, phase[p] # "idle",
         NEW q \in Processes \ {p}
  PROVE  build[q].step = "none"
  BY DEF OwnInv, BuildInv

\* Taking and leaving the lock.
LEMMA OwnStepIInv ==
  ASSUME IInv, SchemaInv', NEW p \in Processes, Own(p) \/ Leave(p)
  PROVE  IInv'
<1> USE DEF IInv, indexVars
<1>1. OwnershipTypeOK' /\ OwnInv'
  BY DEF SchemaInv
<1>2. CASE Own(p)
  <2>1. UNCHANGED <<indexVars, build>> /\ \A q \in Processes : phase[q] = "working" => phase'[q] = "working"
    BY <1>2 DEF Own, AcquireProcessLock, Migrate, TypeOK, OwnershipTypeOK
  <2> QED
    BY <1>1, <2>1 DEF TypeOK, BuildInv, RowInv, Constructed, Walked, Superseded
<1>3. CASE Leave(p)
  <2>1. /\ phase[p] # "idle" /\ UNCHANGED indexVars
        /\ build' = [build EXCEPT ![p] = NotBuilding]
    BY <1>3 DEF Leave, LeaveOwnership
  <2>2. \A q \in Processes : build'[q].step = "none"
    BY <2>1, OneBuild DEF TypeOK, NotBuilding
  <2>3. NotBuilding \in Builds
    BY DEF NotBuilding, Builds
  <2> QED
    BY <1>1, <2>1, <2>2, <2>3 DEF TypeOK, BuildInv, RowInv
<1> QED
  BY <1>2, <1>3

\* A server that works has no reindex beside it.
LEMMA ServeIInv ==
  ASSUME IInv, NEW p \in Processes, Serve(p)
  PROVE  IInv'
<1> USE DEF IInv
<1>1. /\ UNCHANGED <<ownershipVars, status, active, build>>
      /\ disk' \in Volumes
      /\ \/ entries' = [entries EXCEPT ![active] = disk'] /\ UNCHANGED healthy
         \/ healthy' = FALSE /\ UNCHANGED entries
  BY DEF Serve
<1>2. \A q \in Processes : build[q].step = "none"
  BY OneBuild DEF Serve, BuildInv
<1>3. status[active] = "active" /\ active \in Generations
  BY DEF TypeOK
<1>4. TypeOK'
  BY <1>1, VolumesAreItems DEF TypeOK, OwnershipTypeOK, ownershipVars
<1>5. OwnInv' /\ BuildInv'
  BY <1>1, <1>2 DEF OwnInv, BuildInv, ownershipVars
<1>6. RowInv'
  BY <1>1, <1>3 DEF RowInv, TypeOK
<1> QED
  BY <1>4, <1>5, <1>6

\* A new generation has no rows, and is the only one under construction.
LEMMA StartIInv ==
  ASSUME IInv, NEW p \in Processes, StartGeneration(p)
  PROVE  IInv'
<1> USE DEF IInv
<1>1. PICK g \in Generations :
        /\ IsNextId(g)
        /\ status' = [h \in Generations |->
                        IF h = g THEN "building"
                        ELSE IF status[h] = "building" THEN "obsolete" ELSE status[h]]
        /\ build' = [build EXCEPT ![p] = [NotBuilding EXCEPT !.step = "walk", !.gen = g]]
  BY DEF StartGeneration
<1>2. /\ UNCHANGED <<ownershipVars, disk, entries, active, healthy>>
      /\ phase[p] = "working" /\ p \in Admins
  BY DEF StartGeneration, At
<1>3. status[g] = "none" /\ g # active /\ entries[g] = {}
  <2>1. g \notin Ids
    BY <1>1, ReindexingAssumption DEF IsNextId, Generations
  <2> QED
    BY <2>1 DEF Ids, TypeOK, RowInv
<1> DEFINE b == [NotBuilding EXCEPT !.step = "walk", !.gen = g]
<1>4. /\ b \in Builds /\ b.step = "walk" /\ b.gen = g /\ b.next = 1
      /\ b.batch = {} /\ b.indexed = 0
  BY DEF Builds, NotBuilding
<1>5. build'[p] = b /\ \A q \in Processes \ {p} : build'[q].step = "none"
  BY <1>1, <1>2, OneBuild DEF TypeOK
<1>6. TypeOK'
  BY <1>1, <1>2, <1>3, <1>4 DEF TypeOK, OwnershipTypeOK, ownershipVars
<1>7. Constructed(p)'
  <2> HIDE DEF b
  <2>1. build'[p].gen = g /\ build'[p].indexed = 0
    BY <1>4, <1>5
  <2>2. \A h \in Generations : status'[h] = "building" <=> h = g
    BY <1>1
  <2>3. Cardinality(entries'[g]) = 0
    BY <1>2, <1>3, FS_EmptySet
  <2> QED
    BY <2>1, <2>2, <2>3 DEF Constructed
<1>8. Walked(p)'
  <2>1. {i \in disk : i < 1} = {}
    <3>1. disk \in SUBSET Items
      BY VolumesAreItems DEF TypeOK
    <3>2. \A i \in Items : ~(i < 1)
      BY ReindexingAssumption DEF Items
    <3> QED
      BY <3>1, <3>2
  <2>2. 1 \in 1 .. ItemCount + 1
    BY ReindexingAssumption
  <2> HIDE DEF b
  <2> QED
    BY <2>1, <2>2, <1>2, <1>3, <1>4, <1>5 DEF Walked
<1>9. BuildInv'
  <2> HIDE DEF b
  <2> QED
    BY <1>2, <1>4, <1>5, <1>7, <1>8 DEF BuildInv, ownershipVars
<1>10. OwnInv' /\ RowInv'
  BY <1>1, <1>2 DEF OwnInv, RowInv, ownershipVars
<1> QED
  BY <1>6, <1>9, <1>10

\* One item of the walk moves from the volume to the batch or the rows.
LEMMA VisitIInv ==
  ASSUME IInv, NEW p \in Processes, Visit(p)
  PROVE  IInv' /\ entries'[active] = entries[active]
<1> USE DEF IInv
<1> DEFINE b == build[p]
           g == build[p].gen
           batch == b.batch \cup ({b.next} \cap disk)
           full == Cardinality(batch) = ReindexBatch
           c == [b EXCEPT !.next = @ + 1,
                          !.batch = IF full THEN {} ELSE batch,
                          !.indexed = IF full THEN @ + ReindexBatch ELSE @]
<1>1. /\ b.step = "walk" /\ b.next \in Items
      /\ entries' = IF full THEN [entries EXCEPT ![g] = @ \cup batch] ELSE entries
      /\ build' = [build EXCEPT ![p] = c]
      /\ UNCHANGED <<ownershipVars, disk, status, active, healthy>>
      /\ phase[p] = "working" /\ p \in Admins
  BY DEF Visit, At
<1>2. /\ Constructed(p) /\ Walked(p) /\ g \in Generations /\ status[g] = "building"
      /\ b \in Builds /\ b.next \in Nat /\ b.batch \in SUBSET Items /\ b.indexed \in Nat
      /\ entries[g] \in SUBSET Items /\ disk \in SUBSET Items
  BY <1>1, VolumesAreItems DEF TypeOK, BuildInv, Constructed, Builds
<1>3. g # active
  BY <1>2 DEF TypeOK
<1>4. /\ batch \in SUBSET Items /\ entries[g] \cap batch = {}
      /\ entries[g] \cup batch = {i \in disk : i < b.next + 1}
      /\ b.next + 1 \in 1 .. ItemCount + 1
  BY <1>1, <1>2, ReindexingAssumption DEF Walked, Items
<1> HIDE DEF batch, full
<1>5. /\ c \in Builds /\ c.step = "walk" /\ c.gen = g /\ c.next = b.next + 1
      /\ c.batch = IF full THEN {} ELSE batch
      /\ c.indexed = IF full THEN b.indexed + ReindexBatch ELSE b.indexed
  <2>1. b.next + 1 \in Nat /\ (IF full THEN {} ELSE batch) \in SUBSET Items
    BY <1>2, <1>4
  <2>2. (IF full THEN b.indexed + ReindexBatch ELSE b.indexed) \in Nat
    BY <1>2, ReindexingAssumption
  <2> HIDE DEF b
  <2>3. /\ c \in Builds /\ c.step = b.step /\ c.gen = b.gen /\ c.next = b.next + 1
        /\ c.batch = IF full THEN {} ELSE batch
        /\ c.indexed = IF full THEN b.indexed + ReindexBatch ELSE b.indexed
    BY <1>2, <2>1, <2>2 DEF Builds
  <2> QED
    BY <1>1, <2>3 DEF b
<1> HIDE DEF c
<1>6. build'[p] = c /\ \A q \in Processes \ {p} : build'[q].step = "none"
  BY <1>1, OneBuild DEF TypeOK
<1>7. /\ entries'[g] = IF full THEN entries[g] \cup batch ELSE entries[g]
      /\ \A h \in Generations \ {g} : entries'[h] = entries[h]
      /\ entries' \in [Generations -> SUBSET Items]
  BY <1>1, <1>2, <1>4 DEF TypeOK
<1>8. TypeOK'
  BY <1>1, <1>5, <1>7 DEF TypeOK, OwnershipTypeOK, ownershipVars
<1>9. Constructed(p)'
  <2>1. c.indexed = Cardinality(entries'[g])
    BY <1>2, <1>4, <1>5, <1>7, DisjointUnion DEF Constructed, full
  <2> QED
    BY <2>1, <1>1, <1>2, <1>5, <1>6 DEF Constructed
<1>10. Walked(p)'
  BY <1>1, <1>4, <1>5, <1>6, <1>7 DEF Walked
<1>11. BuildInv'
  BY <1>1, <1>5, <1>6, <1>9, <1>10 DEF BuildInv, ownershipVars
<1>12. OwnInv' /\ RowInv' /\ entries'[active] = entries[active]
  BY <1>1, <1>2, <1>3, <1>7 DEF OwnInv, RowInv, TypeOK, ownershipVars
<1> QED
  BY <1>8, <1>11, <1>12

\* After the walk the generation holds the whole volume.
LEMMA FlushIInv ==
  ASSUME IInv, NEW p \in Processes, Flush(p)
  PROVE  IInv' /\ entries'[active] = entries[active]
<1> USE DEF IInv
<1> DEFINE b == build[p]
           g == build[p].gen
           c == [b EXCEPT !.step = "activate", !.batch = {},
                          !.indexed = @ + Cardinality(b.batch)]
<1>1. /\ b.step = "walk" /\ b.next \notin Items
      /\ entries' = [entries EXCEPT ![g] = @ \cup b.batch]
      /\ build' = [build EXCEPT ![p] = c]
      /\ UNCHANGED <<ownershipVars, disk, status, active, healthy>>
      /\ phase[p] = "working" /\ p \in Admins
  BY DEF Flush, At
<1>2. /\ Constructed(p) /\ Walked(p) /\ g \in Generations /\ status[g] = "building"
      /\ b \in Builds /\ b.next \in Nat /\ b.batch \in SUBSET Items /\ b.indexed \in Nat
      /\ entries[g] \in SUBSET Items /\ disk \in SUBSET Items
  BY <1>1, VolumesAreItems DEF TypeOK, BuildInv, Constructed, Builds
<1>3. g # active
  BY <1>2 DEF TypeOK
<1>4. entries[g] \cap b.batch = {} /\ entries[g] \cup b.batch = disk
  <2>1. ASSUME NEW i \in disk PROVE i < b.next
    <3>1. i \in Items
      BY <1>2
    <3> QED
      BY <1>1, <1>2, <3>1, ReindexingAssumption DEF Walked, Items
  <2> QED
    BY <1>2, <2>1 DEF Walked
<1>5. /\ c \in Builds /\ c.step = "activate" /\ c.gen = g
      /\ c.indexed = b.indexed + Cardinality(b.batch)
  <2>1. b.indexed + Cardinality(b.batch) \in Nat
    BY <1>2, ItemsAreFinite
  <2> HIDE DEF b
  <2>2. /\ c \in Builds /\ c.step = "activate" /\ c.gen = b.gen
        /\ c.indexed = b.indexed + Cardinality(b.batch)
    BY <1>2, <2>1 DEF Builds
  <2> QED
    BY <2>2 DEF b
<1> HIDE DEF c
<1>6. build'[p] = c /\ \A q \in Processes \ {p} : build'[q].step = "none"
  BY <1>1, OneBuild DEF TypeOK
<1>7. /\ entries'[g] = disk
      /\ \A h \in Generations \ {g} : entries'[h] = entries[h]
      /\ entries' \in [Generations -> SUBSET Items]
  BY <1>1, <1>2, <1>4 DEF TypeOK
<1>8. TypeOK'
  BY <1>1, <1>5, <1>7 DEF TypeOK, OwnershipTypeOK, ownershipVars
<1>9. Constructed(p)'
  <2>1. c.indexed = Cardinality(entries'[g])
    BY <1>2, <1>4, <1>5, <1>7, DisjointUnion DEF Constructed
  <2> QED
    BY <2>1, <1>1, <1>2, <1>5, <1>6 DEF Constructed
<1>10. BuildInv'
  BY <1>1, <1>5, <1>6, <1>7, <1>9 DEF BuildInv, ownershipVars
<1>11. OwnInv' /\ RowInv' /\ entries'[active] = entries[active]
  BY <1>1, <1>2, <1>3, <1>7 DEF OwnInv, RowInv, TypeOK, ownershipVars
<1> QED
  BY <1>8, <1>10, <1>11

\* The switch: the new generation shows the volume, and none is left under
\* construction.
LEMMA ActivateIInv ==
  ASSUME IInv, NEW p \in Processes, ActivateGeneration(p)
  PROVE  /\ IInv' /\ UNCHANGED disk
         /\ healthy' /\ status'[active'] = "active" /\ entries'[active'] = disk
<1> USE DEF IInv
<1> DEFINE g == build[p].gen
<1>1. /\ build[p].step = "activate" /\ g \in Generations
      /\ \A h \in Generations : status[h] = "building" <=> h = g
      /\ entries[g] = disk
      /\ status' = [h \in Generations |->
                      IF h = g THEN "active"
                      ELSE IF status[h] = "active" THEN "obsolete" ELSE status[h]]
      /\ active' = g /\ healthy' = TRUE
      /\ build' = [build EXCEPT ![p].step = "clean"]
      /\ UNCHANGED <<ownershipVars, disk, entries>>
      /\ phase[p] = "working" /\ p \in Admins
  BY DEF ActivateGeneration, At, BuildInv, Constructed
<1>2. /\ build'[p].step = "clean" /\ build' \in [Processes -> Builds]
      /\ \A q \in Processes \ {p} : build'[q].step = "none"
  BY <1>1, OneBuild DEF TypeOK, Builds
<1>3. TypeOK'
  BY <1>1, <1>2 DEF TypeOK, OwnershipTypeOK, ownershipVars
<1>4. Superseded'
  BY <1>1 DEF Superseded, TypeOK
<1>5. BuildInv'
  BY <1>1, <1>2, <1>4 DEF BuildInv, ownershipVars
<1>6. OwnInv' /\ RowInv'
  BY <1>1 DEF OwnInv, RowInv, TypeOK, ownershipVars
<1> QED
  BY <1>1, <1>3, <1>5, <1>6

\* Collecting deletes no row that readers see, and ends with nothing left.
LEMMA CleanupIInv ==
  ASSUME IInv, NEW p \in Processes, CleanupObsoleteBatch(p)
  PROVE  /\ IInv' /\ UNCHANGED <<disk, active, healthy>>
         /\ status'[active] = status[active] /\ entries'[active] = entries[active]
<1> USE DEF IInv
<1>1. PICK deleted \in SUBSET Garbage :
        /\ \/ Cardinality(deleted) = CleanupBatch
           \/ deleted = Garbage /\ Cardinality(Garbage) < CleanupBatch
        /\ entries' = [g \in Generations |-> {i \in entries[g] : <<g, i>> \notin deleted}]
        /\ build' = [build EXCEPT ![p].step = IF deleted = {} THEN "done" ELSE "clean"]
  BY DEF CleanupObsoleteBatch
<1>2. /\ build[p].step = "clean" /\ phase[p] = "working" /\ p \in Admins
      /\ status' = [g \in Generations |->
                      IF status[g] = "obsolete" /\ entries'[g] = {} THEN "none" ELSE status[g]]
      /\ UNCHANGED <<ownershipVars, disk, active, healthy>>
  BY DEF CleanupObsoleteBatch, At
<1>3. \A g \in Generations : status[g] # "obsolete" => entries'[g] = entries[g]
  BY <1>1 DEF Garbage, TypeOK
<1>4. deleted = {} => \A g \in Generations : status[g] = "obsolete" => entries'[g] = {}
  <2>1. deleted = {} => Garbage = {}
    BY <1>1, FS_EmptySet, ReindexingAssumption
  <2>2. ASSUME Garbage = {}, NEW g \in Generations, status[g] = "obsolete", NEW i \in entries[g]
        PROVE  FALSE
    <3>1. i \in Items
      BY DEF TypeOK
    <3>2. <<g, i>> \in Garbage
      BY <2>2, <3>1 DEF Garbage
    <3> QED
      BY <2>2, <3>2
  <2> QED
    BY <1>1, <2>1, <2>2
<1>5. /\ build'[p].step = (IF deleted = {} THEN "done" ELSE "clean")
      /\ build' \in [Processes -> Builds]
      /\ \A q \in Processes \ {p} : build'[q].step = "none"
  BY <1>1, <1>2, OneBuild DEF TypeOK, Builds
<1>6. active \in Generations /\ status[active] = "active" /\ status'[active] = "active"
  BY <1>2 DEF TypeOK
<1>7. TypeOK'
  BY <1>1, <1>2, <1>5 DEF TypeOK, OwnershipTypeOK, ownershipVars
<1>8. Superseded' /\ (deleted = {} => \A g \in Generations \ {active} : status'[g] = "none")
  BY <1>2, <1>4 DEF BuildInv, Superseded, TypeOK
<1>9. BuildInv'
  BY <1>2, <1>5, <1>8 DEF BuildInv, ownershipVars
<1>10. OwnInv' /\ RowInv'
  BY <1>2, <1>3 DEF OwnInv, RowInv, ownershipVars, TypeOK
<1> QED
  BY <1>2, <1>3, <1>6, <1>7, <1>9, <1>10

-----------------------------------------------------------------------------
(* The theorems about generations *)

LEMMA StepIInv == IInv /\ SchemaInv /\ [Next]_vars => IInv' /\ SchemaInv'
<1> SUFFICES ASSUME IInv, SchemaInv, [Next]_vars PROVE IInv' /\ SchemaInv'
  OBVIOUS
<1>1. SchemaInv'
  BY StepSchemaInv
<1>2. CASE UNCHANGED vars
  <2>1. UNCHANGED <<ownershipVars, indexVars, build>>
    BY <1>2 DEF vars
  <2> QED
    BY <2>1, <1>1 DEF indexVars, ownershipVars, IInv, TypeOK, OwnershipTypeOK, OwnInv, BuildInv,
                      RowInv, Constructed, Walked, Superseded
<1>3. ASSUME NEW p \in Processes, Own(p) \/ Serve(p) \/ Rebuild(p) \/ Leave(p)
      PROVE  IInv'
  BY <1>1, <1>3, OwnStepIInv, ServeIInv, StartIInv, VisitIInv, FlushIInv, ActivateIInv,
     CleanupIInv DEF Rebuild
<1> QED
  BY <1>1, <1>2, <1>3 DEF Next

\* The tables of the index stay well formed: readers have exactly one
\* active generation, through every interruption of a reindex.
THEOREM TypeCorrect == Spec => []TypeOK
<1>1. IInv => TypeOK
  BY DEF IInv
<1> QED
  BY InitIInv, InitSchemaInv, StepIInv, <1>1, PTL DEF Spec

\* A reindex that reports success has collected all that earlier ones left,
\* in batches of any size.
THEOREM ReindexCleansUp == Spec => []NothingLeftBehind
<1>1. IInv => NothingLeftBehind
  BY DEF IInv, BuildInv, RowInv, NothingLeftBehind
<1> QED
  BY InitIInv, InitSchemaInv, StepIInv, <1>1, PTL DEF Spec

LEMMA InitAtomic == Init => Atomic!Init
  BY ReindexingAssumption
     DEF Init, Atomic!Init, View, Usable, Generations

LEMMA StepAtomic == IInv /\ SchemaInv /\ [Next]_vars => [Atomic!Next]_<<disk, View>>
<1> SUFFICES ASSUME IInv, SchemaInv, [Next]_vars PROVE [Atomic!Next]_<<disk, View>>
  OBVIOUS
<1>0. /\ active \in Generations /\ status[active] = "active"
      /\ entries \in [Generations -> SUBSET Items] /\ disk \in SUBSET Items
  BY VolumesAreItems DEF IInv, TypeOK
<1>1. CASE UNCHANGED vars
  BY <1>1 DEF vars, indexVars, View, Usable
<1>2. ASSUME NEW p \in Processes, Own(p) \/ Leave(p) PROVE UNCHANGED <<disk, View>>
  BY <1>2 DEF Own, Leave, indexVars, View, Usable
<1>3. ASSUME NEW p \in Processes, Serve(p) PROVE Atomic!Next
  <2>1. View = entries[active] /\ View # Unusable
    BY <1>0, <1>3, ReindexingAssumption DEF Serve, View, Usable
  <2>2. disk' \in SUBSET Items
    BY <1>3, VolumesAreItems DEF Serve
  <2>3. View' \in {disk', Unusable}
    BY <1>0, <1>3 DEF Serve, View, Usable
  <2> QED
    BY <2>1, <2>2, <2>3 DEF Atomic!Next, Atomic!Mutate
<1>4. ASSUME NEW p \in Processes, StartGeneration(p) PROVE UNCHANGED <<disk, View>>
  <2>1. status'[active] = "active"
    BY <1>4, StartIInv DEF StartGeneration, IInv, TypeOK
  <2> QED
    BY <1>0, <1>4, <2>1 DEF StartGeneration, View, Usable
<1>5. ASSUME NEW p \in Processes, Visit(p) \/ Flush(p) PROVE UNCHANGED <<disk, View>>
  <2>1. entries'[active] = entries[active] /\ UNCHANGED <<disk, status, active, healthy>>
    BY <1>5, VisitIInv, FlushIInv DEF Visit, Flush
  <2> QED
    BY <2>1 DEF View, Usable
<1>6. ASSUME NEW p \in Processes, ActivateGeneration(p) PROVE Atomic!Next
  BY <1>6, ActivateIInv DEF Atomic!Next, Atomic!Rebuild, View, Usable
<1>7. ASSUME NEW p \in Processes, CleanupObsoleteBatch(p) PROVE UNCHANGED <<disk, View>>
  BY <1>7, CleanupIInv DEF View, Usable
<1> QED
  BY <1>1, <1>2, <1>3, <1>4, <1>5, <1>6, <1>7 DEF Next, Rebuild

\* Readers of the index see a reindex as one step or none, whatever the
\* batch sizes and wherever it is interrupted: Reindexing implements
\* AtomicIndex.
THEOREM ReindexImplementsAtomic == Spec => ReindexIsAtomic
  BY InitIInv, InitSchemaInv, StepIInv, InitAtomic, StepAtomic, PTL
     DEF Spec, ReindexIsAtomic, Atomic!Spec
=============================================================================
