------------------------------ MODULE Ownership ------------------------------
(***************************************************************************)
(* Who may work on the database: the server or one administration command, *)
(* each of which takes the process lock (internal/database/                *)
(* process_lock.go), opens the database and migrates it (migrations.go)    *)
(* before it does anything else, and gives the lock back last.  Processes  *)
(* of different releases embed different migrations.                       *)
(***************************************************************************)
EXTENDS Integers, FiniteSets, Sequences

CONSTANTS
  Processes,
  Nobody,
  Embedded  \* of a process: the checksum of each migration version it embeds

ASSUME OwnershipAssumption ==
  /\ Nobody \notin Processes
  /\ \A p \in Processes : /\ DOMAIN Embedded[p] \in SUBSET (Nat \ {0})
                           /\ IsFiniteSet(DOMAIN Embedded[p])

VARIABLES
  owner,  \* who holds the flock
  phase,  \* idle, opened (the lock is held) or working (migrated)
  ran     \* the migrations that built the schema, in the order they ran

ownershipVars == <<owner, phase, ran>>

\* The table schema_migrations.
Applied == {ran[i] : i \in DOMAIN ran}
Versions == {m.version : m \in Applied}

OwnershipInit ==
  /\ owner = Nobody
  /\ phase = [p \in Processes |-> "idle"]
  /\ ran = <<>>

\* Mutant of AcquireProcessLock: a busy lock is not noticed.
AcquireBusy(p) ==
  /\ phase[p] = "idle"
  /\ owner' = p
  /\ phase' = [phase EXCEPT ![p] = "opened"]
  /\ UNCHANGED ran

\* A process that finds the lock busy ends at once and has changed nothing.
AcquireProcessLock(p) ==
  /\ phase[p] = "idle" /\ owner = Nobody
  /\ owner' = p
  /\ phase' = [phase EXCEPT ![p] = "opened"]
  /\ UNCHANGED ran

Migration(p, v) == [version |-> v, checksum |-> Embedded[p][v]]
Schema(p) == {Migration(p, v) : v \in DOMAIN Embedded[p]}

Pending(p) == DOMAIN Embedded[p] \ Versions

Ascending(s) == \A i, j \in DOMAIN s : i < j => s[i] < s[j]

\* Mutant of Valid: the applied migrations need not be a prefix.
ValidNames(p) ==
  \A m \in Applied : /\ m.version \in DOMAIN Embedded[p]
                     /\ m.checksum = Embedded[p][m.version]

\* validateAppliedMigrations.
Valid(p) ==
  /\ \A m \in Applied : /\ m.version \in DOMAIN Embedded[p]
                        /\ m.checksum = Embedded[p][m.version]
  /\ \A v \in DOMAIN Embedded[p] :
       v \in Versions
         <=> Cardinality({w \in DOMAIN Embedded[p] : w < v}) < Cardinality(Applied)

\* One transaction runs and records everything that is pending, in the
\* order of the versions.
Migrate(p) ==
  /\ phase[p] = "opened" /\ Valid(p)
  /\ \E order \in [1 .. Cardinality(Pending(p)) -> Pending(p)] :
       /\ Ascending(order) /\ {order[i] : i \in DOMAIN order} = Pending(p)
       /\ ran' = ran \o [i \in DOMAIN order |-> Migration(p, order[i])]
  /\ phase' = [phase EXCEPT ![p] = "working"]
  /\ UNCHANGED owner

\* The process ends at any point, in order, with an error (a failed
\* migration is rolled back) or by a crash, and the kernel drops the flock.
LeaveOwnership(p) ==
  /\ phase[p] # "idle"
  /\ phase' = [phase EXCEPT ![p] = "idle"]
  /\ owner' = IF owner = p THEN Nobody ELSE owner
  /\ UNCHANGED ran

OwnershipTypeOK ==
  /\ owner \in Processes \cup {Nobody}
  /\ phase \in [Processes -> {"idle", "opened", "working"}]
  /\ ran \in Seq(UNION {Schema(p) : p \in Processes})

-----------------------------------------------------------------------------

\* Every process works on exactly the schema its release embeds, as long as
\* it works: no newer release migrates the database under it, and none
\* begins on a schema it does not know.
SchemaIsOwn ==
  \A p \in Processes : phase[p] = "working" => Applied = Schema(p)

\* Whatever releases ran before, and in whichever order, the migrations ran
\* in the order of their versions: the schema is the one of a fresh install.
RanInOrder ==
  \A i, j \in DOMAIN ran : i < j => ran[i].version < ran[j].version
=============================================================================
