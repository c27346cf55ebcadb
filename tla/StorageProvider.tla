--------------------------- MODULE StorageProvider ---------------------------
(***************************************************************************)
(* The storage provider (internal/storage/availability.go) in front of the *)
(* verified volume, its probes, and the check of free space (storage.go    *)
(* CheckAvailable) with the chunk requests of internal/uploads that it     *)
(* admits.                                                                 *)
(*                                                                         *)
(* At any moment another volume, or none, may be what the root path leads  *)
(* to.  A Manager works through the directory handles that open made, so   *)
(* it stays on its volume; CheckAvailable asks statfs for the path.        *)
(* mutationMu, probeMu and the chunk slots have no variables: they are     *)
(* the jobs that hold them.  Space is counted in units.                    *)
(***************************************************************************)
EXTENDS Naturals, FiniteSets

CONSTANTS
  Jobs,          \* goroutines that use the provider
  Volumes, Ours, \* Ours has the expected marker
  Nothing,       \* the path leads to no volume
  Slots,         \* MaxConcurrentChunks
  MaxChunk,      \* the largest chunk size
  Reserve,       \* StorageReserveBytes
  Space          \* bound of the model: free space of Ours

VARIABLES
  mounted,   \* where the root path leads to
  available, \* the flag of the provider
  told,      \* onStateChange(false) calls of this process
  content,   \* a version of each volume, modulo 2
  free,      \* free space of Ours
  misled,    \* history: statfs was asked of another volume
  job

vars == <<mounted, available, told, content, free, misled, job>>

ASSUME StorageProviderAssumption ==
  /\ Ours \in Volumes /\ Nothing \notin Volumes
  /\ {Slots, MaxChunk} \subseteq Nat \ {0}
  /\ {Reserve, Space} \subseteq Nat
  /\ IsFiniteSet(Jobs)

(* "change"  an operation that holds mutationMu                            *)
(* "part"    CreatePart, RemovePart, PartInfo, OpenDownload                *)
(* "probe"   Available                                                     *)
(* "check", "stream"  a chunk request before and after CheckAvailable      *)
Kinds == {"change", "part", "probe", "check", "stream"}

\* left is what a chunk request may still write.  Its LimitReader passes one
\* byte more than the chunk, to notice it, but the MaxBytesReader of the
\* handler below it never delivers that byte.
Idle == [pc |-> "idle"]
Running == [pc : {"ask", "load", "open", "operate", "finish", "mark", "notify", "write"},
            kind : Kinds, on : Volumes, left : 0 .. MaxChunk]

At(j, pc) == job[j].pc = pc
Busy(kinds) == {j \in Jobs : job[j] # Idle /\ job[j].kind \in kinds}
Goto(j, pc) == job' = [job EXCEPT ![j].pc = pc]
End(j) == job' = [job EXCEPT ![j] = Idle]

\* verifyStorageVolume.
Genuine == mounted = Ours

Init ==
  /\ mounted \in Volumes \cup {Nothing}
  /\ content = [v \in Volumes |-> 0]
  /\ available \in BOOLEAN
  /\ available => Genuine
  /\ told = IF available THEN 0 ELSE 1
  /\ free \in 0 .. Space
  /\ misled = FALSE
  /\ job = [j \in Jobs |-> Idle]

-----------------------------------------------------------------------------

Start(j, kind, pc, left) ==
  /\ job[j] = Idle
  /\ job' = [job EXCEPT ![j] = [pc |-> pc, kind |-> kind, on |-> Ours, left |-> left]]
  /\ UNCHANGED <<mounted, available, told, content, free, misled>>

\* mutationMu is taken before storageManager looks at the flag.
BeginChange(j) == Busy({"change"}) = {} /\ Start(j, "change", "load", 0)
BeginPart(j) == Start(j, "part", "load", 0)

\* Mutant of BeginChunk: the slot is taken when the body is streamed.
BeginChunkWithoutSlot(j) == \E size \in 1 .. MaxChunk : Start(j, "check", "load", size)

BeginChunk(j) ==
  /\ Cardinality(Busy({"check", "stream"})) < Slots
  /\ \E size \in 1 .. MaxChunk : Start(j, "check", "load", size)

\* Available: the flag, then the wait for probeMu.
BeginProbe(j) == available /\ Start(j, "probe", "ask", 0)

\* The cached answer does not look at the flag again.
Ask(j) ==
  /\ At(j, "ask")
  /\ \A i \in Busy({"probe"}) : At(i, "ask")
  /\ End(j) \/ Goto(j, "load")
  /\ UNCHANGED <<mounted, available, told, content, free, misled>>

\* storageManager: a provider that is not available stays so.
Load(j) ==
  /\ At(j, "load")
  /\ IF available THEN Goto(j, "open") ELSE End(j)
  /\ UNCHANGED <<mounted, available, told, content, free, misled>>

\* Any step of open may fail for another reason as well.
Open(j) ==
  /\ At(j, "open")
  /\ \/ Genuine /\ job' = [job EXCEPT ![j].pc = "operate", ![j].on = mounted]
     \/ Goto(j, "mark")
  /\ UNCHANGED <<mounted, available, told, content, free, misled>>

\* The version changes with what the operation does to its volume.
Touch(v) == \E c \in 0 .. 1 : content' = [content EXCEPT ![v] = c]

\* A removed part gives its space back.
Operate(j) ==
  /\ At(j, "operate") /\ job[j].kind \in {"change", "part"}
  /\ \/ Touch(job[j].on) /\ End(j)
     \/ UNCHANGED content /\ Goto(j, "finish")
  /\ IF job[j].kind = "part" THEN free' \in free .. Space ELSE UNCHANGED free
  /\ UNCHANGED <<mounted, available, told, misled>>

\* A probe closes its Manager.
CloseProbe(j) ==
  /\ At(j, "operate") /\ job[j].kind = "probe"
  /\ End(j) \/ Goto(j, "mark")
  /\ UNCHANGED <<mounted, available, told, content, free, misled>>

\* CheckAvailable, before OpenPart asks for a Manager of its own.
CheckAvailable(j) ==
  /\ At(j, "operate") /\ job[j].kind = "check"
  /\ \/ /\ mounted = Ours => free >= job[j].left + Reserve
        /\ mounted # Nothing
        /\ misled' = (misled \/ mounted # Ours)
        /\ job' = [job EXCEPT ![j].pc = "load", ![j].kind = "stream"]
     \/ Goto(j, "finish") /\ UNCHANGED misled
  /\ UNCHANGED <<mounted, available, told, content, free>>

OpenPart(j) ==
  /\ At(j, "operate") /\ job[j].kind = "stream"
  /\ Goto(j, "write") \/ Goto(j, "finish")
  /\ UNCHANGED <<mounted, available, told, content, free, misled>>

\* Mutant of Write: no limit on the body.
WriteUnlimited(j) ==
  /\ At(j, "write")
  /\ \/ \E n \in 1 .. free :
          /\ free' = free - n
          /\ job' = [job EXCEPT ![j].left = @ - n]
          /\ Touch(job[j].on)
     \/ End(j) /\ UNCHANGED <<free, content>>
  /\ UNCHANGED <<mounted, available, told, misled>>

\* The body arrives; its end, an error or a full disk end the request.
Write(j) ==
  /\ At(j, "write")
  /\ \/ \E n \in 1 .. job[j].left :
          /\ n <= free
          /\ free' = free - n
          /\ job' = [job EXCEPT ![j].left = @ - n]
          /\ Touch(job[j].on)
     \/ End(j) /\ UNCHANGED <<free, content>>
  /\ UNCHANGED <<mounted, available, told, misled>>

\* finish: the error of an operation is checked against the volume.
Finish(j) ==
  /\ At(j, "finish")
  /\ \/ End(j) /\ (available => Genuine)
     \/ available /\ Goto(j, "mark")
  /\ UNCHANGED <<mounted, available, told, content, free, misled>>

\* Mutant of MarkUnavailable: a store instead of the compare-and-swap.
MarkByStore(j) ==
  /\ At(j, "mark")
  /\ available' = FALSE
  /\ Goto(j, "notify")
  /\ UNCHANGED <<mounted, told, content, free, misled>>

\* markUnavailable.
MarkUnavailable(j) ==
  /\ At(j, "mark")
  /\ IF available THEN available' = FALSE /\ Goto(j, "notify")
                  ELSE UNCHANGED available /\ End(j)
  /\ UNCHANGED <<mounted, told, content, free, misled>>

Notify(j) ==
  /\ At(j, "notify")
  /\ told' = told + 1
  /\ End(j)
  /\ UNCHANGED <<mounted, available, content, free, misled>>

-----------------------------------------------------------------------------

\* The volume disappears, another takes its place, or it comes back.
Remount ==
  /\ mounted' \in (Volumes \cup {Nothing}) \ {mounted}
  /\ UNCHANGED <<available, told, content, free, misled, job>>

\* The process stops anywhere; the next one calls OpenProvider.
Restart ==
  /\ job' = [j \in Jobs |-> Idle]
  /\ available' \in BOOLEAN
  /\ available' => Genuine
  /\ told' = IF available' THEN 0 ELSE 1
  /\ IF Genuine THEN Touch(Ours) ELSE UNCHANGED content
  /\ UNCHANGED <<mounted, free, misled>>

Job(j) ==
  \/ BeginChange(j) \/ BeginPart(j) \/ BeginChunk(j) \/ BeginProbe(j)
  \/ Ask(j) \/ Load(j) \/ Open(j) \/ Operate(j) \/ CloseProbe(j) \/ CheckAvailable(j)
  \/ OpenPart(j) \/ Write(j) \/ Finish(j) \/ MarkUnavailable(j) \/ Notify(j)

Next == (\E j \in Jobs : Job(j)) \/ Remount \/ Restart

Spec == Init /\ [][Next]_vars

-----------------------------------------------------------------------------
(* Properties *)

TypeOK ==
  /\ mounted \in Volumes \cup {Nothing}
  /\ available \in BOOLEAN /\ misled \in BOOLEAN
  /\ told \in Nat /\ free \in 0 .. Space
  /\ content \in [Volumes -> 0 .. 1]
  /\ job \in [Jobs -> Running \cup {Idle}]

\* The provider is a gate: however probes, operations and their error paths
\* interleave with a volume that goes, comes back or is replaced, the flag
\* falls once and onStateChange is called once, an operation that finds it
\* down changes nothing until the next start, and a volume without the
\* expected marker is never written to (availability.go, storage.go open).
Gate == INSTANCE StorageGate WITH
  up <- available,
  Versions <- 0 .. 1,
  admitted <- {j \in Jobs : job[j].pc \in {"open", "operate", "write"}}
ProviderIsAGate == Gate!Spec

\* The check of free space is advisory and chunk requests pass it together,
\* yet what they may take of the reserve is bounded by the slots: a request
\* that was admitted finds what all the others take missing.
\* Only a path that led elsewhere when statfs was asked voids this.
Overdraft == (Slots - 1) * MaxChunk
ReserveIsKept == [][free' < free => misled \/ free' + Overdraft >= Reserve]_vars
=============================================================================
