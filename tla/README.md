# Verification of the SwaDrive server

SwaDrive is a personal cloud server written in Go (`src/server`). It keeps its
control state in SQLite on an NVMe disk and the user's bytes below one storage
root on a second disk, and it must keep the two in step while operations race,
transactions and disk calls fail, the second disk disappears and the process
crashes. This directory models that part of the server in TLA+, checks it with
TLC on small instances and proves the parts that do not depend on the size of
the instance with TLAPS.

Paths below are relative to `src/server/internal/` unless they begin with
`src/`.

## 1. The system

| Component | State | Operations | Correct when |
|---|---|---|---|
| file service (`files/service.go`) | none of its own; drives disk, index and trash table under the `MutationCoordinator` | mkdir, move, trash, restore, download, startup reconciliation of trash entries | every difference between disk and index is recorded; no failure loses or overwrites a file |
| metadata index (`files/index_repository.go`, migration 5) | `file_entries` of the active generation, `file_index_state` (healthy, reason) | insert, move subtree, commit trash, finish restore, confirm, mark unhealthy, clear a reason; pages of a folder or a search | a healthy index shows what the disk holds; a walk over its pages misses nothing that stays |
| trash table (`files/sqlite_repository.go`) | trash entries: trashing, trashed, restoring | prepare, commit, abort, begin, finish and roll back a restore | each transitional entry is resolved by what the disk shows |
| offline reindex (`files/reindex.go`) | generations, rows of each, the active one | start, insert batch, activate, collect obsolete rows | looks like one step to readers wherever it stops |
| upload service (`uploads/service.go`, `uploads/sqlite_repository.go`) | uploads and their state, chunk rows, part files | create, put chunk, complete, cancel, expire, startup reconciliation | publication is final; acknowledged bytes are the published bytes |
| upload locks (`uploads/locks.go`, `storage/mutations.go`) | reference-counted lock objects, slots, the coordinator mutex | lock chunk, lock exclusive, acquire, release | exclusion, no leak, no starvation |
| storage manager (`storage/storage.go`) | `files/`, `uploads/`, `trash/` | rename without replacement, mkdir, unlink, free-space check | no rename overwrites; the reserve is kept up to a bound |
| storage provider (`storage/availability.go`) | available or not, the last probe | open and verify, probe, check an error against the volume, mark unavailable | a lost volume stays lost until a restart; only the marked volume is written |
| server process (`src/server/cmd/server/main.go`, `httpapi/router.go`) | down, starting, serving, degraded; the metadata gate | start, reconcile, serve, stop | serves only what agrees with the disk |
| process lock, migrations (`database/process_lock.go`, `database/migrations.go`) | the flock, `schema_migrations` | acquire, validate, migrate, release | one owner, one schema |
| administration commands (`admincli/run.go`) | none | reindex, reconcile parts, account commands | run only while no server does |
| authentication (`auth/service.go`, `auth/sqlite_repository.go`, `auth/password.go`) | the owner's password hash, `sessions` | login, authenticate, revoke, logout, bootstrap, reset | only the current password opens a session; a closed one stays closed |
| login limiter (`auth/limiter.go`) | a bucket per username and peer, one per peer | check, record a failure, clear | guesses are bounded; a block lasts |
| audit log (`audit/`), configuration, health check | audit rows | append, list | not modelled, see section 7 |

How they interact. A request passes the gates of the router (`requireMetadata`,
`requireStorage`) and enters a service. Files and uploads share one
`MutationCoordinator`; whoever has it alternates between SQLite transactions and
renames. Uploads also lock the upload, and chunk requests lock the chunk below
it. A mutation that changes the disk first marks the index, or writes a
transitional row (`trashing`, `restoring`, `finalizing`), then renames, then
commits the index change and clears its mark. Downloads take no lock. At startup
`reconcileAvailableStorage` resolves all transitional rows before the server
listens; when the volume is missing the server starts degraded. Offline commands
take the lock file the server holds.

What is hard here: two durable stores and no common transaction, so every
operation can stop between the two and every compensation can fail as well; a
repair must not clear the mark of another failure; requests hold several locks
and lock objects are created and dropped on demand; a client repeats chunks and
completions whose answers were lost; `fsync` decides what a crash leaves; and
a reindex takes many transactions. A login waits long between the moment it
asks the limiter and the moment it tells the outcome, with a time it read at the
beginning; and the volume behind the storage root can change while several
goroutines, each with handles of its own, find out.

## 2. Modules

```
Namespace            trees of paths, rename, mkdir             storage/storage.go
  FileIndex          rows, hidden rows, health reason          files/index_repository.go
    ContentPlane     disk, volume, process, gate, coordinator  storage/*, httpapi/router.go
      Files          mkdir, move, trash, restore, download     files/service.go
      Uploads        life of uploads                           uploads/service.go
        SwaDrive     Files + Uploads + startup, stop, offline  cmd/server/main.go, admincli
          SwaDriveInvariant   why it is right: its inductive invariants
  Listing            pages of a folder or a search             files/service.go, files/index.go
UploadLifecycle      abstract: what an upload promises
UploadLocks          lock objects, slots, coordinator          uploads/locks.go
ChunkTransfer        the bytes of one upload                   uploads/service.go
ChunkBounds          chunk arithmetic                          uploads/service.go
Ownership            process lock and migrations               database/*.go
  Reindexing         generations of the index                  files/reindex.go
AtomicIndex          abstract: what a reindex promises
LoginLimiter         windows, blocks, eviction                 auth/limiter.go
  Authentication     logins, sessions, password                auth/service.go, auth/sqlite_repository.go
OwnerAccess          abstract: who has access
StorageProvider      flag, probe, volume, free space           storage/availability.go, storage/storage.go
StorageGate          abstract: what the provider promises
```

The `MC*` modules hold the values TLC needs; the `*Proofs` modules hold the
theorems: SwaDriveProofs and SwaDriveIndexProofs about SwaDrive, ScansProofs about
Listing and ChunkBounds, and one for each of the other modules that has some.
SwaDriveInvariant is apart from the proofs so that TLC can check it too.

**SwaDrive** and what it extends. Every SQLite transaction is one step, and
every rename, mkdir or unlink is one step, because a crash or another actor can
come between any two. The operation inside the coordinator is the record `op`
with a program counter; `op = Idle` means the mutex is free. The tree
`files` maps each path to `Absent`, `Dir` or a file version, `trash[t]` is a
stored subtree, `rows` and `hidden[t]` are the index's picture of both, and
`reason` is `file_index_state.unhealthy_reason`. A failing transaction has no
effect (`DbMayFail`), and a failing disk call has none (`DiskMayFail`); each
failure branch goes where the code goes, to an undo rename, to `AbortTrash`, to
the marking of the index, or to the error return. The faults that may strike are
the constant `Faults`, so that a run can say what it assumes. `server` is `down`,
`starting` (reconciling), `serving`, `refused` (startup returned an error) or
`stopping` (the cleanup worker returned an error, which ends `run`). `Start`,
`StartDegraded`, `ReconcileTrash`, `ReconcileUpload` and `FinishStartup` are
`reconcileAvailableStorage`, in its order: trash entries first, then uploads,
then `CheckHealthy`.

Uploads there have no bytes: a file version *is* the upload it came from, and
`chunks[u]` counts the recorded chunks. The bytes are the subject of
**ChunkTransfer**: the part file in the page cache and on the disk, the chunk
rows, the requests between reading the row, streaming, hashing, `fsync` and
recording, with bodies that break off, checksums that do not match, retries,
conflicts and power failures. A cancellation or a cleanup is two steps there as well,
`RemovePart` and `FinishUncompleted`, and need not reach the second: the variable
`entry` says whether the directory still has the part, and between the two a power
failure may bring the part back. An upload whose cancellation stopped there is pending
with its rows and without its part; a repeated chunk that has a row is still answered
as done (`uploads/service.go:248`), any other chunk and a completion fail. The module takes from **UploadLocks** that one request at
a time writes a chunk and that a completion excludes them all. UploadLocks
models the two maps with their reference counts and the `sync.RWMutex` with
writer preference; a lock object is an identity, so that exclusion by two
different objects for one upload would show. **ChunkBounds** has the int64
products of `chunkBounds`, with wrap-around, under the scan of
`verifyAndSyncPart`.

**Ownership** is the lock file and `Migrate` for processes of different
releases; **Reindexing** adds the reindex command with its batches and
generations. In Reindexing a mutation of the server is one step, in SwaDrive a
reindex is one step. That the second is sound is the refinement
`ReindexIsAtomic`.

**Authentication** runs logins and authenticated requests on the goroutines
`Handlers`. A login is `BeginLogin` (it reads the clock, then `Check` under the
limiter's mutex), `FindCredential`, then `Succeed` (`Clear`) and `CreateSession`,
or `FailLogin` (`RecordFailure`), or `AbandonLogin`; every later step uses the time
`now` of the first. The limiter is **LoginLimiter**, whose actions are its critical
sections: cleanup of stale buckets, windows, blocks, and `WithRoomFor`, the arbitrary
victim of a full map. An authenticated request reads its session (`BeginCall`),
judges what it read by the clock of a later moment (`Judge`), perhaps writes
`last_seen_at` with the condition of the SQL statement, and acts; `Revoke` is both
logout and revocation. `BootstrapOwner` and `ResetCredentials` are the two
administration commands and need the process lock, so they run while the server does
not. A hash is the set of the passwords it verifies, `{}` for the dummy hash. In the
refinement of OwnerAccess a handler offers the guess of the login it runs, if that
login names the owner; the abstract session opens only for an offer that is the
password at that moment. The queue of Argon2 (`PasswordManager.deriveKey`) is part of the wait before a
verification, and being refused there is `AbandonLogin`. `Delay` bounds the age of a
running login; it stands for the server's write timeout, the context of the request
and the queue limits, and the module assumes that it is shorter than a session and
that a failure window and `Delay` are shorter than a block, which the constants of
the code (5 and 15 minutes, 30 days) leave ample room for. The wall clock never
runs backwards in the model.

**StorageProvider** has a goroutine per operation in flight and the volume the root
path leads to at the moment, which `Remount` changes at will. `Load` and `Open` are
`storageManager`: the flag, then the verification of the marker; from then on an
operation works through handles of the volume it verified, whatever is mounted.
`Finish` is the check of a failed operation against the volume, `MarkUnavailable` and
`Notify` are the compare-and-swap and the callback. `Ask` is `Available` between its
first look at the flag and the probe, with the answer of the cache: that answer does
not look at the flag again, so a call that waited for a failing probe may still say
yes; the operation behind it is stopped by `Load`. The five seconds of the cache are
left open: each call may be answered by the cache or probe. A chunk request is
`BeginChunk` (it takes a slot), `CheckAvailable`, `OpenPart` and `Write`s, each with a
Manager of its own as in the code. It writes at most the size it asked for: the one
byte more that its LimitReader would pass is stopped by the `MaxBytesReader` of the
handler (`httpapi/upload_handlers.go:110`). Statfs is asked for a *path*
(`storage/storage.go:585`), not for the handle; `misled` records that the path led to
another volume then. Slots and both mutexes have no variables, they are derived from
the goroutines that hold them.

**Listing** is one client that follows `next_cursor` through a folder or a search:
`Ask` (decode the cursor), `CheckHealth`, `FindParent` and `ReadRows` are the statements
of one request, with any transaction of somebody else, a failure or a restart in
between. The server keeps nothing between two pages, so a walk survives restarts and
reindexes. Strings are abstracted to what the queries do with them: a column of a path
is its rank in byte order, and a query is the set of paths it matches. `seen` and
`lasting` are history variables of the walk.

## 3. Runs

| Run | Instance | Shows |
|---|---|---|
| `uploads` | two uploads of the same target below a directory that can be moved; crash, db, disk, and the marking of the index fails too | `OnlyFinishedVisible`, `NothingLost`, `UploadsImplementLifecycle` |
| `composed` | two directories with a file name below each, one trash entry, one upload with two possible targets, one of which the index refuses; crash, db, disk, storage | `ServedIndexIsTrue`, `DivergenceIsRecorded`, `NothingLost`, `GateOpensOnTruth`, and the invariant `IndexIInv` they are proved from |
| `liveness` | one upload, one trash entry, one download; crash, disk, storage; fair | `ServedIndexIsTrue`, `MutationLockReleased`, `StartupDecides`, `ExpiredUploadEnds` |
| `locks` | three goroutines, two uploads, two slots, three admissions; fair | `ChunkExclusion`, `UploadExclusion`, `NoLockLeaks`, `EveryRequestEnds` |
| `transfer` | two requests, two chunk indexes, two contents | `RecordedIsStored`, `PublishedIsAcknowledged`, `OneAnswerPerChunk` |
| `bounds` | 7-bit integers, all sizes, five chunk sizes; beside it pages of one or two rows over a folder with two names that differ in case, and two searches | `ChunksCoverFile`; `WalkIsComplete`, `PagesAreDisjoint` |
| `reindexing` | three releases and one reindex command, three items, batches of two, four generations | `SchemaIsOwn`, `RanInOrder`, `NothingLeftBehind`, `ReindexIsAtomic` |
| `auth` | two handlers, two usernames of one peer, two passwords, limits of two and three failures, maps of one entry, one active session | `FailuresAreBounded`, `BlocksLast`, `AccessIsAtomic`, `LastSeenIsSparse` |
| `provider` | three goroutines, two volumes, two slots, chunks of one or two units, a reserve of five | `ProviderIsAGate`, `ReserveIsKept` |
| `reindex_refused`, `unindexed` | see section 6 | two documented statements the code does not meet |

The properties, in the words of the code:

* `DivergenceIsRecorded`: in every state, mid-operation and crashed states
  included, a healthy index with no transitional row equals the disk. This is
  the reason for marking *before* a mkdir or a move and for the transitional
  rows; it breaks when a repair clears a reason that is not its own.
* `ServedIndexIsTrue`: while the server serves and no mutation runs, an index it
  answers from equals the disk, even while failed requests have left
  transitional rows. Excepted are the files of uploads with a target the index
  cannot hold (run `unindexed`).
* `GateOpensOnTruth`: the step that opens the metadata gate, degraded starts
  included, happens only on an index that equals the disk.
* `IndexIInv`: the invariant behind these and the next, stronger than each: at every
  program counter of an operation, and after a crash or failure at any of them, index
  and disk differ exactly in what the transitional rows, the running operation and the
  health reason say (section 5).
* `NothingLost`: each file version is in exactly one place whatever fails. It is
  checked for file operations with a volume that is lost (`composed`), and for
  uploads with the marking of the index failing as well (`uploads`).
* `OnlyFinishedVisible`, `UploadsImplementLifecycle`: no unfinished upload is
  visible; open, published, closed is all a client can observe, and the last two
  are final. The refinement maps an upload to *published* from the rename on, so
  it says that no cancel, expiry, reset or retry undoes a rename.
* `RecordedIsStored`: as long as an upload has a part, a committed chunk row describes
  bytes that are in it and survive a power failure. Rows without a part exist only
  after a cancellation or a cleanup that stopped between `RemovePart` and its
  transaction, and never for an upload that is about to be published.
* `PublishedIsAcknowledged`, `OneAnswerPerChunk`: the published file is chunk by chunk
  what the rows record, whatever clients were told is stored is what was published, and
  the whole is what the announced checksum says; two successful answers for a chunk are
  for the same bytes.
* `AccessIsAtomic`: the refinement of OwnerAccess. A session opens only for a login
  whose own guess, under the owner's name, is the password at the moment the session is
  created, and below the limit of sessions *active now*, although both are
  checked with what the login knew earlier; a session never comes back after it expired or was
  revoked, and a new password ends all.
* `LastSeenIsSparse`: `last_seen_at` moves forward, by the write interval at least,
  whatever requests race.
* `FailuresAreBounded`: the bucket of a username and peer, and that of a peer, counts
  at most its limit and the other handlers that passed the check together.
* `BlocksLast`: ADR-0003 says each block lasts 15 minutes. The property lists what
  shortens one by more than the age of a running login: a restart, the eviction from a
  full map, a success of the same username and peer, and a failure that was let in
  before the block and arrives after the window of the bucket
  (`auth/limiter.go:134` resets the block with the window). A success does nothing
  for the bucket of the peer.
* `ProviderIsAGate`: the refinement of StorageGate. One fall and one notice in the life
  of a process, nothing changes through an operation that found the gate closed, and no
  volume without the marker is ever written to.
* `ReserveIsKept`: what chunk requests that passed the free-space check together take
  of the reserve is at most a full chunk of every slot but one; the bound is tight, and
  void only if the path led to another volume when statfs was asked. ADR-0004:65-67 calls the check advisory; this is how far.
* `WalkIsComplete`, `PagesAreDisjoint`: a client that reached the last page has been
  shown every path whose row was there all the time, and no path on two pages, whatever
  was created, moved, trashed, restored or reindexed between the pages. They break when
  the cursor leaves out a column of the order, for names that fold to the same one.
* `ReindexIsAtomic`: a reader's view of the index changes only with a server
  mutation or, all at once, to the contents of the volume.

Bounds. The tree has paths of depth one and two, which is what distinguishes
the cases of the code (a parent that vanishes, a subtree that moves, a target
that is taken); deeper paths repeat them. One mutation runs at a time by the
coordinator, so further pending operations add no state. One trash entry can be
created, restored and created again, and competes with a live path. Two uploads
compete for one target; `MaxActive` caps `MaximumActiveUploads`. Downloads are in
`liveness` and `reindex_refused`; `composed` with a download (6.4 million states) holds
as well, but takes five minutes. Three goroutines are the least with which
a lock object can be dropped by one while two others meet; the proofs cover any
number; `Requests` leaves out the cancel of the second upload, which is the first with
the names exchanged. Bounded ids (`MaxGeneration`) stop a fifth reindex generation; an
interrupted build, its successor, and both of their collections fit. In `bounds`
`MaxInt` is 63, and products wrap as in two's complement. In the same run, five paths
suffice: three rows of one folder are more than a page, two of them are equal but for
the case, and a path of another folder is left out. In `auth` two handlers make
every race of two logins or requests; a third only adds to a bound that the proof
has for any number. The limits are small enough for an account to be blocked before the
peer and for the peer to be blocked by both accounts; maps of one entry evict. `MaxTime`
lets a block begin, end and be followed by another window; the constraint `Explored`
leaves out long histories of failures *and* sessions together, which share no state
but the handlers. In `provider` two goroutines may race for the fall while the third
streams, or two stream while the third probes; space is counted in units, and chunks of
one and of two of them differ. The content of a volume has two versions, enough to see a
change.

Deadlock is checked in every run except `bounds`, whose scan ends.

With the fault `mark` the three properties about the index do not hold, and
they are not claimed: when the commit of a published upload fails and the
independent transaction that would mark the index fails too, nothing records the
difference until a startup. From there, trashing the target's directory,
recreating it and moving another file of the same size to the target makes
a retried completion accept that file. `NothingLost` and `OnlyFinishedVisible`
hold even then.

## 4. Fairness

`SwaDrive!Fairness` is weak fairness on the goroutine inside the coordinator,
on a cancel or cleanup between its disk step and its transaction, and on the
startup: SQLite calls have a busy timeout, repairs run in a context of their own
(`runConsistencyRepair`), and nothing else blocks these goroutines. Strong
fairness is assumed of the cleanup worker for each upload, because it queues on
the lock of the upload and Go mutexes hand over to a waiter that has waited for a
millisecond. No client is assumed to act, and no crash to happen or not
to happen. `liveness` runs without `db` faults because one database error in a
cleanup round ends `RunCleanup` and with it the server (`uploads/service.go:605`,
action `CleanupError` of module Uploads). `UploadLocks!FairSpec` has strong
fairness on each goroutine, for the same queueing of mutexes and channels. The other
modules state safety only: a login, a probe, a page or a reindex may stop anywhere.

## 5. Proofs

| Theorem | Statement, for every value of the constants |
|---|---|
| `SwaDriveProofs!TypeCorrect`, `UnfinishedIsInvisible`, `NothingIsLost` | `TypeOK`, `OnlyFinishedVisible`, `NothingLost` of SwaDrive |
| `SwaDriveProofs!UploadsFollowLifecycle` | `UploadsImplementLifecycle`: SwaDrive implements UploadLifecycle, for each upload |
| `SwaDriveIndexProofs!IndexInvariant`, `TheServedIndexIsTrue`, `DivergenceLeavesARecord`, `TheGateOpensOnTruth` | `IndexIInv`, `ServedIndexIsTrue`, `DivergenceIsRecorded`, `GateOpensOnTruth` of SwaDrive, for every set of faults without `mark` |
| `ReindexingProofs!ReindexImplementsAtomic` | `ReindexIsAtomic`: Reindexing implements AtomicIndex |
| `ReindexingProofs!SchemaIsAlwaysOwn`, `MigrationsRunInOrder`, `ReindexCleansUp`, `TypeCorrect` | `SchemaIsOwn`, `RanInOrder`, `NothingLeftBehind`, `TypeOK` of Reindexing |
| `UploadLocksProofs!TypeCorrect`, `ChunksExclude`, `UploadsExclude`, `LocksDoNotLeak` | `TypeOK`, `ChunkExclusion`, `UploadExclusion`, `NoLockLeaks` of UploadLocks |
| `UploadLocksProofs!CountsAreExact` | each reference count of UploadLocks is the number of goroutines that point to the object (`EntryCount`, `ChunkCount`, which belong to the proof) |
| `ChunkTransferProofs!TypeCorrect`, `RowsAreTrue`, `PublicationIsTrue`, `AnswersAgree` | `TypeOK`, `RecordedIsStored`, `PublishedIsAcknowledged`, `OneAnswerPerChunk` of ChunkTransfer |
| `AuthenticationProofs!TypeCorrect`, `AccessImplemented`, `LastSeenSparse`, `FailuresBounded`, `BlocksKept` | `TypeOK`, `AccessIsAtomic`, `LastSeenIsSparse`, `FailuresAreBounded`, `BlocksLast` of Authentication |
| `StorageProviderProofs!TypeCorrect`, `GateImplemented`, `ReserveKept` | `TypeOK`, `ProviderIsAGate`, `ReserveIsKept` of StorageProvider |
| `ScansProofs!ListingTypeCorrect`, `WalksAreComplete`, `NoPathTwice` | `ListingTypeOK`, `WalkIsComplete`, `PagesAreDisjoint` of Listing |
| `ScansProofs!TypeCorrect`, `CoverFile` | `TypeOK`, `ChunksCoverFile` of ChunkBounds |

Each module proves `Init => IInv`, `IInv /\ [Next]_vars => IInv'` (one lemma per
action) and that `IInv` implies the properties.

*SwaDrive*, for every tree of paths, every set of uploads, trash entries and
downloads, and every set of faults, from the assumptions of Namespace (paths are
nonempty sequences, and the prefixes of a path are paths; the kinds of nodes are
distinct) and ContentPlane (a well-formed tree at the start, in which no upload
occurs and every other content exactly once). The invariants are in
SwaDriveInvariant, in three layers.

`IInv` is about uploads. `OnlyFinishedVisible` is not inductive: a completion that
fails makes its upload pending again, and only the knowledge that the part file is
still there tells that nothing has been published. `VisibleInv` says that no upload
has a part file and a visible file at once; `OpInv` says what the operation inside
the coordinator may rely on: its upload is finalizing, nobody cancels or expires it,
and before the rename its part exists. The lemmas `PutShows` to `MovedShows` say that
no operator on trees shows a content that was not there.

`RootInv` is about the storage root, and gives `NothingLost` and the refinement of
UploadLifecycle. A rename moves a whole subtree, so whether it loses a file depends
on the shape of two trees: `files` stays well-formed, and what a trash directory
holds lies below the path of its entry (`TrashInv`). An operation has looked at the
trees before its rename and may undo it later; `MkdirAndMoveInv`, `TrashOpInv` and
`PublishInv` say that what it saw is still so, since everybody else waits for the
coordinator: a move that was done `Fits` back, a directory that was made is still
empty, a trash directory is empty until the rename into it and its path is free after.
`OnePlace` and `Kept` are the
property itself, made inductive by what a `finalizing` row promises of its part file.

`IndexInv` is about the metadata index. An entry or upload is *out* between its
rename and its transaction, also when the process stopped there. `RowsInv` and
`HiddenInv` say, path by path, that rows and disk agree except below what is out,
unless the health reason is one that only a reindex clears (`Hopeless`). What makes
that inductive is the discipline about who may be out: `FileOpInv` (an operation of
the file service begins on a healthy index, when nothing is out), `OneOut` (never two
trash entries), and `OutIsRecorded`, the heart: behind an open gate, whatever is out
belongs to the running operation or is named by the health reason. The steps are of two
kinds, those that leave index and disk alone (`QuietEntry`, `QuietUpload`), for which
one lemma serves, and the renames and commits, of which each has its own. With the
fault `mark` the invariant is false, and section 3 tells how: a completion whose commit
and whose marking both fail leaves its upload out with nothing to say so.
`ServedIndexIsTrue` and `DivergenceIsRecorded` follow from the invariant state by
state; `GateOpensOnTruth` needs of `FinishStartup` that the reconciliation before
it left nothing out.

*Reindexing*, for any processes and releases, any number of items and
generations, and any batch sizes. Two invariants. `SchemaInv` is about the
process lock and migrations: whoever is not idle owns the lock (`OwnInv`), and
`PendingIsLater` derives from the prefix rule of `validateAppliedMigrations` that
what is pending comes after what ran. `IInv` is about generations: because
nobody changes the volume while a command works (`OneBuild`), the rows and the
batch of a build are exactly the items walked so far (`Walked`); nothing else is
under construction (`Constructed`); after the switch nothing is (`Superseded`);
and a generation without a row has no entries (`RowInv`). `StepAtomic` maps every
step to a step of AtomicIndex or a stutter.

*UploadLocks*, for any finite set of goroutines and any sets of uploads, indexes
and addresses. Exclusion is not inductive by itself: it holds because all users
of an upload have the *same* lock object, and that is so because the object's
reference count is the number of goroutines that point to it, so the map drops an
object only when nobody does. `IInv` therefore adds `EntryInv` (who is between
acquire and release points to the entry the map has for its upload),
`EntryCount` (the count is that cardinality), `ReaderInv` and `WriterInv` (the
state of the RWMutex follows the program counters), and `ChunkInv`,
`ChunkCount`, `HolderInv` for the chunk locks. The counting rests on the finite
set theorems, through the lemma `CountMoved`: one assignment to a pointer moves
one goroutine from one set of holders to another.

*ChunkTransfer*, for any number of requests, indexes and contents, from the
assumption that `None` and `Torn` are not contents and `None` is not a file.
`RecordedIsStored` needs to
know what a request between two of its steps has already done: `LockInv` (one
request per index, none beside a completion, and none that writes without a part) and
`StageInv` (from the check of
the checksum on, the page cache holds the announced bytes, and after the `fsync`
the disk does). `FinalInv` and `AckInv` connect rows, the published file and
answers.

*ChunkBounds*, for every integer width and every chunk size, from the bounds
`Create` checks. The invariant is that the scan stands at
`index * chunkSize`, or at the end of the file after the last chunk. The lemmas
`CountBounds`, `NoWrap` and `OffsetFits` do the arithmetic: the product never
wraps, and the overflow check of `chunkBounds` never refuses a chunk of an upload.

*Authentication*, for any number of handlers, usernames, peers and passwords, any
limits and any constants of time that meet the two assumptions of section 2. The
difficulty is that a login acts on old knowledge. `HandlerInv` bounds the age of what a
handler knows by `Delay` and says that the hash it verifies against is the current one
and was read for the owner's name, because a password changes only while no server and
so no handler runs; `RowInv` says that there is no session before there is a password;
with these two every step maps to a step of OwnerAccess or a stutter: a login offers its
guess when it begins and takes the offer back when it ends, whatever its outcome.
`LimiterInv` and `BlockInv` relate the times in the buckets to
the clock, and say, for the buckets of both maps, that the failures of a bucket and the
logins that are still to report one stay within the limit plus the handlers that passed
the check together.

*StorageProvider*, for any number of goroutines, volumes, slots and sizes. `GateInv`
follows the one goroutine whose compare-and-swap took the flag down: until it has called
`onStateChange` nobody has, and the flag is down while it is on its way. Its last part
says that whatever a goroutine holds open belongs to the volume with the marker, which is
why nothing is written to another one. `ReserveIsKept` is about a sum over
goroutines, for which the prover has no induction; `Owed` counts it as a set of pairs
of a request and a unit that it may still write. A check that passes adds the pairs
of its request, at most `(Slots - 1) * MaxChunk` being there already because the
others hold a slot each (`SlotInv`, `OthersOwe`); a write takes as many pairs away as it
takes space; nothing else takes space. So `free + Overdraft >= Reserve + Cardinality(Owed)`
is kept from the first check to the last write (`ReserveInv`).

*Listing*, for every finite tree, byte order, folding of names, set of queries and
limit. `CursorInv` says what a cursor is worth: nothing shown so far is beyond it, and
whatever lasts and was not shown is. `RemainingIsNew` and `ShownKeeps` are the heart: the
row fetched beyond the limit is not part of the page, so it has to be beyond the new
cursor, which is where the order and the condition of the query must agree.

Only model-checked: the liveness properties `MutationLockReleased`, `StartupDecides`,
`ExpiredUploadEnds` and `EveryRequestEnds`, because the prover has no rule for fairness
and ENABLED, and the two statements that section 6 refutes. Every other property of
the runs that pass is a theorem.

## 6. Where code and documentation differ

* `reindex_refused`. `docs/architecture.md:172-173` says that a crash in the
  middle of an operation makes startup fail closed until an explicit reindex.
  A download that races with a trash finds the file gone, and marks a healthy
  index `download-open`; the commit of the trash is then refused, because the
  index is unhealthy for a reason that is not its own. The entry stays
  `trashing`; the next startup refuses for the same reason; and `Rebuild`
  (`files/reindex.go:132`) refuses while an entry is transitional.
* `unindexed`. `docs/architecture.md:169-170` says that a failed repair after a
  side effect marks the index unhealthy. `completePublished` returns before the
  marker when `NewEntry` refuses the path (`uploads/service.go:474`), after the
  rename: the file is on disk, the index is healthy and does not have it.

Without a run of its own: `docs/adr/ADR-0003-application-authentication-and-sessions.md:66-67` says that every
block lasts 15 minutes. `BlocksLast` holds because it names what ends one sooner, the
eviction from a full map and a late failure among them.

Documented, and so no difference: a startup stops when an upload is `finalizing`, its
part is there and its target is taken (`docs/adr/ADR-0004-persistent-fixed-chunk-resumable-uploads.md:56-57`).

## 7. What is not modelled

* Formatting and parsing of paths, requests and responses, and the HTTP layer apart
  from the gates and the login and session handlers. The encoding of a cursor is left
  out too: a cursor that is longer than `MaximumCursorBytes` is listed as a hazard only.
* The audit log: an event is written in the transaction of what it records and read by
  a single query. Configuration and the health check are read once and change nothing.
* Single reads: the metadata of one path, the list of the trash, the list of sessions.
* The Argon2 queue has no counter (its effect, waiting or being refused, is part of a
  login), and no user is disabled, which no code does.
* A wall clock that runs backwards.
* The durability of directory entries: a rename is taken as durable when it
  returns, and so is the removal of a part in SwaDrive; only ChunkTransfer lets a power
  failure undo that removal. The page cache is modelled for the part file only.
* Edits of the storage root by anyone but the server.
* A failing disk call that takes effect nevertheless. Provider operations check
  the volume identity after a failure; the models let them fail before.
* SQLite: a transaction is atomic, durable and serializable
  (`_txlock=immediate`, `synchronous=full`).
* The moment between the release of the process lock and the end of a process
  whose shutdown timed out with handlers still running: one step in Ownership.
* Path resolution of the lock file, and several databases for one storage root,
  which `process_lock.go` declares unsupported.

## 8. Plan

Done, in this order: the content plane with files, uploads and startup and the abstract
upload life cycle; locks, chunk transfer and chunk arithmetic; ownership and the
reindex with its abstract form; authentication with the limiter; the storage provider
with the free-space check; the pages of the index; the proofs of the storage root, the
life cycle, the index and the reserve.

What is left:

1. The admissions of the Argon2 gate and of downloads as bounded counters, in the
   manner of `UploadLocks`.
2. What still holds of the index with the fault `mark`: which paths may differ, and
   from which failure until which startup.
