# turndb in TLA+

turndb is an embedded, single-writer, content-addressed column store whose published state is one
file. This directory holds TLA+ models of its core, the TLC configurations that check them on small
instances, and TLAPS proofs of what matters most. Paths are relative to the repository's root as it
is seen from here (`src/src/...` is the engine crate, `src/tests/...` its tests).

    tlc -workers 2 -config ContainerCrash.cfg MCContainer     # model-check
    tlapm StoreProofs.tla                                     # prove

## 1. The system

### 1.1 Parts, state and interaction

| Part | Source | State it keeps | Operations |
|---|---|---|---|
| Container | `container.rs` | two superblock slots, a directory of members (extents), a free list, the tail; per handle: staged copies of these, `poisoned`, `publication_acknowledged`, one streamed member | `put_bytes`, `append_stream`, `remove`, `begin_member`/`write_all_at`/`finish_member`, `discard_staged`, `commit`, `acknowledge_current_state`, `punch_free_extents`, `punch_within_member`, open for writing, open for reading |
| Write-ahead log | `store/wal.rs` | the sidecar file; a buffer, `file_len`, `frame_count` | `append`, `append_tomb`, `append_batch`, `sync`, `truncate`, `replay_state`, `open_recovered` |
| Store writer | `store/mod.rs` | manifest, `mem` (staged rows), open parts, `requires_reopen` | `put`, `put_record`, `apply`, `delete`, `sync`, `flush`, `merge_range`, `close`, `open_file`, `erase_ids`, `punch_unreferenced`, `refold`, `backup`, `verify` |
| Parts | `part/*` | immutable columns, the piece dictionary | build, read, merge |
| Fold | `fold/*` | content blocks of one generation, the dedup window, punched ranges, a compression pipeline | `put_hashed`, `lookup`, `read_verified`, `sync`, `punch_blocks` |
| Retention, recovery | `store/mod.rs`, `store/debris.rs`, `store/verify.rs` | the last four manifests as members, debris beside the store, the reclaim anchor | sweep, promote, reclaim, verify |
| Reads | `store/read.rs`, `scan.rs`, `query/*` | none beyond caches | point reads, paged scans, SQL |
| File layer | `vfs.rs`, `sys.rs` | names not yet published (Windows) | positioned writes, barriers, renames, hole punching |
| Node actor | `bindings/node/src/actor.rs` | a bounded queue and a thread that owns the store | submit, reply, close |
| Command line, other bindings, carving | `bin`, `bindings`, `carve.rs` | none | conversions |

The store owns one container (behind a mutex shared with the fold and the parts), one log and the
fold. A mutation folds its pieces, appends one frame (or one batch) to the log, then changes `mem`. A
flush writes the fold's tail, a part and the manifest as members, *flips* one superblock slot (the
single linearization point of every publication), adopts the manifest, clears `mem` and truncates the
log. A merge rewrites a run of parts and flips. Opening selects the newest intact slot, replays the
log over its manifest, and keeps working from there. Readers take no lock: they select a slot and
rely on members never being overwritten, and on freed extents being punched only after a grace window.
They have no such promise for a block that a later manifest declares punched: `punch_unreferenced`
destroys it inside its member (`punch_within_member`) as soon as the declaration is durable.

### 1.2 What is hard

- *Ordering and crashes*: what must be on disk before which other write (members before the slot, the
  container before the log's truncation, the log before the answer), over a device that may lose,
  tear or reorder what was not synchronised.
- *Outcomes that are not known*: a barrier reports failure although the write landed. The container
  reconciles by reading its own file; the store then goes on with a manifest that is selected but not
  durable.
- *Half-done calls*: a member being streamed, a buffer that spilled half a batch, a truncation whose
  barrier failed, staged state to be given back.
- *Readers without locks* against publications, frees and punches.
- *Sequences of legal calls*: crash, reopen, write, crash.

- *Names of files*: a store is replaced, restored or copied while others open it, on file systems that
  promise different things about names.
- *Two ways to the same answer*: lookups against scans, a merge against a rebuild, a directory file
  against the frames it describes, pruning against reading everything.

PROJECT.json lists every such hazard at its line, with the properties that watch it, and says of two
why no property does.

### 1.3 What makes each part correct

- Container: after any power loss the file selects the state the writer works on or, if that was not
  acknowledged, its predecessor, whole; directories never claim a block twice; a usable handle never
  disagrees with what the file selects; a reader within the grace window reads exact bytes, but for
  blocks declared punched since, and no byte goes before its declaration is durable.
- Log: replay gives a prefix of the accepted units, never half a batch, never less than what was
  synchronised, never a refused unit.
- Store: a crash brings back a map the store has been since the last acknowledgement; nothing deleted
  returns; merges are invisible; the store opens again.
- Fold and content: every piece that a visible record, or a frame still to be replayed, names can be
  read back; flush, merge, punch and refold change nothing a caller sees; a completed erasure has erased.
- Opening a fold: exactly the directory that was written, or a refusal; repair loses nothing committed.
- Retention: an undamaged store verifies and every retained revision opens and shows what it showed; a
  promotion heals.
- Names (birth, reclaim, backup, restore): whatever a power loss keeps of them, the next writer finds
  every acknowledged revision in a whole file, and writes alone.
- Reads: all the ways to ask agree, pages add up, pruning hides nothing, a merge equals a rebuild.
- Actor: every call is answered, a refusal means nothing was done, what was promised comes true.

## 2. Modules

| Module | What it is |
|---|---|
| `Publication` | abstract: a current state replaced whole; power loss leaves it or its unacknowledged predecessor's floor |
| `Container` | `container.rs`, one block of the file at a time |
| `ContainerInvariant` | the inductive invariants `IInv` and `FullInv`, as conjuncts, for TLC and the proofs |
| `ContainerProofs` | proofs about the writer and power losses, about readers, and that `Container` implements `Publication` |
| `DurableLog` | abstract: what the store relies on from its log |
| `WalReplay` | replay as a fold over the cells of a file (pure operators) |
| `Wal` | `store/wal.rs`, one frame at a time |
| `DurableMap` | abstract: what the store promises its callers |
| `Records` | rows, the parts and frames that hold them, and what a reader makes of them (pure operators) |
| `RecordsProofs` | lemmas about these: the newest row, laying one map over another, replacing a run of parts |
| `Store` | the writer, over `Publication` and `DurableLog` |
| `StoreInvariant`, `StoreProofs` | its inductive invariant, and the proofs, that it implements `DurableMap` among them |
| `Content` | the writer again, over `Publication`: what its records are made of, with punch and refold |
| `ContentInvariant`, `ContentProofs` | its inductive invariant, and the proofs, that it implements `DurableMap` among them |
| `Erasure`, `ErasureProofs` | `erase_ids` as the sequence of `Content`'s calls that it is, and the proofs |
| `FoldPipe` | `fold/pipe.rs` and the append side of `fold/mod.rs`: the writer, its threads and their two queues |
| `FoldPipeInvariant`, `FoldPipeProofs` | its inductive invariant, and the proofs |
| `FoldOpen` | what `FoldPipe` wrote, opened again: scans, directories, declarations, retained tails |
| `FoldRepair` | the fold in files of its own: crash images, repair, readers, scrub |
| `Retention` | retained manifests, the sweep, verification, promotion, restored backups |
| `Install` | names: birth, open, close, reclaim, restoration, backup, restore, debris, on two platforms |
| `InstallInvariant`, `InstallProofs` | its inductive invariant on POSIX, and the proofs |
| `Part` | the columns of a part, its two builders, and what is read from one (pure operators) |
| `Reads` | reads over parts and a memtable, and the streaming merge (pure operators) |
| `Scan` | paged scans and compaction plans over a store that goes on |
| `Query` | tables of columns for the SQL engine: filters, zones, batches, counters |
| `Actor` | the thread that owns a store for the Node binding, and its queue |
| `ActorInvariant`, `ActorProofs` | its inductive invariant, and the proofs |
| `MC*` | instances for TLC: symmetry sets, ids, records, requests and queries; `MCFold` joins the invariant and the opening of the fold |

`Store` INSTANCEs `Publication` and `DurableLog` and uses their actions as its calls into them;
`Container` is checked to implement the first, `Wal` the second, so what `Store` assumes of its
parts is what those runs show of them. `Store` and `Content` extend `Records`, and both implement
`DurableMap`. `FoldRepair` extends `FoldOpen` extends `FoldPipe`: what is opened is what the pipeline has
really appended. `Query` extends `Scan` extends `Reads` extends `Part` in the same way.

### 2.1 Container

`page` is what processes read, `disk` what the last fsync made durable, `dirty` the blocks written
since. A power loss leaves any dirty block old, new or torn, each block independently. One block holds
a slot, a member's piece or a directory; byte alignment inside a block, encoding and the codec are
abstracted to "reads back as written, or does not". The checksum is modelled by what it detects: a
superblock carries the directory it was computed over (`xsum`), and a directory is read only if it is
that one. `dir`, `free`, `tail`, `sb`, `slot`, `staged`, `open_member`, `poisoned`,
`publication_acknowledged` and `failed_publication_selected` are the fields of `Container`. An extent
that the manifest declares punched is `dead`; `Declare` stages such a declaration (the manifest's own
bytes are a `PutBytes` like any other), and `PunchWithinMember` destroys what the state in force, once
acknowledged, declares, any part of it: a retry, or a call that fails or dies half way, is among the
choices. A state stands for its `Live` extents alone. A commit is
five steps (`CommitDirectory`, `PreFlipBarrier`, `FlipBegins`, `FlipLands`, `FinalBarrier`) so that
readers and crashes fall between them; each may fail and then reconciles (`Reconcile`). A reader opens
in four steps, one per read. `acked` and `declared` are history: the last state whose barrier succeeded,
and what each such state declared punched. `Erased(v)` is what was declared after state `v`, and
`Reads(f, v)` what is left to a reader of `v`: its directory, and every live block not erased since.

### 2.2 Write-ahead log

A file is a sequence of cells, one per frame; a cell may be torn (the first bytes of a frame) or zeros
(a hole). `durable` is the file as of its last fsync, `pending` the writes and truncations issued
since, in order. `CrashImages` keep a prefix of those, the last one cut; `ReorderedImages` keep any of
the writes where no truncation is among them. `buf`, `file_len` and `frame_count` are the fields of
`Wal`. The buffer may spill at any append that finds it nonempty (the threshold is abstracted to a
choice). A failed flush leaves any part of its write behind. `units`, `synced` and `stale` are history.

### 2.3 Store

A part is its newest row per id; a batch is the rows it leaves (applying members in order leaves the
last row per id). `manifest`, `mem`, `requires_reopen` are fields of `Store`; `framed` is "frame_count is
not zero"; `acknowledged` the container's flag. A publication is three steps (`FlushPublishes` or
`MergeRange` up to the slot write, `FinalBarrier`, `FlushTruncates`) so that a crash falls between any
two. Every call into the container or the log may fail, with what it leaves behind: an append that
poisons the handle, a preparation that discards, a publication that was or was not selected, a truncation
done without its barrier or not done, a close that stops half way. `promised` is history: the maps the
store has been since its last acknowledgement (a sync, a flush that returned, a close).

### 2.4 Content and Erasure

A row is the set of pieces it names; a part adds its dictionary (`dict`, pieces to blocks); a frame is
its rows and the pieces whose bytes it carries (`novel`). `blocks`, `sealed`, `forgotten` and `window`
are the fold of the running handle: its blocks, whether the last one still takes pieces, the entries
`punch_blocks` removed from the block directory, and the dedup window. `holes` are the blocks whose
bytes are gone from the file. Where a piece goes when a block is full is a choice (`Appends`). A
publication seals the fold, names its blocks and is adopted as in `Store`; a punch goes on to
`PunchBlocks`, which may stop after any of its blocks. `Opens` is the whole of
`verify_replay_identities`, condition by condition, over the scan of the fold. `View` is what a caller
would read, byte for byte: a record of which one piece cannot be read is `Unreadable`, and `DurableMap`
has no such view. `ContentLiveness` is the report of the same name: blocks nothing reaches, dead pieces
beside live ones, and whether the handle that asks can answer at all. Failures of the log itself and
of its truncation are left to `Store`. A process death may cut the log at any frame behind the
acknowledged ones, which is more than the buffer allows.

`Erasure` adds where the call stands and whom it erases. While it runs, no other call does (it has the
handle); crashes and failures fall between and inside its calls.

### 2.5 FoldPipe, FoldOpen, FoldRepair

`Content` takes the fold as synchronous: a flush seals it and its blocks are there. `FoldPipe` is what
makes that so. `jobs` and `done` are the two bounded queues of `Pool`, `hand` the blocks with a
thread, `outstanding` the pool's count; `next_block`, `open_block`, `inflight`, `active` and `poisoned`
are the fields of `Fold`; `frames` is every frame in the order it was appended, so that its prefix of a
given length is a tail, and `sidecars` what was written to describe each segment. `pc` is where
the one writer stands, `goal` the call it runs for. The bytes of pieces, whether a piece fills its block
and whether a block fits its segment are choices. Any append, and the end of a sync, may fail. Threads
do not panic (`encode` falls back to stored bytes), so the queues never close under the writer.

`FoldOpen` has no state of its own. From `frames` and `sidecars` it derives the files a publication
leaves (`FilesOf`), does to them what a punch or damage does (`Punch`, `Damages`), and opens them as the
code does: `ScanFrame` is the scan with its rule of what may be torn at the very end, `OpenSegment` the
choice between a directory file and a scan, `Install` the collection of entries, `PunchedValid` the
declaration's check. `OpenWriter`, `OpenCurrent` and `OpenRetained` are the three callers.
`FoldRepair` is the fold in plain files: `CutImages` and `HoledImages` are what a crash leaves of the
appends since the last barrier, `OpenCommitted` and `OpenScanned` the two repairs, `UnderRepair` their
interruptions, `OpenRead` and `OpenReadAt` the readers beside them, `ScrubWindow` the windowed scrub.

### 2.6 Retention

`manifest` and `retained` are `MANIFEST` and `MANIFEST.<commit>`, as bytes that may not parse; `parts`,
`fold` and `sidecars` the other members; `opened` and `held` the writer. A publication is one step
(`Publishes`): the new manifest is chained to whatever bytes stood there, copies older than the window
are pruned, and what no kept manifest names is swept. `Flush`, `MergeRange`, `Punch`, `Refold` say what
each publishes. `Verifies`, `ChainVerifies`, `RetainedOpens` are the checks the code makes, condition by
condition; `Promote` is manifest promotion with its refusals; `RestoreBackup` puts a backup in the place
of its store. Damage (`Rots`) hits any manifest, part or block, and may put the bytes of one manifest in the place of
another. A record is told by the publication that wrote it, so a revision that shows a later or an
earlier record is seen.

### 2.7 Install

A file is a revision and whether it is whole. `names` is the directory as processes see it, `disk` the
set of directories a power loss may leave. On POSIX that set grows with every change and shrinks to the
present one at a barrier; on Windows a created name is temporary until its directory is published
(`pending`), a rename without replacement is durable at once, deletions never are, and a replacement of
an open file lags. An operation is its sequence of calls (`Birth`, `Opening`, `Reclaim`, `Candidates`,
`RestoreFromAnchor`, `Installing`, `Backup`, `Closing`), kept in `todo`; each call is an action
(`Calls`), so that two processes interleave at every one and either may be killed at any. `platform` is
chosen at the start. A publication renames without replacing, so it refuses where somebody took the
name meanwhile (`Syncs`). `Debris` and `RefuseCreation` are the two classifications of `debris.rs`. `acked`,
`promised` and `unsettled` are history: what was acknowledged, what of that under durable names, and
whether somebody ended between a change of names and its barrier.

### 2.8 Part, Reads, Scan, Query

A part is a record of its sections. What is stored as a difference is one here (front-coded ids, row
ordinals), so that a decoder that starts in the wrong place gives a wrong answer. `Build` makes every
column from all rows at once, `OpenBuilder`, `PushRow` and `FinishBuilder` one row at a time without
looking back, as the two builders of the code; `Opens` is what a part must satisfy. `Reads` has the
point read, the id list, the id scan, content read by name, and the merge as the walk and two passes it
is. `Scan` adds a store (`Put`, `Delete`, `Flush`, `Compact`, `Reopen`) and a client that asks for pages,
whose limits may change between them, while the store goes on; `PlanCompaction` chooses what a bounded
compaction merges. `Query` is a table of typed columns over the same parts: names, filters in either
order, zones, dictionaries, windows, batches closed by rows or bytes, and the counters. Ids are tuples
of numbers, so one can extend another; floats include NaN and both zeros.

### 2.9 Actor

`state` is the handle's, `queue` the bounded channel, `worker` the thread, `calls` every call and its
answer. A submission looks at the state and sends in two steps; a close changes the state and then waits
for room; the thread may fail or die in a command. Of the store only the writes applied, logged and kept
matter. `Kinds` groups the commands by what they promise; an erasure is a durable write of its tombstones,
since a failure after their sync leaves a log that may be kept whole, as a failed sync does.

## 3. Runs

| Run | Shows | Bounds |
|---|---|---|
| `container_crash` | `FullInv`, power loss, handle against file, refinement of `Publication` | 1 name, 1 content, 3 publications, 2 blocks staged at a time, 2 faults, 6 blocks |
| `container_readers` | exact bytes within grace but for blocks declared since, recent state at open | 1 reader, 3 publications, grace 1, 1 block staged at a time, 1 fault, 7 blocks |
| `wal_crash` | replay after cut and reordered writes, batches whole, acknowledged kept, refinement of `DurableLog` | 4 frames, 2 mutations, batches of 2, 1 fault |
| `store_failures` | `Store` implements `DurableMap`; recovery, log against `mem`, under failures of every call | 1 id, 2 values, 3 publications, 2 units in the log, 1 failure, 2 crashes |
| `content` | nothing needed is freed, punched or forgotten; logs replay; maintenance is invisible and does what its report says | 1 id, records of one and of two pieces, 3 publications, 2 frames (fewer before the third publication), 1 failure, 1 crash |
| `erasure` | longer orders of flush, merge, punch, refold and erasure; a completed erasure has erased, and only that; no crash brings an erased record back | 2 ids that share a piece, 6 publications, 2 frames (none after the third publication), 1 failed acknowledgement, 1 crash |
| `fold_pipe` | no block lost or written twice, tails, no send blocks, every call returns; every state's segments open exactly, and are repaired exactly | 2 threads, 5 blocks, crash images of 4 frames |
| `retention` | undamaged stores verify, retained revisions show what they showed, promotion heals | 2 ids, 3 manifests kept, segments of 2 blocks, 4 publications, 1 damage |
| `install` | acknowledged revisions survive, no name holds half a file, one writer | 2 processes, 1 revision, 3 operations, 2 kills, 2 power losses, both platforms |
| `reads` | reads agree, pruning, merge against rebuild, pages, queries, compaction plans | 3 ids, 5 records or tombstones, 3 writes, 3 parts, 8 requests, 7 queries, 2 budgets, 1 step of the store within a scan |
| `actor` | promises, refusals, every call answered | room for 1 command, 3 calls |
| `store_killed_twice` | section 6 | 1 id, 1 value, 3 publications, 2 units, no failure, 2 crashes |

*Why the bounds are enough.* Two slots alternate, so the third state of a container (birth and two
publications) already overwrites the first; the two faults allow a failed barrier followed by a crash,
or a crash during the recovery of another. The reader run needs the third publication, so that a freed
member leaves a window of one, and so that a declaration follows the member and a punch the declaration
while a reader still holds the state between. `MaxStaged` bounds the blocks written behind the published ones;
two of them are a streamed member or a member and its extension. Replay looks at one frame and a pen of members, so two
units, one of them a batch, meet in every order within four frames. In the store, two publications and
two log units are what a redundant prefix needs, two crashes a second death on the remains of a first;
three parts give a merge at either end of and over the whole list, and two ids in `erasure` tell a row the run holds from one it does not. Two pieces are what a block needs to be
half dead and a refold to split or join; an erasure takes a flush for the record and three publications
of its own. `content` gives its three publications every failure (`MaxWork` keeps publications
and frames together in bounds); `erasure` gives six of them, three of which flush, fewer. Two threads
return blocks out of order; five blocks are one more than the first queue of theirs holds, and as many
segments as rolls can make of them; that a block more never fills the second queue is proved. Four
frames of a crash image are two segments with a cut and a hole in each. A window
of three manifests prunes at the fourth publication, and one damage splits the retained chain into two.
Two processes race for one name; three operations are an open, a reclaim or backup, and the open that
meets what it left; two losses strike the recovery of a first. Three parts under one id scan have a
newer, an older and an unrelated neighbour; restarts of two and batches of two put every boundary of
the code within three rows. With room for one command, three calls fill it and find it full. Nothing in
the code depends on how many names, ids, threads or callers there are.
Deadlock is not checked: an embedded library may simply not be called again, and the bounds stop every
behaviour.

What each property means for the code is beside it in its module. Each has a mutant: a plausible bug in
one definition (a dropped barrier, a replay that keeps the prefix, a merge that drops a tombstone too
early) under which the same run finds it violated. Type invariants are stated where something is proved
from them, inside `IInv`.

## 4. Fairness

All but two modules state safety properties only: a caller is free never to call. `FoldPipe` has threads
of its own. Its `Fairness` is weak, and says what an operating system gives: a call that has begun
runs on as long as it can (`Goes`, one writer, so one condition over its steps), some thread that waits
at a nonempty queue receives (`Receives`), and a block in a thread's hands is sent once there is room
(`Sends(b)`, for each block). Nothing makes the caller call again. `CallsReturn` follows: a put that waits
for room, a sync that waits for outstanding blocks and a drop that joins all end.

`Actor` has a thread and the tasks of the runtime's pool. Its `Fairness` is weak for the thread and, call
by call, for the task that carries the call on; no handle need ever be dropped and no close be called.
`CallsAnswered` follows even where the thread dies: dropping the receiver drops the reply channels of
all that wait. A close that waits for room needs nothing stronger, because once it has changed the
state no other call starts to send.

## 5. Proofs

TLC shows a property on a small instance; the theorems below hold for every value of the constants
their module's assumption admits: every set of names, contents, ids, readers, calls, any number of
failures, crashes and publications, any grace. Each component's argument is one inductive invariant,
which TLC found true on the run's instance first, one lemma per action that the action keeps it, and the
properties as consequences.

| Module | Theorems (what they state) |
|---|---|
| `ContainerProofs` | `Inductive` (`IInv`), `TypeCorrect`, `Durability` (`PowerLossRecovers`), `DirectoriesStayValid` (`DirectoriesAreValid`), `HandleStaysTrue` (`HandleMirrorsSelection`), `FullInductive` (`FullInv`), `ReadersExact` (`ReadersWithinGraceExact`), `ReadersRecent` (`ReadersOpenRecentState`), `Refinement` (`ImplementsPublication`) |
| `StoreProofs` | `StoreInductive` (`StoreInv`), `LogCovers` (`LogCoversMem`), `SyncedOpensFresh` (`SyncedReopensFresh`), `StoreRefinement` (`ImplementsDurableMap`) |
| `ContentProofs` | `ContentInductive` (`ContentInv`), `AuthorityIsReadable` (`AuthorityReadable`), `FreshLogAlwaysReopens` (`FreshLogReopens`), `ContentRefinement` (`ImplementsDurableMap`), `MaintenanceIsInvisible` (`MaintenanceInvisible`) |
| `ErasureProofs` | `ErasureInductive` (`ErasureInv`), `ErasedStayErased` (`TombstonesStand`), `ErasureCompletes` (`CompletedErasureErases`), `ErasureRefinement` (`ImplementsDurableMap`) |
| `FoldPipeProofs` | `Inductive` (`IInv`), `NoSendBlocks` (`SendsNeverBlock`), `BlocksNeverLost` (`EveryBlockOnce`), `TailsCover` (`TailCoversBlocks`) |
| `ActorProofs` | `ActorInductive` (`ActorInv`), `PromisesAreKept` (`PromisesKept`), `RefusalsStand` (`RefusalsAreFinal`) |
| `InstallProofs` | on POSIX: `InstallInvariantHolds` (`InstallInv`), `WritersExclude` (`OneWriter`), `NothingHalfInstalled` (`InstalledWhole`), `AcknowledgedOutlastsPower` (`AcknowledgedSurvives`) |

### 5.1 Container: the writer and power losses

`PowerLossRecovers` is not inductive. What a loss may leave depends on every superblock that is still
in some slot, so `IInv` adds: blocks not dirty are the same in `page` and `disk` (`Clean`); the decodable
superblocks form a chain, one per sequence, each later one no shorter (`Chain`); none is newer than the
one processes select (`PageIsNewest`); a usable handle stands on that one, its staged directory is well
formed and every staged block that is live holds what the directory says, and none lies below the tail but where
the state in force has one (`HandleInv`); the member being streamed
sits beyond the tail (`MemberInv`); and each phase of a commit knows which blocks are dirty
(`PhaseInv`: none when the flip begins, the slot alone while it is written). The argument of every
staging action is the same lemma, `StagedWrite`: writing at or beyond the tail touches no block a slot
names. The argument of the flip is `SlotWrite`: with nothing else dirty, whichever of the old,
new or torn slot survives, one of the two slots selects a whole state. `NextKeeps` has one step per
action of `Next`.

A punch of either kind is `HolesKeep`: what it takes is free, or dead in the state in force
(`OldEnoughIsFree`, `DeclaredIsDead`), so no state that a power loss may select stands for it.

`BoundsAssumption` and `DistinctAssumption` ask only that the bounds are naturals and that the
distinguished values are what they stand for: none of them a superblock, and none but a directory's own
checksum a directory.

### 5.2 Container: readers and the refinement

What a reader may rely on outlives the state it selected, and `IInv` forgets a state once no slot holds
it. `FullInv` adds what two slots still say about it. `SlotsInv`: the two slots hold consecutive
states (`Neighbours`); whatever the newer one freed it put on its free list with the sequence it was
freed at (`FreedAfter`), so that no punch of free extents within the grace touches a block an open reader
still uses; it put no member where the older keeps its directory (`DirectorySpared`), so that no
declaration reaches that; what the acknowledged state declares is in `declared`; and what a state stands for
and nothing later declared punched (`Kept`) is on the disk (`Durable`). `ReadersInv` follows one reader through its four
reads: the slot it read is one the file served no earlier than the open began (`Began`), and as long as
its window lasts the file serves it all that `Reads` promises (`Served`). The lemmas follow
the blocks, not the actions: `ServedStep` covers every write to the file at once, since a write lands in
a slot, at or beyond the tail, or punches: free extents that have waited long enough (`OldEnoughSpares`),
or blocks that the acknowledged state declares, which every older state has lost by then
(`DeclaredSpares`; `PunchStep` joins the two). `ReadersExact` holds for every reader only with that
exception: the code itself says an older read view may lose a block so (`mod.rs:5080-5083`). `container_readers`
has one reader, a grace of one and few faults; the theorem has any number, any grace and any faults.

`Refinement` maps `current` to the state processes select and `floor` to what a power loss could select
instead. A commit is the one step `SlotLands`, at which the disk still selects the predecessor; the barrier
behind it is the acknowledgement; everything else a handle does, staging and failing, is a stutter.

### 5.3 Store

`StoreProofs` never looks inside the container or the log: it uses `Publication` and `DurableLog` by
their actions, and of these `Publication`'s are proved of `Container`. `StoreInv` is the answer to one
question, what a power loss at this moment can leave:

- `FloorInv`: it takes back one publication at most, and if that was a merge nothing anyone can see;
- `ClearedInv`: a log it brings back, after a truncation that no fsync followed, holds units of
  publications it cannot take back, so none of them is replayed a second time;
- `SyncedInv`: no unit is durable before the manifest it follows, so what is synchronised replays;
- `HandleInv` and `LogInv`: whatever happened before, a usable handle stands on the manifest the
  container selects, and its log replayed over that manifest leaves exactly `mem`, at each step of a
  publication;
- `PromisedInv`: what callers see is promised, and so is every map that some loss leaves and the
  open accepts.

`PromisedInv` is the strengthening that makes the refinement an induction: `Crash` and `PowerLoss` of
`Store` draw from what `PromisedInv` speaks of, so they are `Crash` of `DurableMap`. Each lemma about an
action concludes both `StoreInv'` and that the step is one of `DurableMap`'s or stutters (`Answered`).
Merges are invisible by `MergedShows` of `RecordsProofs`: the newest row among parts laid end to end is the
newest among the newest of each piece (`Newest`, `Splice`), and a tombstone may go where nothing older lies under it. What
replay leaves is the row of the last unit that names an id (`LastPlace`), from the well-foundedness of
the naturals. `DurableMap` lets a loss leave a store that refuses to open, which section 6 shows is
needed; `SyncedOpensFresh` says when it cannot happen.

`StoreAssumption` asks that the distinguished values are not values or maps, and that the bounds are
naturals.

### 5.4 Content

That a record shows says nothing of its bytes. They lie in one block, and four owners may lead there: a
part's dictionary, the window, an earlier frame, the fold the handle writes. `ContentInv` says that every
way leads to bytes that are there, and that each operation moves the owners before it moves the bytes.

- `AuthorityInv`: the current manifest and its undurable predecessor are `Sound`. Every dictionary entry
  names a block that has the piece (`Mapped`); what a row that decides needs is in the dictionary of its
  own part and not punched (`Backed`); a block gone from the file is declared by both, or of an older
  generation (`Whole`). An entry no row needs may lead to a punched block, which is why `Backed` speaks of
  rows and `Mapped` of blocks.
- `FoldInv`: the handle's fold goes on from its manifest's blocks (`FoldsOn`), every piece a staged row
  names is known to the window or a part, and with nothing staged the window leads only where some visible
  row leads (`Anchored`). The last is what `mem = NoRows` buys punch and refold: without it a later put
  could be deduplicated against a block that is dead to the parts.
- `LogInv`: for each manifest the log may be replayed over, its frames carry what they name and the
  manifest does not have, once (`Carried`); over the handle's own manifest they leave `mem`, and the
  window knows what they carry (`Covers`).
- `HandleInv` carries through a publication what was published (`Ready`): the outcome of the barrier is
  decided a step later, perhaps by a crash. `FloorInv` and `PromisedInv` are those of `Store`, over
  frames that name pieces.

Each publication has a lemma about its operand: `FlushedIs`, `MergedIs`, `DeclaredIs`, `RefoldedIs` show that
what is published is sound, shows the same, and makes no piece known that was not (`Maintained`), so that no
frame of the log is refused over it. For a merge this needs that the gathered dictionary keeps the newest usable
entry of every piece; for a refold that the parts that remain still tile the sequence numbers, each
keeping the rows that decide (`IntervalsJoin`, `RefoldingIs`), and that the copy has every wanted piece in
one block (`AppendsIs`). A step that shows nothing new is one lemma (`Quiet`), and the refinement is
proved with the invariant, as in `Store`. `AuthorityReadable` and `FreshLogReopens` then follow from the state
alone (`AuthorityReads`, `FreshLogOpens`); `MaintenanceInvisible` adds that a refold leaves no piece that nothing
needs (`Tight`).

`content` explores one id and three publications; the theorems hold for any ids and pieces, any
number of parts and blocks, any failures and crashes, and any orders of maintenance. A power loss
leaves of the log what was acknowledged at least; `PromisedInv` needs that and no more.

### 5.5 Erasure

Every step of an erasure is a step of `Content`, so it keeps `ContentInv` (`CallsKeep`). `ErasingInv` adds
where the store stands between the calls and that callers see no victim (`Gone`); once the sync has
returned, neither does any promised view, since the view at the sync replaced them all. What a
crash may show is promised (`PromisedInv`), which gives `TombstonesStand`. `CompletedErasureErases` is
about the last barrier alone: whatever the refold found, what it publishes has no row that does not
decide and no entry that no row needs (`Cleared`), and no other piece (`Tight`).

### 5.6 FoldPipe

That a send never blocks is a matter of counting: `Loaded` says the pool holds at most `3 * Threads`
blocks except between a submission and the drain behind it, where it may hold one more, and that
`outstanding` is never less than what it holds. The drain that finds the second queue empty leaves
what fits in the first queue and the hands of the threads, which is the `3 * Threads`; the second queue
has room for `4 * Threads`. `Tracked` says that a block on its way is in exactly one place and
readable, so that writing it moves it from `inflight` to the segment once; `Phases` carries what the
drain of a sync established to the moment the tail is taken.

### 5.7 Actor

A promise is about a write that was answered, and the answer is long past when it could be broken.
`ActorInv` ties each answer to where the write is: a call is in one place, once in the queue or with the
thread (`PlacesInv`); what was applied was called for and has been answered by the thread, or is the one
call the thread died in, and whatever was answered as written was applied (`AppliedInv`); what a call
found answered before it began is still so, and is logged if the call promised that, or shown to it if it
was a read (`AnswersInv`). That a refused call left nothing (`RefusalsAreFinal`) is then that no call is
both applied and refused, whoever refused it: the submission, the full queue, the thread on its way
out, or the receiver's drop.

### 5.8 Install

A lock is on a file and an operation finds files by name, so between two calls of one process another
may have put a different file under the name it is about to use. What a process may count on therefore
depends on how far it has come. `Placed` says where it is, as the number of its next call in one of the
programs of `Install` (`OpenAt`, `BirthAt`, `ReclaimAt` and so on), and what it knows there: until the
lock nothing; with the lock that the file is its own (`Locked`); once the name has been asked again under
the lock that the name stands for that file too (`Owned`), until a reclaim puts another file under it,
which it locked before (`Owns`). The rest of the invariant is about names and files:

- `MapsInv`, `ApartInv`, `WholeInv`: on every disk a power loss may leave, each name stands for a file of
  its own, what is still being staged has no other name anywhere, and stores and backups are whole;
- `OrderInv`: no disk has a log without its store, and none has a store while the names have none, so a
  birth or a restore that finds none installs over nothing a loss brings back;
- `RevisionInv`: every disk recovers what is promised, and a store file that was replaced but whose
  replacement may be lost does so without help of the log, since a log is removed only once it is empty;
- `SettledInv`: unless a process ended before its barrier, a store whose names are not yet durable has
  an owner who stands before one, so nobody acknowledges a revision that stays unpromised.

A step is one call of one process. Its own place moves on by one (a lemma for each kind of call: `WritesStaged`
for bytes that go to a staged file, `WritesLog`, `CallAt` and those around them for a program's next call).
The other processes stay where they are for one of two reasons, which `NamesKept` and `StageKept` state and
`StaysPlaced` uses: nobody but the owner of the store changes the names of the store, its log and the
reclaim's staging file, and the numbered staging names of a process are no one else's. `OneOwner` is then all
there is to `OneWriter`: one name, one file, one lock. `install` has two processes, one revision and two kills and
losses; the theorems have any finite set of processes, any revisions and any number of both.

`InstallAssumption` asks that the processes are finitely many (else there need be no fresh file) and
that the distinguished value is no file. The theorems say nothing of Windows. There `OneWriter`,
`InstalledWhole` and `AcknowledgedSurvives` are checked with two processes. The anchor protocol removes its
candidate by name after a check of the anchor that it does not repeat (`mod.rs:2687-2733`), so a process
that comes to it late may remove the candidate of another, and no place of a process says what it
may still count on.

### 5.9 What is only model-checked

- Opening and repairing a fold (`OpensExactly`, `RepairsTail`), scans and queries: what is to be shown is
  what folds over sequences compute.
- Retention (`IntactVerifies`, `RetainedExact`, `PromotionHeals`): its invariant would speak of chains of
  retained manifests of any length, which are again defined by following a sequence.
- The names on Windows, as said above.
- The log and its refinement of `DurableLog`. Without a bound on failures its properties are false: a
  flush that fails part way, followed by a truncation that fails, leaves bytes beyond the append cursor
  (`wal.rs:567`); a theorem would have to exclude by hypothesis what `wal_crash` excludes by allowing one
  failure.
- Liveness (`CallsReturn`, `CallsAnswered`), which is out of the prover's reach, and so is what the folds
  over sequences (`WalReplay`, the scans of `FoldOpen`, the columns of `Part`, the pages of `Scan`)
  compute for every input, which needs induction over data.

## 6. Where the code and its documents part

`src/tests/dst.rs:12-13` states the rule that the run below refutes: "opening NEVER panics, and never
refuses — every reachable crash state is a documented recovery, not an error".

`store_killed_twice` (`SyncedReopens`). A crash between a flush's flip and the truncation leaves
published frames in the log. Open filters them out of replay and leaves them in the file; the next
put appends behind them. If the next flush is also interrupted before truncating, the log holds
frames of two publications ago, and `verify_replay_identities` refuses the store, for ever. Two kills,
no failing call, everything synchronised. `SyncedReopensFresh` is what does hold: a synchronised
store whose log holds frames of the next publication only reopens after any power loss.

*Known limits.* Behaviours the models show or take as they are, each excluded by name from the property
it would touch; no run is made of them.

- The log. Two unsynchronised writes of which a loss keeps the later alone leave a hole that replay takes
  for corruption (`wal.rs:664`); `CrashReplays` asks only that what does open is right. The name of
  the log is made durable when it is created and not again when a later open finds it
  (`wal.rs:385-388`).
- Frames left by a killed flush carry their pieces' bytes. If no part holds such a piece, the next put of
  it carries the bytes again, and a log that carries a piece twice is refused (`mod.rs:1260`). Such a
  frame may also name, without its bytes, a piece only a superseded row names; punch and refold ask for
  an empty `mem`, not for an empty log, drop the piece, and the frame is refused (`mod.rs:1276`, `5121`).
  `FreshLogReopens` is about logs without such frames.
- A merge verifies every dictionary entry's location before it asks whether its block is punched, and a
  handle that has punched a block has dropped it from its directory: every later merge by that handle
  over that entry fails, and an erasure stops after its tombstones are durable (`mod.rs:4332`, `5052`,
  against the comment at `4997-4998`). `CompletedErasureErases` is about erasures that return.
- Promotion does not touch the log: after going back, frames stamped more than one publication ahead make
  every writer open refuse.
- Names on Windows. No call makes a deletion durable; a replacement of an open file may be taken back, and
  what was acknowledged on the replaced file's successor with it; a second reclaim over a first whose
  replacement has not settled can leave neither the store nor its anchor under a name
  (`AcknowledgedSurvives` tells these cases by `promised` and `unsettled`).
- A reader of the fold that has every directory reads no payload at open, so undeclared damage to a
  payload shows at the read of that piece. A plain-file fold that lost whole last frames of a closed
  segment cannot tell without a tail; opened without one it refuses holes that reordered writes leave,
  and its readers take all or nothing. A scrub of the whole active segment reports a frame with an
  overlong header as residue, where windows over the same bytes call it corruption.
- The actor answers "closed" to a command whose thread panics once a close has begun, although the command
  may have been applied; the close itself is answered "exited" (`actor.rs:440-443`).

## 7. Assumptions, what is left out, and the plan

*Assumptions.* A failed fsync leaves its writes pending, and a later successful one makes them durable
(the fault model of `tests/dst.rs`). One writer handle at a time in every module but `Install`, which
shows the lock to give that. Sequence and offset exhaustion, which the code refuses, is not modelled;
nor are members of no bytes, a `MemberWrite` used after its container moved on, or admission limits
other than the log's frame count. With a failed partial flush, a failed truncation after it and a crash,
bytes beyond the append cursor survive; `wal_crash` allows one failing call. `FoldRepair` takes unlinks
to reach the disk in the order they were issued. `Install` restores a backup only where there is no
store, anchor or log; `ensure_destination_available` (`backup.rs:70-77`) asks for the name alone. `Query` orders floats by number, where the engine's total order also tells the
zeros apart above the scan.

*Simplifications* that leave out behaviour of the code, by module:

- `Wal` spills the buffer at most once in a batch, at any of its frames; the code may at several.
- `Content` closes the handle to every call when a publication is refused before it was selected. For a
  punch and a merge (`mod.rs:5174`, `4417`) the code leaves the handle to put and sync, and only the
  container refuses, every later publication among them. A refold that cannot discard what it staged is
  not modelled.
- `Scan` merges without asking whether a piece's block is punched (`mod.rs:4331`); `Content` asks.
- `Retention` puts back only backups that verify, where the code checks and refuses, and damages the
  manifests, parts and fold, not the sidecars.

*External*: the operating system's file and lock calls (`Install`), the disk (`Container`, `Wal`), the
channel and task runtime (`Actor`) are modelled from how the code uses them.

*Not modelled*, and why:

- The section cache: it decides what is decoded again, never an answer. Carving: a pure function over
  bytes. Codec choice and dictionary training: no property depends on which is chosen, as blocks are
  checked to read back.
- Command line, the other bindings, Arrow's formats, the SQL engine, its budget and its streams, health
  reports, space estimates and counters other than those the pages and queries account for: they print
  or convert what the modelled parts answer.
- The life cycle of SQL streams and snapshot handles in the Node binding: slots in a table, each used by
  one caller.
- Encodings (varints, bit packing, JSON, frames): they have no state, and the repository tests them byte
  for byte.
- Memory-mapped and traced I/O, read-only views over a caller's buffer.

*Plan*, in order: for `Retention`, that the sweep keeps what a kept manifest names; for the log,
`CrashReplays` from an invariant over what is pending, with the failed truncation as a named hypothesis; for
`Install`, the anchor protocol under Windows with more than two processes.
