# A TLA+ model of zfs-dedup

zfs-dedup finds blocks with identical content in the files of ZFS datasets and
makes the files share them.  It runs on live systems: files change, shrink, move
and vanish while it works, it is killed half-way and started again, and it must
neither lose a byte of anyone's data nor trust a stale hash.  This directory
states what that means, models the parts of the program that it depends on,
model-checks them with TLC and proves the central facts with TLAPS.

Paths below are relative to the repository's root; code lines are at the commit
beside which this directory is kept.

## 1. Inventory

One run of the program (`src/main.rs`, `run`) is a pipeline:

    roots, mounts -> [per dataset: walk -> hash (cache) -> prune -> index -> plan -> clone] -> compact, report

| Component | State it keeps | Operations | What makes it correct |
|---|---|---|---|
| command line, mode (`main.rs`) | `Opts {dry_run, fideduperange}`, totals | `run`: resolve roots, probe, guard, loop over `by_fsid`, exit status | never the racy fallback without `--force`; each dataset alone; failure iff something failed |
| mounts (`remount.rs`, `walk.rs`, `clone.rs`) | mount table of a private namespace | `enter_private_mount_ns`, `remount_rw_binds`, `is_ro`, `zfs_mounts`, `probe_dedupe` | the host's mounts stay as they are; truly read-only datasets are left alone |
| walk (`walk.rs`) | `seen`, bounded channel | `files`, `walk_root`, `walk_dir` | every regular file of the roots once, one path per inode, only of the roots' dataset; producers and consumer do not block each other for ever |
| path arena (`walk.rs`) | `arena`, `dirs`, `ids` | `push`, `intern`, `seal`, `map_batched`, `filter_map`, `to_path` | a path comes back as it was pushed |
| hasher (`hasher.rs`) | the batch of tasks | `hash_files`, `hash_one`, `hash_fd` | an entry is stored under the inode that was read, with a stamp not newer than what was read |
| cache (`cache.rs`) | redb table (fsid, ino) -> entry | `get`, `put_many`, `prune`, `compact_if_bloated` | a matching entry is right; nothing alive or just hashed is lost; a warm run reads nothing |
| Bloom filter (`bloom.rs`) | bits | `new`, `insert`, `contains`, `check_insert` | no false negative; does not saturate |
| index (`dedup.rs`) | `dup`, `idx` | `each_chunk`, `build_index` | exactly the repeated hashes, first location first |
| planner (`dedup.rs`) | `pairs`, runs | `build_runs`, `coalesce` | exact cover, disjoint destinations, valid and maximal requests |
| workers (`dedup.rs`, `clone.rs`) | per task: pair, run, buffers, `Stats`; two descriptors | `pair`, `verify_and_clone`, `dedupe_range`, `clone_range` | no reader sees a change; the report is the storage given back; a run that fails costs no other |

How they interact: the phases of one dataset follow each other; inside a phase
rayon tasks run in parallel.  The hash tasks share the cache (read transactions
while hashing, one write transaction per batch), the dedup tasks share nothing
but the file system.  The index re-reads from the cache what hashing has just
committed.  Everything else (other processes, the kernel's clone and dedupe
calls) is reached through system calls on paths and descriptors.

What is hard: parallel tasks without locks; hashes and sizes that are stale when
they are used; paths that name another inode by then; the window between
comparing and cloning; a kernel that does less than asked; crashes between
batches; and errors that must or must not fail a run.  `PROJECT.json` lists
these hazards line by line with the properties that cover them.

## 2. Modules

| Module | Models | EXTENDS / INSTANCE |
|---|---|---|
| `Chunks` | lengths, chunk stream, definition of the index, chunk pairs: the pure vocabulary of `dedup.rs` | |
| `RunPlanner` | `build_runs`, `coalesce`, one loop iteration per step | `Chunks` |
| `Bloom` | the arithmetic of `bloom.rs` | |
| `ChunkIndex` | `build_index`, `each_chunk` and the filter's operations, one chunk per step | `Chunks`, `Bloom` |
| `OfflineDedup` | the abstract promise to the users of the files | |
| `DedupWorkers` | planner, tasks, ioctls and other processes together | `RunPlanner`, `OfflineDedup` |
| `HashCache` | `hasher.rs` over `cache.rs` in the dataset loop of `main.rs` | |
| `Walk` | `files`, `walk_root`, `walk_dir` among users and mounts | |
| `PathTable` | `PathTable` and `Paths` | |
| `Pipeline` | `main.rs` over `remount.rs`, the discovery of mounts and the probe | |
| `MC*` | inputs and bounds for TLC | the module after `MC` |
| `ChunksProofs`, `RunPlannerProofs`, `ChunkIndexProofs`, `DedupWorkersProofs`, `HashCacheProofs`, `WalkProofs`, `PipelineProofs`, `PathTableProofs` | lemmas and theorems | the module before `Proofs` |

### RunPlanner and Chunks

`files` and `cache` are the snapshot that hashing left behind: per file number an
inode, the size stat saw and the block size, per inode a list of hashes.  A
location is `[file, chunk]`.  `build_index` in `Chunks` is the definition of the
index; that the two streaming passes compute it is shown by `ChunkIndex`.  A group
is a set, because the code uses only which location is first.  `GroupPairs` is
the loop over the index, `Coalesce` one iteration of the loop in `coalesce`
(including the sort, as the guard `NextOfItsKey`), `PlanReady` the `collect`.
The pair keys come out of a HashMap, so iterations of different keys interleave
freely.

### ChunkIndex and Bloom

`Visit` is one chunk of one pass, `NextFile` and `EndOfPass` move the cursor,
`BadEntry` is a failing `cache.get`, `Retain` the trailing `retain`.  `dup_key` is a
constant operator of which nothing is assumed.  The filter is made for `n_chunks`
keys, as `build_index` estimates them from the sizes; `Bloom` has its arithmetic
with scaled widths (`Half` for 2^32, `Word` for 64, `PerKey` for 10, `K` for 7): the size
rounded up to a power of two, the odd step, both sums wrapped at the width of a
key and masked.  What a power of two is, is a constant (`Powers`, a set closed under
halving and doubling below the width of a key), so that nothing in the module is
recursive and it can be proved about.  The instance checked has truncated keys that collide, a false
positive, and keys whose upper half is even.

### DedupWorkers

`disk[f]` is the list of blocks of inode `f`.  Blocks are copy-on-write: a block
is `[val, len, id]`, two files share storage where they list the same block, a
user's write lists a new one.  Only the last block of a file may be short.
`path[i]` is what opening file `i` of the plan meets by now: an inode, and whether
something is in the way: gone, leased, executing or immutable (only writers are
refused), permission denied, a symlink (O_NOFOLLOW), or a directory or fifo
("special") in its place.

A task is a record with the position in `pair`: `TakePair` (both opens and the
three error classes), `TakeSpecial` (the whole pair, where a directory or a fifo
could be opened and each run fails on its own, or a directory could not be opened
for writing), `StartRun` (the length check, then the first read or
FIDEDUPERANGE), `ReadDst` (second read and memcmp), `CloneRange` (FICLONERANGE),
`IoFault` (any other failure of a read or ioctl).  Each ends with `NextRun`, the
`continue` of the loop.  `Finish` is the reduction of the tasks' `Stats`, which the
model keeps as one sum.  `since` is a history variable: the user clock when the
source was read.

The kernel is external and modelled from what `clone.rs` says and handles: one
record size, range inside the source, whole records except at the end of both
files, no overlap within a file; FIDEDUPERANGE compares and clones atomically
and may stop short; FICLONERANGE does not look at the data and may extend the
destination.  Users overwrite a chunk, append or cut a byte, move and link paths,
and make paths unusable, at any time, from before the first open.

### HashCache

`fs` holds contents, mtime and ctime, `names` what paths name, `db` the redb
table.  A hash is modelled by the value it is the hash of.  `Start` .. `NextGroup`
is the loop over `by_fsid`; a path of the batch (`slot`) goes through `Lookup`
(lstat and cache), `OpenAndStat`, `ReadChunk` (one chunk at a time, so that writes
fall between chunks) or `HashError`; `PutBatch` is one transaction.  `Crash` is
possible at every point and leaves what was committed.  `Prune` keeps an
arbitrary extra set: the false positives of its Bloom filter.  Runs scan
everything or part of a dataset.  After the index has been read, a forced run may
`Clone` into any scanned file, which gives it new stamps and leaves its content:
stamps of clones and of users come from one clock (`Now`).  `touched` is a history
variable, the files cloned into since a batch with them was last committed.  That
dedup opens the files of a pair again is `DedupWorkers`'.

Block size is not a part of the stamp in this module: it changes only together
with the size.

### Walk

`ents` is a directory tree per device, `mounts` what covers which inode; both are
external, and `UserStep` changes them while the walk runs: unlink, rename, link,
mount, umount.  A path is looked up again by every call that is given the path (`ReadDir`, the
two lookups of a root) and not by calls on an open directory (`Examine`, that is
`entry.metadata`), as in the code.

`StatRoot` is `metadata` of a root, which gives `dev`, and `StatvfsRoot` the second
lookup of its path, which gives `fsid`, and the start of `walk_root`; `queue` are the
directories that `sc.spawn` has handed to rayon, taken in any order; a worker
takes one (`ReadDir`), stats its entries one at a time (`Examine`), and sends its
batch, or blocks (`Send`).  `ScopeEnds` is the return of `rayon::scope` and
`drop(tx)`, `Receive` one batch of the rx loop with its three conditions, `RootDone`
the end of that loop.  `SkipRoot`, `ReadDirFails` and `ExamineFails` are the error
arms; `disturbed` is a history variable of what they, or users, have hit, so that
`NothingMissed` can say what a walk over a live tree still owes.

### PathTable

A path is a sequence of components, a component a sequence of bytes.  `Push` to
`AddFile` is one `push`: one step per entry that `intern` adds, the shortest
missing prefix first, which is the order that its recursion leaves behind.
`Overflow` are the `expect`s and the `assert`.  `Width` is 2^32; the sum of offset and
length wraps at it, as it does in a release build.  `to_path` is a relation
between an entry and a path (there are numbers of directories, one per
component, that `dir_path` visits) instead of a recursive function, so that it can
be proved about.  `filter_map` drops any entries; `map_batched` changes payloads
only, which the model uses as keys.

### Pipeline

`host` and `mine` are mount tables: what the host sees, and what the main thread
sees.  The phases are named after what they run, and `Order` is their order:
`enter_private_mount_ns` (either call may fail: `ns` is then the host's, or a new
one that still shares mounts), `build_global` (with `--jobs`; otherwise the pool is
built with the first dataset and inherits the namespace of that time),
`zfs_mounts`, `SelectRoots`, `RetainZfs`, `remount_rw_binds`, `RetainWritable`, the probe
one directory at a time (`ProbeNext`, `ProbeDone`), `Guard` (the refusal without
`--force`, then `by_fsid`), `Dataset` per dataset, `Finish`.  `Bail` is every `?`.  In
between a root may vanish.  A remount changes what the mount's path shows, in
the table of the namespace, and in the host's unless the namespace is a slave of
it: that is what the comment in `enter_private_mount_ns` guards against.

One `Dataset` step stands for what `Walk`, `HashCache` and `DedupWorkers` do to one
dataset: what it says of them is that files may fail to be hashed (`hash_errors`)
and pairs to be deduped (`stats.errors`); busy and vanished files, and what the walk
skips, count for neither, as in the code.  `scanned` records per dataset whether a
task failed.  Whether the dataset is pruned is decided in `HashCache` (`Prunable`).
`written` is about the scanned directories: the tool's own cache file is filled and
pruned by dry runs too.

## 3. Runs

| Run | Configuration | States | What it shows |
|---|---|---|---|
| `quiet` | `MCQuiet.cfg` | 441 080 | the plan is right for all small files (`PlanIsExact`, `DestinationsDisjoint`, `SourcesNeverWritten`, `RunsAreIoctlReady`, `RunsAreMaximal`), duplicates end up shared (`DuplicatesCollapsed`), a dry run foretells it (`DryRunForetells`), contents stay in all modes (`RefinesOfflineDedup`) |
| `live` | `MCLive.cfg` | 2 195 229 | FIDEDUPERANGE and dry runs among writers, with faults and partial results: contents stay (`RefinesOfflineDedup`), the report is right (`ReclaimedAsReported`), every run is counted once (`EveryRunAccounted`) |
| `forced` | `MCForced.cfg` | 1 160 782 | the fallback among writers, also with two tasks that clone into one file: only the accepted race loses data (`LostWritesAreRaces`) |
| `shrunk` | `MCShrunk.cfg` | violation | see finding 1 |
| `index` | `MCChunkIndex.cfg` | 70 288 | `NoFalseNegative`, `ProbesDistinct`, `IndexExact`, `GroupsInOrder` |
| `hash_cache` | `MCHashCache.cfg` | 9 961 134 | `CacheHonest`, `HashedIsCached`, `WarmRunReadsNothing`, `NeverEvictsUnvisited` |
| `walk_errors` | `MCWalkErrors.cfg` | violation | see finding 2 |
| `walk` | `MCWalk.cfg` | 313 051 | `OnlyThisDataset`, `HardlinksCollapse`, `NothingMissed` and `WalkReturns` among users, mounts and failing calls |
| `aliases` | `MCAliases.cfg` | violation | see finding 3 |
| `pipeline` | `MCPipeline.cfg` | 1 117 622 | `HostUntouched`, `WritesAsAsked`, `RootsWritable`, `EveryDatasetScanned` |
| `pools` | `MCPools.cfg` | violation | see finding 4 |
| `paths` | `MCPathTable.cfg` | 178 934 | `FilesResolve`, `StoredOnce` |

Where a module has a type invariant (`TypeOK`), one run checks it too.
`RunsAreIoctlReady` also shows that the skip at `src/src/dedup.rs:332` ("file
shrank since it was hashed") cannot be taken: both lengths come from the same
snapshot that `build_runs` has already compared.  `RequestsAreValid` proves it for
every plan.

### Bounds, and why they are enough

- `quiet`, the plan: every pair of files of up to three chunks over two hashes and holes, two
  block sizes, with exact, short and outdated sizes, and triples over three
  hashes.  Merging looks at two adjacent pairs and at the cap; three chunks and a
  cap of two per run make every case of it happen, including a cap reached with
  one chunk left.  Each of these plans is carried out by two tasks in all three
  modes; larger files, collisions and outdated sizes are inputs of their own.
- `index`: two files of up to three and two chunks, or three short ones; a hash
  needs three occurrences to tell first, second and later.
- `index` also: filters of 8 to 32 bits with three probes, keys of six bits.
- `DedupWorkers`: two tasks, up to four files of up to four chunks, records of two
  (or three) bytes so that tails exist, two user operations.  A race needs one
  operation between two steps of a task; the second allows a write on each side
  or a rename and a write.  One call fails: `EveryRunAccounted` needs one failure in
  one of several runs of a pair.  A path that has become a symlink is refused as one
  without permissions is, and stands for it in `live`.
- `HashCache`: three runs (one to fill the cache, one to be disturbed or killed,
  one to profit), two datasets, one of three files and one of one.  A batch has two
  files, so that the larger dataset is hashed in a full batch and a second one that
  is not full, with commits and crashes between them.  Users and clones have two
  stamps between them (`MaxStamps`): a write or a clone on either side of a read, or
  one of each.
- `walk`: two roots, nested directories, three links of one file in different
  directories, an excluded file, a file covered by a bind mount and a directory
  that gets covered during the walk; two workers behind a channel of one batch,
  so that both block on it; one operation of a user and one failing call at any
  moment.  A mount over a directory or over a root may come and go: undoing a mount
  is not counted, so that a root can be mounted over, looked up, and be free again.  A link that is made, moved or removed between two stats needs one
  operation.
- `pipeline`: a dataset with a child dataset, a read-only bind mount, a dataset
  that is read-only on disk, one that is mounted read-only, one on a pool without
  the feature, and a part of a dataset mounted over another's mount point; every
  combination of options with eight lists of directories, two of them with the old
  pool; one vanishing root, and failing tasks of both kinds in any dataset.  Each
  phase handles directories one by one and in isolation, so two of a kind suffice.
  `pools` has the same inputs.
- `paths`: repeated components, one component a prefix of another, five
  directories in any order; a width that the arena reaches with the third or
  fourth push.
- `live` and `quiet` use symmetry, of their two tasks, which differ in their name only
  and are chosen by no `CHOOSE`; all of their properties are safety properties.
- The runs of `Walk`, `Pipeline` and `PathTable` say
  `CHECK_DEADLOCK FALSE` because a walk and a run of the program really end, and a
  panic ends the path table.

### Fairness

Only the walk has threads that wait for each other.  `walk` (`FairSpec` of `Walk`):
weak fairness of every worker, of the two lookups of a root, of the return of the scope, of
the receiver and of its end, which run on threads that the operating system
schedules.  A worker in front of a full channel is not enabled, so that its
progress rests on the receiver's: `WalkReturns` is lost if the receiver waits for
the scope, which is why the scope has a thread of its own.  Users and failing
calls owe nothing and are not fair.

## 4. Findings

1. `shrunk` (`src/src/dedup.rs:348`): "File vanished or shrank since we hashed it" is
   meant to be silent.  A short read is; but with FIDEDUPERANGE, the mode for live
   systems, a truncated file makes the kernel refuse the range, which is counted
   under `errors` and fails the run.
2. `walk_errors` (`src/src/main.rs:275`): prune is guarded by "scanned in full", decided
   from the names of the roots alone.  The walk reports and skips what it cannot
   read; and where a part of a dataset is mounted over the dataset's own mount
   point, the path is in `mount_set` and shows only that part.  Either way a "full"
   scan may have missed files, whose entries prune then evicts.  The cost is
   rehashing.
3. `aliases` (`src/src/walk.rs:364`): "Files with nlink == 1 have no aliases" is not true
   of overlapping roots such as `zfs-dedup /a /a/b`.  The walk of `/a` descends into
   `/a/b`, which is a directory of the same dataset and a root of its own, and
   every file there is listed twice and paired with itself.
4. `pools` (`src/src/main.rs:126`): "The answer is per-kernel, not per-dataset, so the
   first definitive result wins."  But a directory named on the command line is
   taken whatever pool it is on (`src/src/main.rs:162`; README.md:90 says that pools
   without the feature are skipped), and if it sorts first, its answer is no for
   datasets that could be deduped: the run is refused.

Three more places where code and comments part, or a promise has a gap, were met
while modelling; the properties exempt them by name:

- `src/src/walk.rs:257`: the device and the fsid of a root are taken by two lookups
  of its path.  If something is mounted over the root before the first or between
  them and is gone by the time the directories are read, files are listed under an
  fsid that is not their dataset's.  `OnlyThisDataset` exempts a root whose own path
  was disturbed (`RootSteady`); without that premise TLC finds the case at once.
- `src/src/main.rs:229` and `src/src/walk.rs:285-323`: roots that vanish and files that the
  walk cannot read are not counted, so that a run that "couldn't process" them
  (`src/src/main.rs:103`) succeeds.
- `src/src/walk.rs:41`: only the start of a name is checked against u32.  A name that
  ends at or beyond 2^32 is stored and fails when it is read (`src/src/walk.rs:47`);
  hence the premise of `FilesResolve`.

## 5. Proofs

All theorems hold for every value of the constants, that is for any number of
files, tasks, chunks, user operations and runs.  Where a theorem has a hypothesis
on the constants, the run that checks its property satisfies it.

| Theorem | Statement | Argument |
|---|---|---|
| `RunPlannerProofs!PlanTyped` | `PlanSpec => []PlanTypeOK` | inductive as it stands |
| `PlanExact` | `PlanSpec => []PlanIsExact` | `Accounted`: each pair is waiting or in exactly one run |
| `NoChunkWrittenTwice` | `PlanSpec => []DestinationsDisjoint` | `Accounted` and `RolesOfAChunk` |
| `NoSourceWritten` | `PlanSpec => []SourcesNeverWritten` | the same |
| `RequestsAreValid` | `PlanSpec => []RunsAreIoctlReady` | `Capped` and `RunLength`: only the last chunk of a run may be short |
| `RunsAreLongest` | `PlanSpec => []RunsAreMaximal` | `Ordered`: the runs of a key end before the next one starts, and before what is still to be merged |
| `ChunkIndexProofs!IndexTyped` | `Spec => []TypeOK` | `IInv`, as for the next three |
| `FilterLosesNothing` | `Spec => []NoFalseNegative` | `FilterOK`: the probes of what was visited are set |
| `IndexIsExact` | `Spec => []IndexExact` | `GroupsOK`: the groups hold what was visited and let through |
| `IndexIsOrdered` | `Spec => []GroupsInOrder` | `GroupsOK`: what is pushed lies behind what was visited |
| `ProbesAreDistinct` | `Spec => []ProbesDistinct` | arithmetic: an odd step has no common factor with a power of two (`OddFactors`, `ProbesDiffer`) |
| `DedupWorkersProofs!Typed` | `Spec => []TypeOK` | `Inv`: with `Accounted` and `PlanComplete` |
| `PlanStaysExact` | `Spec => [](PlanIsExact /\ DestinationsDisjoint /\ SourcesNeverWritten)` | `Inv` |
| `DuplicatesCollapse` | `OneRecordSize` of all inputs `=> (Spec => []DuplicatesCollapsed)` | `Calm`, `NoneForgotten`: each run is waiting, ahead of a task, or linked |
| `DryRunsForetell` | `Spec => []DryRunForetells` | `Foretold`: what is counted and what the open runs are about to count are together the bytes of all pairs |
| `ReportsWhatItReclaims` | `(\A i \in Inputs : NoAliases(i.files) /\ Unshared(i.disk)) => (Spec => []ReclaimedAsReported)` | `Reclaiming`: what is yet to be replaced is listed at one place only, and the bytes reported and those in use are together the bytes listed |
| `EveryRunIsAccounted` | `Spec => []EveryRunAccounted` | `Counting`: the runs that are open and the runs that have been counted are together those of the plan |
| `LostWritesAreRaced` | no renames and `OneStat` of all inputs `=> (Spec => LostWritesAreRaces)` | `AtHome`, `Known`: what a task has read is still there, or was written since |
| `ImplementsOfflineDedup` | `(\A m \in Modes : m.dry_run \/ m.fideduperange) => (Spec => RefinesOfflineDedup)` | `NoFallback`, `SharedIsTransparent` |
| `HashCacheProofs!Typed` | `Spec => []TypeOK` | inductive as it stands |
| `CacheIsHonest` | `Spec => []CacheHonest` | `TasksHonest`: what a task has read is right, or its stamp is already stale |
| `HashedStaysCached` | `Spec => []HashedIsCached` | `HitsCached`: a hit of the current batch is in the table |
| `WarmRunsReadNothing` | `Spec => []WarmRunReadsNothing` | `Warmth`: behind a complete run all that a run can meet has a fresh entry or is `touched`, until a user acts |
| `NothingAliveEvicted` | `~WalkErrors => (Spec => NeverEvictsUnvisited)` | `Coverage`: each path of the scan is queued, in the batch, hashed or failed |
| `WalkProofs!Typed` | `Spec => []TypeOK` | inductive as it stands |
| `ListsOnlyThisDataset` | `Spec => []OnlyThisDataset` | `OneDataset`: of a steady root both lookups have met the same inode |
| `LinksCollapse` | `Spec => []HardlinksCollapse` | `SeenListed`: what was listed with several links is in `seen` |
| `MissesNothing` | `Spec => []NothingMissed` | `UnderWay`: each entry that the walk owes is unread, in the queue, in a worker's hands or in a directory already taken |
| `PipelineProofs!Typed` | `Spec => []TypeOK` | `Strong`: what holds of `dirs`, `groups` and the results at each phase |
| `HostIsSafe` | `Spec => HostUntouched` | remounts need `private_ns`, which means a slave |
| `WritesAsked` | `Spec => []WritesAsAsked` | `Guarded`: the loop is only reached past the guard |
| `PoolSeesWritable` | `Spec => []RootsWritable` | `Inherited`: the pool has no namespace, or the main thread's |
| `NothingSkipped` | `Spec => []EveryDatasetScanned` | `Kept`: at each phase, what is wanted and possible is in `mounts`, `dirs`, `groups` or `scanned`; `Tallied`: while both counters are zero no task has failed |
| `PathTableProofs!Typed` | `Spec => []TypeOK` | inductive as it stands |
| `PathsResolve` | `Spec => []FilesResolve` | `Lead`: every entry of `ids` leads to its path, and appending to the arena or the table changes no earlier answer |
| `DirectoriesStoredOnce` | `Spec => []StoredOnce` | `Once`: the table has as many entries as `ids`, whose paths are the directories of what was pushed or is being pushed |

The arguments in words:

- *Planner.*  A chunk has one hash, so the groups of the index are disjoint
  (`GroupsAreDisjoint`), and a group has one first location (`FirstIsFirst`, by the
  well-foundedness of the naturals).  Hence a chunk is the destination of at
  most one pair and never also a source (`RolesOfAChunk`).  `Accounted` is needed
  because `PlanIsExact` alone does not say that two runs share no pair, and
  disjointness of runs follows from disjointness of pairs only with it.
  `RunsAreMaximal` is about any two runs of a key, while `coalesce` compares a pair
  with the last one only: `Ordered` makes runs that adjoin neighbours in the list.
- *Index.*  What the groups hold does not depend on `dup_key`, nor on where `Bloom`
  puts its probes, only on that `insert` sets all the bits that `contains` asks for,
  and asks first.  Two
  chunks of one full key have one truncated key, so both are let through once
  it is in `dup`; a group of two pushes has two members, because the cursor never
  comes back (`GroupsInOrder`).  `CursorOK` is needed for the end of a pass to mean
  that all was visited.  That the probes of a key differ is arithmetic: two equal
  probes make the size of the table divide the product of the step and a
  difference less than `K`.  The step is odd, so the size divides the difference
  (`OddFactors`, by induction over the halves of the size), and the size is at least
  `Word`, and `K` at most that.  The sums wrap at a multiple of the size, which is why
  wrapping does no harm (`LowBits`).
- *Workers.*  `PlanComplete` says that an entry of a finished plan has a run, which
  makes `TakePair` well typed.  The refinement rests on `SharedIsTransparent`: for a
  range that passes the kernel's checks and comparison, listing the source's
  blocks instead changes neither values nor lengths, for every prefix that the
  kernel may stop at, and adds no block to those in use.  The lengths need the
  shape of files (`DiskOK`), and that users, clones and dedupes all keep it.
  `NoFallback` says that FICLONERANGE is out of reach in these modes.
- *Workers, undisturbed.*  As long as no user has acted, contents are what they were
  (`Calm`), so that every request of an honest plan is granted in full
  (`HonestRequest`) and a block, once it is shared, is replaced only by the block of
  the same source.  `NoneForgotten` follows each run from the plan to the task to the
  disk; when `dedup` returns, no pair is pending and no task is under way
  (`Drained`), and so all are on the disk.  `OneRecordSize` says that the names of an
  inode report one record size.
- *Workers, dry.*  A sum is treated as the number of bytes, that is as the cardinality of
  a set (`Bytes`, `Total`), so that the theorems about finite sets take the place of an
  induction over the sum; that the recursion of `MapThenSumSet` computes it is shown
  once, by a smallest counterexample (`RecursionSums`).  `Foretold` counts no run
  twice, because a run is open at one place only: in the plan and pending, or ahead of
  one task (`TasksApart`).  When `dedup` returns nothing is open, and the pairs are what
  is left of the chunks when one of each content is taken away
  (`PairsAreDuplicates`).
- *Workers, reclaiming.*  A call takes out of use exactly the blocks that only its
  destination listed (`CloneFrees`), all that it replaces if those are `Unique`; what
  they hold is what `bytes_deduped` counts (`BytesReplaced`).  The calls of other tasks
  change neither: no chunk is replaced by two pairs, and none that a pair replaces is
  a source of another (`OthersStayLone`), so what is still to be replaced stays listed
  once.  The conclusion is about all runs up to the first user operation; later, what a
  user overwrites is freed too and nobody reports it.  The two hypotheses are about
  what a run starts from, and the runs that check the property meet them.  That a file
  is listed once is the walk's promise, broken by overlapping roots only (finding 3);
  for extents that an earlier run has shared the code does not look (section 6).
- *Workers, forced.*  `Known` states of every chunk in a task's buffer that the file
  still holds it, or holds a block written since, or has been cut off by an
  operation that is later than the reading.  It must survive the other tasks'
  clones, which move blocks and their stamps of writing between files: a block
  that arrives has the value that the other task compared, or is itself later
  (`CloneIsRaced`).  `OneStat` excludes names of one inode that were hashed at
  different lengths; the model draws sizes per name.
- *Cache.*  A stamp taken before the first read either still matches, and then
  nothing has been written since and the hashes are right, or never will again,
  because ctime only grows (`OldStampsAreStale`, `UsersStampTheirWrites`).
  `WarmRunReadsNothing` needs it the other way round: that an entry is there, and
  matches, or that a forced run has cloned into the file since its entry was stored:
  then the entry is stale, the file is hashed again by the next run that scans it,
  and fresh once its batch is committed.  Within a run this is known of what is scanned (`ScannedFresh`), is in the
  current batch (`BatchFresh`), or will be (`InPlace`); the run is complete when nothing
  is left of the last two, and prune drops nothing of it (`Coverage`).
- *Walk.*  `HardlinksCollapse` is about what was listed only; that a second link is
  rejected depends on `seen`, which is why `SeenListed` relates the two.  The
  receiver compares devices itself, and therefore nothing needs to be known of
  what the workers have found; but that the device and the fsid of a root are of one
  dataset needs a history, because a mount may have come and gone between the two
  lookups (`OneDataset`).  `NothingMissed` is about every path from a root to a
  file of which nobody has disturbed a directory or a mount on the way.  `Steady`
  says that such a path still leads where it led; `UnderWay` follows the walk along
  it, with the set of directories that have been taken as its witness, and by
  induction on the length of the path the walk reaches its end (`Complete`); the
  hard links that it drops for `seen` are listed under another name
  (`SeenIsListed`).
- *Pipeline.*  Nothing about the last phase follows from the last phase: that a
  dataset is scanned needs to be carried through every filter (`Kept`), with the
  reason for which it passes each of them.  `RootsWritable` is checked by the main
  thread and holds for the pool's only because both have one table (`Inherited`).
  `Tallied` adds that the exit status looks at two counters, and that neither
  forgets the datasets before the last.
- *Path table.*  Numbers are only good for the table that they were taken from.
  `Lead` is therefore stated for every directory interned so far, not for files
  only, and is stable because the arena and the table only grow.  When `seal`
  drops `ids`, the files have what they need.  `StoredOnce` counts entries, and a
  count of entries says something about paths only through `ids` (`Once`).

What the attempts showed about the model: a hole needs a stamp of its own like any
other block, because a hole that a user extends is a write (`Hole`); two tasks that
clone into one file are a case of their own (`TwoSources`, which `forced` now runs);
a mount covers a directory with a directory and a file with a file
(`WalkAssumption`), without which a path could go on behind a file; and a Bloom
filter is only rounded up to a power of two if that does not overflow
(`FilterAssumption`).

The assumptions are those of the modules: `CapAssumption`, `InputsAssumption`,
`IndexAssumption`, `FilterAssumption`, `ModesAssumption`, `BoundsAssumption`,
`DisksAssumption`, `FilesAssumption` (a run lists finitely many files), `HashCacheAssumption`, `BloomAssumption`, `WalkAssumption`,
`PipelineAssumption` and `PathTableAssumption`; TLC evaluates each in every run of its
module.

Only model-checked: liveness (`WalkReturns`), since liveness under fairness is outside
the prover's reach.

## 6. What is not modelled, and limits of the model

- Time: every user operation gets a ctime of its own.  A file written twice
  within one tick of the file system's clock, once before and once after the
  reading, defeats `CacheHonest`; the dedup phase then still compares.
- An append that turns a one-record file into one of larger records changes its
  block size; the model keeps the record size of an inode.
- Users rename among files of one record size only, since chunk numbers of a pair
  are relative to it.
- The cache and the workers are separate models: `Clone` in `HashCache` takes any
  scanned file for a destination, and content that a forced run loses in a race is
  in `DedupWorkers` only.
- The savings reported are relative to the plan: a second run over shared files
  counts them again.  `ReclaimedAsReported` therefore starts from unshared files.
- `MCForced` has no renames: they can make one task's destination another's source,
  and then one accepted race spreads to a second file.  For the same reason
  `LostWritesAreRaced` is proved without them.
- The two opens of `pair` are one step; a path swapped between them is covered by
  a swap before, since they open different files of the plan.
- The cast of chunk numbers to `u32` panics beyond 2^32 chunks.
- The walk lists a directory in one step; `readdir` promises no more of entries
  that change meanwhile than that they may or may not be seen, which the stat of
  each entry covers.  Symlinks and special files, which are skipped, are left out.
- Of directories users move only leaves, and no mount point moves.
- The order in which rayon takes spawned directories is free.  That every spawned
  directory keeps its parent's descriptor open, and that descriptors may run out
  on wide trees, is not modelled; the error that follows is `ReadDirFails`.
- Mounts do not change during a run of `Pipeline`, except by the tool itself.
- `mount_change` that fails leaves a namespace whose remounts reach the host: this
  is taken from the comment in `remount.rs`.
- Datasets are visited in any order; the code takes them by fsid.
- Not modelled: command line and output; the parsing of `zpool` and `mountinfo`; the
  byte encoding of cache entries; `prune_key`; `compact_if_bloated`, which moves
  pages inside redb; O_DIRECT and buffers; benches and examples.

## 7. Plan

Done: all modules of section 2, their runs and the proofs of section 5.

Next: `Pipeline` with the walk's result of `Walk` and the entries of
`HashCache` in place of the step `Dataset`, so that the mounts of a run decide what
its prune evicts, and the theorems of `HashCacheProofs` for it.
