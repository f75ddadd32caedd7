------------------------------ MODULE HashCache ------------------------------
(***************************************************************************)
(* src/hasher.rs over src/cache.rs, driven by the dataset loop of main.rs: *)
(* runs of the tool that walk one dataset after the other, hash its files  *)
(* in batches of parallel tasks, commit each batch to the persistent       *)
(* cache, prune the dataset's dead entries, and then read the cache back   *)
(* for the index and clone.  Runs are killed at any point, and users       *)
(* write, rename and remove files all the time.                            *)
(*                                                                         *)
(* An inode is named by <<fsid, ino>>.  Its stamp is what entry.matches    *)
(* compares.  A hash is modelled by the value it is the hash of.  Every    *)
(* user operation and every clone gets a ctime of its own: the file        *)
(* system's clock is taken to be finer than the distance of two writes.    *)
(***************************************************************************)
EXTENDS Integers, Sequences, FiniteSets

CONSTANTS Fsids,          \* the datasets, in the order of by_fsid
          PathsOf,        \* dataset -> its paths
          InitNames,      \* path -> the inode it names at first
          Hash,           \* chunk hashes
          InitData,       \* inode -> its chunks at first
          Versions,       \* the contents that users write
          Gone,           \* what a removed path names
          BatchSize,      \* 100_000 in hash_files
          Scans,          \* the sets of paths that runs are asked to scan
          WalkErrors,     \* may the walk miss files it was asked for?
          MaxStamps,      \* bound on user operations and clones together
          MaxRuns         \* bound on runs of the tool

ASSUME HashCacheAssumption ==
    /\ Fsids \in Seq(Nat) /\ Fsids # <<>>
    /\ BatchSize \in Nat \ {0}
    /\ InitData \in [DOMAIN InitData -> Seq(Hash)] /\ Versions \subseteq Seq(Hash)
    /\ Gone \notin DOMAIN InitData
    /\ InitNames \in [DOMAIN InitNames -> DOMAIN InitData \cup {Gone}]
    /\ \A p \in DOMAIN InitNames : InitNames[p] # Gone => p \in PathsOf[InitNames[p][1]]
    /\ Scans \subseteq SUBSET DOMAIN InitNames
    /\ WalkErrors \in BOOLEAN
    /\ MaxStamps \in Nat /\ MaxRuns \in Nat

VARIABLES
    fs,         \* inode -> [data, mtime, ctime]
    names,      \* path -> inode or Gone
    db,         \* the redb table: inode -> [stamp, hashes]
    phase,      \* "off", "walk", "hash", "prune", "index"
    scan,       \* the paths of this run
    group,      \* position in Fsids of the dataset at hand
    queue,      \* the walk's paths that are not in a batch yet
    slot,       \* the batch: path -> what its task is doing
    hashed,     \* the Hashed files of this dataset
    failed,     \* the paths whose task ended in an error this run
    runs,       \* number of runs started
    userOps,    \* number of user operations
    clones,     \* number of FICLONERANGE calls
    touched,    \* history: the inodes cloned into since they were last hashed
    startOps,   \* history: userOps when the run started
    warmOps     \* history: userOps when an undisturbed full run ended, or -1

disk  == <<fs, names, userOps, clones>>
loop  == <<scan, group, runs, startOps, warmOps>>
vars  == <<disk, touched, db, phase, loop, queue, slot, hashed, failed>>

Inodes == DOMAIN InitData
AllPaths == DOMAIN InitNames
Fsid == Fsids[group]

\* The clock that stamps are taken from.
Now == userOps + clones
StampOf(k) == [size |-> Len(fs[k].data), mtime |-> fs[k].mtime, ctime |-> fs[k].ctime]

-----------------------------------------------------------------------------
(* Users (external).                                                       *)

UserActs ==
    /\ Now < MaxStamps
    /\ userOps' = userOps + 1 /\ UNCHANGED clones
    /\ UNCHANGED <<touched, db, phase, loop, queue, slot, hashed, failed>>

Write(k, data) ==
    /\ UserActs
    /\ data # fs[k].data
    /\ fs' = [fs EXCEPT ![k] = [data |-> data, mtime |-> Now', ctime |-> Now']]
    /\ UNCHANGED names

\* touch -d, rsync -t: an old mtime comes back, ctime does not.
Backdate(k) ==
    /\ UserActs
    /\ fs[k].mtime # 0
    /\ fs' = [fs EXCEPT ![k] = [data |-> @.data, mtime |-> 0, ctime |-> Now']]
    /\ UNCHANGED names

Unlink(p) ==
    /\ UserActs
    /\ names[p] # Gone
    /\ names' = [names EXCEPT ![p] = Gone]
    /\ UNCHANGED fs

\* Within one dataset: across datasets rename fails with EXDEV.
Rename(p, q) ==
    /\ UserActs
    /\ p # q /\ names[p] # Gone
    /\ q \in PathsOf[names[p][1]]
    /\ names' = [names EXCEPT ![q] = names[p], ![p] = Gone]
    /\ UNCHANGED fs

UserStep ==
    \/ \E k \in Inodes, data \in Versions : Write(k, data)
    \/ \E k \in Inodes : Backdate(k)
    \/ \E p \in AllPaths : Unlink(p)
    \/ \E p, q \in AllPaths : Rename(p, q)

-----------------------------------------------------------------------------
(* hash_one.                                                               *)

\* FileEntry::matches.
matches(entry, st) ==
    /\ entry.stamp.size = st.size
    /\ entry.stamp.mtime = st.mtime
    /\ entry.stamp.ctime = st.ctime

Todo == [pc |-> "todo", key |-> Gone, stamp |-> <<>>, hashes |-> <<>>]

InBatch(p, pcs) == phase = "hash" /\ p \in DOMAIN slot /\ slot[p].pc \in pcs
Becomes(p, rec) ==
    /\ slot' = [slot EXCEPT ![p] = rec]
    /\ UNCHANGED <<disk, touched, db, phase, loop, queue, hashed, failed>>

\* lstat and cache.get; ENOENT ends the task.
Lookup(p) ==
    /\ InBatch(p, {"todo"})
    /\ LET k == names[p] IN
       IF k = Gone THEN Becomes(p, [slot[p] EXCEPT !.pc = "err"])
       ELSE IF k \in DOMAIN db /\ matches(db[k], StampOf(k))
       THEN Becomes(p, [slot[p] EXCEPT !.pc = "hit", !.key = k, !.stamp = StampOf(k)])
       ELSE Becomes(p, [slot[p] EXCEPT !.pc = "miss"])

\* open and fstat: whatever the path names by now; and a faulty variant that
\* takes for granted what lstat has found.
OpenAndStatBlind(p) ==
    /\ InBatch(p, {"miss"})
    /\ Becomes(p, [slot[p] EXCEPT !.pc = "read", !.key = names[p]])
OpenAndStat(p) ==
    /\ InBatch(p, {"miss"})
    /\ LET k == names[p] IN
       IF k = Gone THEN Becomes(p, [slot[p] EXCEPT !.pc = "err"])
       ELSE Becomes(p, [slot[p] EXCEPT !.pc = "read", !.key = k, !.stamp = StampOf(k)])

\* The stamp that a finished task reports; and a faulty variant that stats the
\* file after reading it.
StampAfter(p)  == StampOf(slot[p].key)
StampBefore(p) == slot[p].stamp

\* hash_fd: one chunk, or the end of the file as it is now.
ReadChunk(p) ==
    /\ InBatch(p, {"read"})
    /\ LET data == fs[slot[p].key].data
           n    == Len(slot[p].hashes)
       IN  IF n < Len(data)
           THEN Becomes(p, [slot[p] EXCEPT !.hashes = Append(@, data[n + 1])])
           ELSE Becomes(p, [slot[p] EXCEPT !.pc = "new", !.stamp = StampBefore(p)])

\* lstat, the cache, open or a read fails: EAGAIN, EACCES, EIO.
HashError(p) ==
    /\ InBatch(p, {"todo", "miss", "read"})
    /\ slot' = [slot EXCEPT ![p].pc = "err"]
    /\ failed' = failed \cup {p}
    /\ warmOps' = -1
    /\ UNCHANGED <<disk, touched, db, phase, scan, group, runs, startOps, queue, hashed>>

-----------------------------------------------------------------------------
(* hash_files and map_batched.                                             *)

\* The walk's order is that of parallel threads: any paths may come next.
TakeBatch ==
    /\ phase = "hash"
    /\ slot = <<>> /\ queue # {}
    /\ \E batch \in SUBSET queue :
          /\ Cardinality(batch) = BatchSize \/ (batch = queue /\ Cardinality(queue) < BatchSize)
          /\ slot' = [p \in batch |-> Todo]
          /\ queue' = queue \ batch
    /\ UNCHANGED <<disk, touched, db, phase, loop, hashed, failed>>

New(k) == { p \in DOMAIN slot : slot[p].pc = "new" /\ slot[p].key = k }
\* The entries of the transaction; and a faulty variant that never flushes a
\* batch that is not full.
NewKeysOfFullBatch == IF Cardinality(DOMAIN slot) < BatchSize THEN {}
                      ELSE { k \in Inodes : New(k) # {} }
NewKeys == { k \in Inodes : New(k) # {} }

\* put_many: one transaction; of two results for one inode the last one wins.
PutBatch ==
    /\ phase = "hash"
    /\ slot # <<>>
    /\ \A p \in DOMAIN slot : slot[p].pc \in {"hit", "new", "err"}
    /\ \E last \in [NewKeys -> DOMAIN slot] :
          /\ \A k \in NewKeys : last[k] \in New(k)
          /\ db' = [k \in DOMAIN db \cup NewKeys |->
                      IF k \in NewKeys
                      THEN [stamp |-> slot[last[k]].stamp, hashes |-> slot[last[k]].hashes]
                      ELSE db[k]]
    /\ hashed' = hashed \cup { slot[p].key : p \in { p \in DOMAIN slot : slot[p].pc # "err" } }
    /\ slot' = <<>>
    /\ touched' = touched \ NewKeys
    /\ UNCHANGED <<disk, phase, loop, queue, failed>>

AllHashed ==
    /\ phase = "hash"
    /\ slot = <<>> /\ queue = {}
    /\ phase' = "prune"
    /\ UNCHANGED <<disk, touched, db, loop, queue, slot, hashed, failed>>

-----------------------------------------------------------------------------
(* The dataset loop of run.                                                *)

Start ==
    /\ phase = "off"
    /\ runs < MaxRuns
    /\ runs' = runs + 1
    /\ \E s \in Scans : scan' = s
    /\ group' = 1
    /\ phase' = "walk"
    /\ startOps' = userOps
    /\ failed' = {}
    /\ UNCHANGED <<disk, touched, db, queue, slot, hashed, warmOps>>

\* walk::files: an error skips a file or a subtree and is only reported.
Walk ==
    /\ phase = "walk"
    /\ \E missed \in (IF WalkErrors THEN SUBSET scan ELSE {{}}) :
          queue' = { p \in (scan \cap PathsOf[Fsid]) \ missed : names[p] # Gone }
    /\ phase' = "hash"
    /\ hashed' = {}
    /\ UNCHANGED <<disk, touched, db, loop, slot, failed>>

\* Only datasets scanned in full are pruned; and two faulty variants: prune
\* after a partial scan, and prune every dataset.
PrunableAlways(k) == k[1] = Fsid
PrunableEverywhere(k) == PathsOf[Fsid] \subseteq scan
Prunable(k) == PathsOf[Fsid] \subseteq scan /\ k[1] = Fsid

\* seen is a Bloom filter: it may keep dead entries.
Prune ==
    /\ phase = "prune"
    /\ \E lucky \in SUBSET (DOMAIN db \ hashed) :
          db' = [k \in { k \in DOMAIN db : Prunable(k) => k \in hashed \cup lucky } |-> db[k]]
    /\ phase' = "index"
    /\ UNCHANGED <<disk, touched, loop, queue, slot, hashed, failed>>

\* dedup of a forced run clones into p, whatever it names by now: "The fallback
\* also bumps the mtime of deduped files" (README.md), and the ctime with it.  It
\* clones what it has found equal; a write that it loses is DedupWorkers' matter.
Clone(p) ==
    /\ phase = "index"
    /\ Now < MaxStamps
    /\ p \in scan \cap PathsOf[Fsid] /\ names[p] # Gone
    /\ clones' = clones + 1 /\ UNCHANGED userOps
    /\ fs' = [fs EXCEPT ![names[p]] = [data |-> @.data, mtime |-> Now', ctime |-> Now']]
    /\ touched' = touched \cup {names[p]}
    /\ UNCHANGED <<names, db, phase, loop, queue, slot, hashed, failed>>

\* dedup is done: next dataset, or the end of the run.
NextGroup ==
    /\ phase = "index"
    /\ IF group < Len(Fsids)
       THEN /\ group' = group + 1 /\ phase' = "walk"
            /\ UNCHANGED warmOps
       ELSE /\ phase' = "off" /\ UNCHANGED group
            /\ warmOps' = IF scan = AllPaths /\ userOps = startOps /\ failed = {} /\ ~WalkErrors
                          THEN userOps ELSE warmOps
    /\ UNCHANGED <<disk, touched, db, scan, runs, startOps, queue, slot, hashed, failed>>

\* The process dies; redb comes back with the last commit.
Crash ==
    /\ phase # "off"
    /\ phase' = "off"
    /\ queue' = {} /\ slot' = <<>> /\ hashed' = {}
    /\ UNCHANGED <<disk, touched, db, loop, failed>>

Init ==
    /\ fs = [k \in Inodes |-> [data |-> InitData[k], mtime |-> 0, ctime |-> 0]]
    /\ names = InitNames
    /\ db = <<>>
    /\ phase = "off"
    /\ scan = {} /\ group = 1
    /\ queue = {} /\ slot = <<>> /\ hashed = {} /\ failed = {}
    /\ runs = 0 /\ userOps = 0 /\ startOps = 0 /\ warmOps = -1
    /\ clones = 0 /\ touched = {}

TaskStep(p) == Lookup(p) \/ OpenAndStat(p) \/ ReadChunk(p) \/ HashError(p)

ToolStep ==
    \/ Start \/ Walk \/ TakeBatch
    \/ \E p \in DOMAIN slot : TaskStep(p)
    \/ PutBatch \/ AllHashed \/ Prune \/ NextGroup
    \/ \E p \in AllPaths : Clone(p)

Next == ToolStep \/ Crash \/ UserStep

Spec == Init /\ [][Next]_vars

-----------------------------------------------------------------------------
(* Properties.                                                             *)

Stamp == [size : Nat, mtime : Nat, ctime : Nat]
Task  == [pc     : {"todo", "hit", "miss", "read", "new", "err"},
          key    : Inodes \cup {Gone},
          stamp  : Stamp \cup {<<>>},
          hashes : Seq(Hash)]

FilesOK == /\ fs \in [Inodes -> [data : Seq(Hash), mtime : 0 .. Now, ctime : 0 .. Now]]
           /\ names \in [AllPaths -> Inodes \cup {Gone}]
DbOK    == /\ DOMAIN db \subseteq Inodes
           /\ db \in [DOMAIN db -> [stamp : Stamp, hashes : Seq(Hash)]]
           /\ \A k \in DOMAIN db : db[k].stamp.ctime <= Now
SlotOK  == /\ DOMAIN slot \subseteq AllPaths
           /\ slot \in [DOMAIN slot -> Task]
           /\ phase # "hash" => slot = <<>>
           /\ \A p \in DOMAIN slot :
                 /\ slot[p].pc \in {"todo", "miss"} => slot[p].hashes = <<>>
                 /\ slot[p].pc \in {"hit", "read", "new"} =>
                       /\ slot[p].key \in Inodes
                       /\ slot[p].stamp \in Stamp /\ slot[p].stamp.ctime <= Now

\* The types of the state; a task behind its stat has an inode and a stamp, no
\* stamp is from the future, and no task outlives the hashing of its dataset.
TypeOK ==
    /\ phase \in {"off", "walk", "hash", "prune", "index"}
    /\ group \in DOMAIN Fsids
    /\ userOps \in Nat /\ clones \in Nat /\ touched \subseteq Inodes
    /\ scan \subseteq AllPaths /\ queue \subseteq AllPaths /\ hashed \subseteq Inodes
    /\ FilesOK
    /\ DbOK
    /\ SlotOK

\* A cache entry that matches a file's present stamp holds the hashes of its
\* present content: an overwrite between fstat and the last read, a backdated
\* mtime, a rename between lstat and open, or a crash between two commits can
\* make an entry useless but never wrong.
CacheHonest ==
    \A k \in DOMAIN db : matches(db[k], StampOf(k)) => db[k].hashes = fs[k].data

\* What hashing handed to the dedup phase is in the cache when each_chunk looks
\* for it, although batches are committed one by one and prune runs in between.
HashedIsCached == phase \in {"prune", "index"} => hashed \subseteq DOMAIN db

\* The cache forgets no file that exists: "a subdir scan covers part of a
\* dataset and must not evict siblings it never visited" (main.rs), and no
\* dataset is pruned on behalf of another one.  Only a user in the way or an
\* error of the file's own task may cost an entry.
NeverEvictsUnvisited ==
    [][ userOps' = startOps =>
          \A p \in AllPaths \ failed : names[p] \in DOMAIN db => names[p] \in DOMAIN db' ]_vars

\* "Only files that changed get rehashed": once an undisturbed run over
\* everything is complete, hashing opens no file, in no later run, whole, partial
\* or killed in between, until a user acts again; but for the files that a forced
\* run has cloned into since they were last hashed, each of which is hashed until
\* its batch is committed once.
WarmRunReadsNothing ==
    warmOps = userOps =>
        \A p \in DOMAIN slot : slot[p].pc \in {"todo", "hit"} \/ names[p] \in touched
=============================================================================
