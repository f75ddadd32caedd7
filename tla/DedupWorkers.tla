---------------------------- MODULE DedupWorkers ----------------------------
(***************************************************************************)
(* The acting half of src/dedup.rs: rayon tasks that take one (source      *)
(* file, destination file) pair at a time, open both files, and hand every *)
(* run of the pair to verify_and_clone, while other processes go on        *)
(* writing the files.                                                      *)
(*                                                                         *)
(* The file system is a copy-on-write store.  disk[f] is the list of       *)
(* blocks of inode f.  A block is never changed in place: it carries a     *)
(* value, the number of bytes it holds and an identity, so that two files  *)
(* share storage where they list the same block and a user write puts a    *)
(* new block in the list.  val names the bytes that the block holds a      *)
(* prefix of: growing a tail keeps val and raises len.                     *)
(*                                                                         *)
(* files and cache are the snapshot that hashing left behind.  Users act   *)
(* from the start, so the snapshot may be stale before the first ioctl,    *)
(* and a path may by then name another inode than the one that was hashed. *)
(***************************************************************************)
EXTENDS RunPlanner, FiniteSets, FiniteSetsExt

CONSTANTS Workers,          \* the rayon tasks
          Values,           \* what users write into a block
          ZeroVal,          \* the value of a hole
          Modes,            \* the Opts that main may pass
          UserOps,          \* the operations users perform
          PathTroubles,     \* what may befall a path: see path
          MaxUserOps,       \* bound on the user operations of a behaviour
          MaxFaults,        \* bound on the failures of reads and ioctls
          PartialDedupe     \* may FIDEDUPERANGE stop short?

ASSUME ModesAssumption ==   \* main: fideduperange = !dry_run && probe
    Modes \subseteq { m \in [dry_run : BOOLEAN, fideduperange : BOOLEAN] :
                        m.dry_run => ~m.fideduperange }
ASSUME BoundsAssumption ==
    /\ MaxUserOps \in Nat /\ MaxFaults \in Nat
    /\ PartialDedupe \in BOOLEAN
    /\ UserOps \subseteq {"overwrite", "append", "shrink", "relink"}
    /\ PathTroubles \subseteq {"gone", "leased", "immutable", "executing", "denied", "symlink", "special"}

VARIABLES
    opts,       \* Opts
    disk,       \* inode -> sequence of blocks
    path,       \* file number -> [ino, state]: what opening its path meets
    pending,    \* the pairs no task has taken yet
    task,       \* worker -> what it is doing
    stats,      \* the sum of the tasks' Stats
    userOps,    \* number of user operations so far
    faults      \* number of injected failures so far

userVars == <<disk, path, userOps>>
toolVars == <<pending, task, stats, faults>>
vars == <<planVars, opts, userVars, toolVars>>

\* Whether to compare in user space; and a faulty variant that always does.
CompareAlways == TRUE
Compare == opts.dry_run \/ ~opts.fideduperange

-----------------------------------------------------------------------------
(* The file system (external).                                             *)

\* The record size of an inode; every inode of the model has been hashed.
RecSizeIn(fl, f) == fl[CHOOSE i \in DOMAIN fl : fl[i].ino = f].blksz
RecSize(f) == RecSizeIn(files, f)

\* Every block but the last one of a file is full.
Block == [val : Values \cup {ZeroVal}, len : Nat \ {0}, id : Nat \X Nat]

DiskOK(fl, d) ==
    /\ DOMAIN d = { fl[i].ino : i \in DOMAIN fl }
    /\ d \in [DOMAIN d -> Seq(Block)]
    /\ \A f \in DOMAIN d : \A c \in DOMAIN d[f] :
          /\ d[f][c].len <= RecSizeIn(fl, f)
          /\ c < Len(d[f]) => d[f][c].len = RecSizeIn(fl, f)

ASSUME DisksAssumption == \A i \in Inputs : DiskOK(i.files, i.disk)

\* hash_files hands over a list.
ASSUME FilesAssumption == \A i \in Inputs : IsFiniteSet(DOMAIN i.files)

\* What a reader of f sees.
Contents(d, f) == [c \in DOMAIN d[f] |-> [val |-> d[f][c].val, len |-> d[f][c].len]]
View(d) == [f \in DOMAIN d |-> Contents(d, f)]

BlocksInUse(d) == UNION { { d[f][c] : c \in DOMAIN d[f] } : f \in DOMAIN d }
BytesInUse(d) == MapThenSumSet(LAMBDA b : b.len, BlocksInUse(d))
SumLens(f) == MapThenSumSet(LAMBDA c : disk[f][c].len, DOMAIN disk[f])

\* A range of inode f is n chunks behind the first `first`, the last of them
\* tail bytes long.  Reaches: it lies inside the file.  ToEof: up to its end.
Reaches(f, first, n, tail) ==
    /\ first + n <= Len(disk[f])
    /\ tail <= disk[f][first + n].len

ToEof(f, first, n, tail) ==
    first + n >= Len(disk[f]) /\ (first + n = Len(disk[f]) => disk[f][first + n].len <= tail)

ValuesIn(f, first, n) == [j \in 1 .. n |-> disk[f][first + j].val]

\* Both ioctls want one record size, the range inside the source, whole
\* records except at the end of both files, and no overlap within one file.
Clonable(r) ==
    /\ RecSize(r.src) = r.blksz /\ RecSize(r.dst) = r.blksz
    /\ Reaches(r.src, r.sfirst, r.n, r.tail)
    /\ \/ r.tail = r.blksz
       \/ /\ ToEof(r.src, r.sfirst, r.n, r.tail)
          /\ ToEof(r.dst, r.dfirst, r.n, r.tail)
    /\ r.src = r.dst => (r.sfirst + r.n <= r.dfirst \/ r.dfirst + r.n <= r.sfirst)

\* The first m chunks of the destination range list the source's blocks.  A
\* destination that has become too short is extended; the zero bytes behind its
\* old tail keep the tail's val.  A hole bears the date of the
\* last user operation before it.
Hole(len) == [val |-> ZeroVal, len |-> len, id |-> <<0, userOps>>]

Shared(r, m) ==
    LET old  == disk[r.dst]
        upto == IF r.dfirst + m > Len(old) THEN r.dfirst + m ELSE Len(old)
    IN  [disk EXCEPT ![r.dst] =
            [c \in 1 .. upto |->
                IF c > r.dfirst /\ c <= r.dfirst + m
                THEN disk[r.src][r.sfirst + (c - r.dfirst)]
                ELSE IF c > Len(old) THEN Hole(r.blksz)
                ELSE IF c <= r.dfirst THEN [old[c] EXCEPT !.len = r.blksz]
                ELSE old[c]]]

-----------------------------------------------------------------------------
(* Users (external).                                                       *)

Fresh(val, len) == [val |-> val, len |-> len, id |-> <<0, userOps + 1>>]

UserActs(op) ==
    /\ op \in UserOps
    /\ userOps < MaxUserOps
    /\ userOps' = userOps + 1
    /\ UNCHANGED <<planVars, opts, toolVars>>

Rewritten(f, blocks) == disk' = [disk EXCEPT ![f] = blocks] /\ UNCHANGED path

Overwrite(f, c, v) ==
    /\ UserActs("overwrite")
    /\ v # disk[f][c].val
    /\ Rewritten(f, [disk[f] EXCEPT ![c] = Fresh(v, @.len)])

\* One more byte: the tail grows, or a new block starts.
AppendByte(f, v) ==
    /\ UserActs("append")
    /\ LET n == Len(disk[f]) IN
       IF n > 0 /\ disk[f][n].len < RecSize(f)
       THEN Rewritten(f, [disk[f] EXCEPT ![n] = Fresh(@.val, @.len + 1)])
       ELSE Rewritten(f, Append(disk[f], Fresh(v, 1)))

\* One byte less: the tail shrinks, or the last block goes.
Shrink(f) ==
    /\ UserActs("shrink")
    /\ Len(disk[f]) > 0
    /\ LET n == Len(disk[f]) IN
       IF disk[f][n].len > 1
       THEN Rewritten(f, [disk[f] EXCEPT ![n] = Fresh(@.val, @.len - 1)])
       ELSE Rewritten(f, SubSeq(disk[f], 1, n - 1))

\* mv or ln -f: a path comes to name what another one names.  Among files of one
\* record size, so that chunk numbers keep their meaning.
Relink(i, j) ==
    /\ UserActs("relink")
    /\ path[i] # path[j]
    /\ RecSize(path[i].ino) = RecSize(path[j].ino)
    /\ path' = [path EXCEPT ![i] = path[j]]
    /\ UNCHANGED disk

\* A path goes, is leased or executed, turns immutable, loses permissions, or a
\* symlink, a directory or a fifo takes its place.
Trouble(i, s) ==
    /\ userOps < MaxUserOps
    /\ userOps' = userOps + 1
    /\ path[i].state = "ok"
    /\ path' = [path EXCEPT ![i].state = s]
    /\ UNCHANGED <<planVars, opts, toolVars, disk>>

UserStep ==
    \/ \E f \in DOMAIN disk, v \in Values : \E c \in DOMAIN disk[f] : Overwrite(f, c, v)
    \/ \E f \in DOMAIN disk, v \in Values : AppendByte(f, v)
    \/ \E f \in DOMAIN disk : Shrink(f)
    \/ \E i, j \in DOMAIN files : Relink(i, j)
    \/ \E i \in DOMAIN files, s \in PathTroubles : Trouble(i, s)

-----------------------------------------------------------------------------
(* The tasks.                                                              *)

NoStats == [candidates |-> 0, verified |-> 0, cloned |-> 0, bytes |-> 0,
            mismatches |-> 0, busy |-> 0, errors |-> 0]

\* src and dst are the inodes behind the two descriptors.  since is a history
\* variable: the value of userOps when the task read its source.
Idle == [pc |-> "idle", key |-> <<>>, run |-> 0, src |-> 0, dst |-> 0,
         buf |-> <<>>, since |-> 0]

\* The run a task is at, as the byte ranges that it will ask for.
RunOf(w) ==
    LET k   == task[w].key
        run == plan[k][task[w].run]
        len == run_len(files[k[2]], run.src.chunk, run.chunks, k[1])
    IN  [blksz |-> k[1], src |-> task[w].src, dst |-> task[w].dst,
         sfirst |-> run.src.chunk, dfirst |-> run.dst.chunk, n |-> run.chunks,
         len  |-> len, tail |-> len - (run.chunks - 1) * k[1],
         dlen |-> run_len(files[k[3]], run.dst.chunk, run.chunks, k[1])]

Count(fields) == [x \in DOMAIN NoStats |-> stats[x] + (IF x \in fields THEN 1 ELSE 0)]
Saved(bytes, fields) == [Count(fields) EXCEPT !.bytes = @ + bytes]

\* Faulty variants of NextRun: one run too many, and one run too few.
NextRunOverrun(w) ==
    task' = [task EXCEPT ![w] =
                IF @.run <= Len(plan[@.key]) THEN [@ EXCEPT !.pc = "run", !.run = @ + 1]
                ELSE Idle]
NextRunEarlyStop(w) ==
    task' = [task EXCEPT ![w] =
                IF @.run + 1 < Len(plan[@.key]) THEN [@ EXCEPT !.pc = "run", !.run = @ + 1]
                ELSE Idle]

\* `continue` of the loop over runs; behind the last run the task is free.
NextRun(w) ==
    LET t == task[w] IN
    task' = [task EXCEPT ![w] =
                IF t.run < Len(plan[t.key])
                THEN [t EXCEPT !.pc = "run", !.run = t.run + 1, !.buf = <<>>]
                ELSE Idle]

\* pair: both paths are opened, the destination for writing unless dry_run.  Only
\* writers are kept from an immutable or a running file, and what is neither a
\* file nor a symlink can be opened.
Opens(state, write) == \/ state \in {"ok", "special"}
                       \/ state \in {"immutable", "executing"} /\ ~write
Refusal(k) ==
    LET s == path[k[2]].state
        d == path[k[3]].state
    IN  CASE ~Opens(s, FALSE)            -> s
          [] ~Opens(d, ~opts.dry_run)    -> d
          [] "special" \in {s, d}        -> "special"
          [] OTHER                       -> "ok"

\* ENOENT is silent; EAGAIN, ETXTBSY and EPERM are busy; the rest (EACCES, ELOOP)
\* are errors.
Complaint(refusal) ==
    CASE refusal \in {"denied", "symlink"} -> {"errors"}
      [] refusal \in {"leased", "immutable", "executing"} -> {"busy"}
      [] OTHER -> {}

TakePair(w, k) ==
    /\ phase = "clone"
    /\ task[w].pc = "idle"
    /\ Refusal(k) # "special"
    /\ pending' = pending \ {k}
    /\ stats' = Count(Complaint(Refusal(k)))
    /\ task' = [task EXCEPT ![w] =
           IF Refusal(k) = "ok"
           THEN [pc |-> "run", key |-> k, run |-> 1,
                 src |-> path[k[2]].ino, dst |-> path[k[3]].ino,
                 buf |-> <<>>, since |-> 0]
           ELSE Idle]
    /\ UNCHANGED <<planVars, opts, userVars, faults>>

\* pair over a directory or a fifo: a directory cannot be opened for writing
\* (EISDIR); otherwise each run fails on its own (EISDIR, ESPIPE, EINVAL), unless
\* the comparing modes get a short read first.  No file is touched.
TakeSpecial(w, k) ==
    /\ phase = "clone"
    /\ task[w].pc = "idle"
    /\ Refusal(k) = "special"
    /\ pending' = pending \ {k}
    /\ \/ /\ path[k[3]].state = "special" /\ ~opts.dry_run
          /\ stats' = Count({"errors"})
       \/ \E n \in IF Compare THEN 0 .. Len(plan[k]) ELSE {Len(plan[k])} :
             stats' = [stats EXCEPT !.candidates = @ + Len(plan[k]), !.errors = @ + n]
    /\ UNCHANGED <<planVars, opts, userVars, task, faults>>

\* verify_and_clone, compare path, first read; a short read is UnexpectedEof,
\* which pair passes over in silence.
ReadSrc(w, r) ==
    /\ stats' = Count({"candidates"})
    /\ IF Reaches(r.src, r.sfirst, r.n, r.tail)
       THEN task' = [task EXCEPT ![w] =
                        [@ EXCEPT !.pc = "read_dst", !.since = userOps,
                                  !.buf = ValuesIn(r.src, r.sfirst, r.n)]]
       ELSE NextRun(w)
    /\ UNCHANGED disk

\* info.bytes_deduped, of a run of which the kernel shared m chunks; and a
\* faulty variant that believes what it asked for.
BytesAskedFor(r, m) == r.len
BytesDeduped(r, m)  == LowerOf(m * r.blksz, r.len)

\* Whether the kernel finds the two ranges equal.
KernelAgrees(r) ==
    ValuesIn(r.src, r.sfirst, r.n) = ValuesIn(r.dst, r.dfirst, r.n)

\* dedupe_range: one atomic compare-and-clone; the kernel may share a prefix.
DedupeRange(w, r) ==
    /\ IF ~(Clonable(r) /\ Reaches(r.dst, r.dfirst, r.n, r.tail))
       THEN stats' = Count({"candidates", "errors"}) /\ UNCHANGED disk
       ELSE IF ~KernelAgrees(r)
       THEN stats' = Count({"candidates", "mismatches"}) /\ UNCHANGED disk
       ELSE \E m \in (IF PartialDedupe THEN 1 .. r.n ELSE {r.n}) :
               /\ disk' = Shared(r, m)
               /\ stats' = Saved(BytesDeduped(r, m), {"candidates", "verified", "cloned"})
    /\ NextRun(w)

\* The loop body of pair.  The skip is defensive: see RunsAreIoctlReady.
StartRun(w) ==
    /\ task[w].pc = "run"
    /\ LET r == RunOf(w) IN
       IF r.len = 0 \/ r.len # r.dlen THEN NextRun(w) /\ UNCHANGED <<stats, disk>>
       ELSE IF Compare THEN ReadSrc(w, r)
       ELSE DedupeRange(w, r)
    /\ UNCHANGED <<planVars, opts, path, userOps, pending, faults>>

\* memcmp; and a faulty variant that trusts the hashes.
BuffersTrusted(w, r) == TRUE
BuffersAgree(w, r) == ValuesIn(r.dst, r.dfirst, r.n) = task[w].buf

\* Second read and the comparison of the two buffers.
ReadDst(w) ==
    /\ task[w].pc = "read_dst"
    /\ LET r == RunOf(w) IN
       IF ~Reaches(r.dst, r.dfirst, r.n, r.tail) THEN UNCHANGED stats /\ NextRun(w)
       ELSE IF ~BuffersAgree(w, r) THEN stats' = Count({"mismatches"}) /\ NextRun(w)
       ELSE IF opts.dry_run THEN stats' = Saved(r.len, {"verified"}) /\ NextRun(w)
       ELSE UNCHANGED stats /\ task' = [task EXCEPT ![w].pc = "clone"]
    /\ UNCHANGED <<planVars, opts, userVars, pending, faults>>

\* clone_range: FICLONERANGE does not look at the data.
CloneRange(w) ==
    /\ task[w].pc = "clone"
    /\ LET r == RunOf(w) IN
       IF Clonable(r)
       THEN disk' = Shared(r, r.n) /\ stats' = Saved(r.len, {"verified", "cloned"})
       ELSE UNCHANGED disk /\ stats' = Count({"errors"})
    /\ NextRun(w)
    /\ UNCHANGED <<planVars, opts, path, userOps, pending, faults>>

\* A read or an ioctl fails for a reason outside the model: EIO, ENOSPC, an
\* inode turned immutable, FIDEDUPERANGE refused by this dataset.  And a faulty
\* variant that gives up the pair.
IoFaultEndsPair(w, field) ==
    /\ task[w].pc # "idle"
    /\ faults < MaxFaults
    /\ faults' = faults + 1
    /\ stats' = Count({field} \cup (IF task[w].pc = "run" THEN {"candidates"} ELSE {}))
    /\ task' = [task EXCEPT ![w] = Idle]
    /\ UNCHANGED <<planVars, opts, userVars, pending>>
IoFault(w, field) ==
    /\ task[w].pc # "idle"
    /\ faults < MaxFaults
    /\ faults' = faults + 1
    /\ stats' = Count({field} \cup (IF task[w].pc = "run" THEN {"candidates"} ELSE {}))
    /\ NextRun(w)
    /\ UNCHANGED <<planVars, opts, userVars, pending>>

WorkerStep(w) ==
    \/ \E k \in pending : TakePair(w, k) \/ TakeSpecial(w, k)
    \/ StartRun(w)
    \/ ReadDst(w)
    \/ CloneRange(w)
    \/ \E field \in {"errors", "busy"} : IoFault(w, field)

-----------------------------------------------------------------------------
(* dedup.                                                                  *)

\* into_par_iter hands the plan to the tasks once it is complete.
Plan ==
    /\ PlanStep
    /\ pending' = IF phase' = "clone" THEN DOMAIN plan ELSE {}
    /\ UNCHANGED <<opts, userVars, task, stats, faults>>

\* fold and reduce have drained the pairs: dedup returns the stats.
Finish ==
    /\ phase = "clone"
    /\ pending = {}
    /\ \A w \in Workers : task[w].pc = "idle"
    /\ phase' = "done"
    /\ UNCHANGED <<files, cache, pairs, plan, opts, userVars, toolVars>>

Returned == phase = "done" /\ UNCHANGED vars

Init ==
    /\ \E i \in Inputs : files = i.files /\ cache = i.cache /\ disk = i.disk
    /\ phase = "index"
    /\ pairs = {}
    /\ plan = <<>>
    /\ opts \in Modes
    /\ path = [i \in DOMAIN files |-> [ino |-> files[i].ino, state |-> "ok"]]
    /\ pending = {}
    /\ task = [w \in Workers |-> Idle]
    /\ stats = NoStats
    /\ userOps = 0
    /\ faults = 0

Next ==
    \/ Plan
    \/ \E w \in Workers : WorkerStep(w)
    \/ Finish
    \/ UserStep
    \/ Returned

Spec == Init /\ [][Next]_vars

-----------------------------------------------------------------------------
(* Properties.                                                             *)

Task == [pc : {"idle", "run", "read_dst", "clone"}, key : Key \cup {<<>>}, run : Nat,
         src : DOMAIN disk \cup {0}, dst : DOMAIN disk \cup {0},
         buf : Seq(Values \cup {ZeroVal}), since : Nat]

TasksOK ==
    /\ task \in [Workers -> Task]
    /\ \A w \in Workers : task[w].pc # "idle" =>
          /\ phase = "clone"
          /\ task[w].key \in DOMAIN plan
          /\ task[w].run \in DOMAIN plan[task[w].key]
          /\ {task[w].src, task[w].dst} \subseteq DOMAIN disk
          /\ task[w].since <= userOps

PathsOK ==
    path \in [DOMAIN files -> [ino : DOMAIN disk, state : {"ok"} \cup PathTroubles]]

\* The types of the state; a task inside a pair holds two open inodes and a run
\* of the finished plan.
TypeOK ==
    /\ PlanTypeOK
    /\ opts \in Modes
    /\ DiskOK(files, disk)
    /\ PathsOK
    /\ pending \subseteq DOMAIN plan
    /\ TasksOK
    /\ stats \in [DOMAIN NoStats -> Nat]
    /\ userOps \in 0 .. MaxUserOps /\ faults \in 0 .. MaxFaults

\* With FIDEDUPERANGE, whatever users do and whatever fails, no step of the
\* tool changes what a reader sees and every step may only free blocks; with
\* the compare-then-clone fallback the same holds while nobody writes.
Offline == INSTANCE OfflineDedup WITH
               view   <- View(disk),
               store  <- BlocksInUse(disk),
               writes <- userOps
RefinesOfflineDedup == Offline!Spec

\* As long as no user acts, Stats.bytes is at every moment exactly the storage
\* that the run has given back, in whatever order the tasks take the pairs and
\* wherever the kernel stops short.
ReclaimedAsReported ==
    userOps = 0 /\ ~opts.dry_run =>
        stats.bytes = MapThenSumSet(LAMBDA f : SumLens(f), DOMAIN disk)
                        - BytesInUse(disk)

IndexedLocs == each_chunk(files, cache)
BlockAt(loc) == disk[files[loc.file].ino][loc.chunk + 1]
ContentAt(loc) == <<files[loc.file].blksz, BlockAt(loc).val, BlockAt(loc).len>>

\* stat saw every chunk in its full length.
SizesHold ==
    /\ \A l \in IndexedLocs : l.chunk + 1 \in DOMAIN disk[files[l.file].ino]
    /\ \A l \in IndexedLocs :
          chunk_len(files[l.file], l.chunk, files[l.file].blksz) = BlockAt(l).len

\* And the hashes tell equal chunks from different ones.
HonestSnapshot ==
    /\ SizesHold
    /\ \A l, m \in IndexedLocs :
          KeyAt(files, cache, l) = KeyAt(files, cache, m) <=> ContentAt(l) = ContentAt(m)

Undisturbed == phase = "done" /\ userOps = 0 /\ faults = 0

\* An undisturbed run leaves no two equal non-zero chunks of one record size
\* on different blocks.
DuplicatesCollapsed ==
    Undisturbed /\ ~opts.dry_run /\ ~PartialDedupe /\ HonestSnapshot =>
        \A l, m \in IndexedLocs : ContentAt(l) = ContentAt(m) => BlockAt(l) = BlockAt(m)

\* A dry run announces what the real run would give back.
DryRunForetells ==
    Undisturbed /\ opts.dry_run /\ HonestSnapshot =>
        stats.bytes = MapThenSumSet(LAMBDA l : BlockAt(l).len, IndexedLocs)
                        - MapThenSumSet(LAMBDA x : x[3], { ContentAt(l) : l \in IndexedLocs })

\* A run that fails or mismatches costs itself and no other: until a user acts,
\* whatever calls fail in whichever task, every planned run has ended in exactly
\* one of the four counts that run prints when dedup returns.
EveryRunAccounted ==
    phase = "done" /\ userOps = 0 /\ SizesHold =>
        stats.verified + stats.mismatches + stats.errors + stats.busy = Cardinality(AllRunIds)

\* The comment at the silent branch of pair: "File vanished or shrank since we
\* hashed it" is no error.
ShrunkIsNotAnError ==
    faults = 0 => stats.errors = 0

\* The one race that --force accepts, and no more than that: a clone changes a
\* chunk's content only if a user wrote this chunk, or the one it is cloned
\* from, or cut it off, after the task had read the source; a chunk cut off may
\* be back as a hole, where another clone has extended the file meanwhile.  (No
\* renames: they can make one task's destination another one's source, and then
\* one race spreads to a second file.)
Changed(f, c) ==
    c \notin DOMAIN disk[f] \/ Contents(disk, f)[c] # Contents(disk', f)[c]
WrittenSince(block, op) == block.id[1] = 0 /\ block.id[2] > op
Raced(w, f, c) ==
    /\ task[w].pc = "clone" /\ task'[w] # task[w]
    /\ task[w].dst = f
    /\ \/ c \notin DOMAIN disk[f]
       \/ WrittenSince(disk[f][c], task[w].since)
       \/ WrittenSince(disk'[f][c], task[w].since)
LostWritesAreRaces ==
    [][userOps' = userOps =>
          \A f \in DOMAIN disk : \A c \in DOMAIN disk'[f] :
              Changed(f, c) => \E w \in Workers : Raced(w, f, c)]_vars
=============================================================================
