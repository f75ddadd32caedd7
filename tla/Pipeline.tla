------------------------------ MODULE Pipeline ------------------------------
(***************************************************************************)
(* src/main.rs over src/remount.rs and the discovery in src/walk.rs: one   *)
(* run of the tool, from the private mount namespace over the choice of    *)
(* the roots, the remounts, the probe for FIDEDUPERANGE and the guard of   *)
(* the racy fallback to the loop over datasets and the exit status.        *)
(*                                                                         *)
(* A path is a sequence of names.  A mount table lists mounts in the order *)
(* in which they were made, as mountinfo does: what a path shows is the    *)
(* last mount at or above it.  A dataset is named by its fsid.             *)
(***************************************************************************)
EXTENDS Integers, Sequences, FiniteSets, SequencesExt

CONSTANTS Tables,         \* mount tables of the host
          Requests,       \* command lines: [dirs, jobs, dry_run, force]
          PathOrder,      \* all paths, as a BTreeSet sorts them
          Zfs,            \* the datasets; other file systems are not in it
          Cloneable,      \* the datasets on a pool with block_cloning
          Kernels,        \* may the kernel know FIDEDUPERANGE?
          MaxGone         \* bound on roots that vanish

Paths == Range(PathOrder)
MountRec == [point : Paths, fs : Nat, whole : BOOLEAN, ro : BOOLEAN, super_rw : BOOLEAN]
Request  == [dirs : SUBSET Paths, jobs : BOOLEAN, dry_run : BOOLEAN, force : BOOLEAN]

ASSUME PipelineAssumption ==
    /\ PathOrder \in Seq(Seq(STRING)) /\ <<>> \in Paths
    /\ \A tab \in Tables : tab \in Seq(MountRec) /\ tab # <<>> /\ tab[1].point = <<>>
    /\ Requests \subseteq Request
    /\ Cloneable \subseteq Zfs /\ Zfs \subseteq Nat
    /\ Kernels \subseteq BOOLEAN /\ MaxGone \in Nat

VARIABLES
    host,       \* the host's mount table
    mine,       \* the table that the main thread sees
    ns,         \* its namespace: "host", "shared" with the host, or "slave"
    private_ns, \* what run is told
    pool,       \* the namespace of rayon's threads, or "none"
    kernel,     \* does the kernel know FIDEDUPERANGE?
    gone,       \* roots that have vanished
    args, pc, mounts, dirs,
    hash_errors,
    errors,     \* stats.errors
    unprobed,   \* directories that the probe has not tried yet
    answer,     \* of the probe: "none", "yes", "no", or "failed" everywhere
    groups,     \* by_fsid, the datasets to come: fsid -> directories
    scanned,    \* history: what the loop did to each dataset
    written,    \* history: directories in which files were made or deduped
    refused,    \* history: positions of mounts whose remount failed
    exit        \* "none", "SUCCESS" or "FAILURE"

world   == <<host, mine, ns, private_ns>>
given   == <<args, kernel>>
probe   == <<unprobed, answer>>
loop    == <<groups, hash_errors, errors>>
history == <<scanned, written>>
vars    == <<world, given, pool, gone, pc, mounts, dirs, probe, loop, history, refused, exit>>

-----------------------------------------------------------------------------
(* Mounts and file systems (external).                                     *)

Below(p, r) == IsPrefix(r, p)
\* The position of the mount that a path shows.
Shows(tab, p) == Max({ k \in DOMAIN tab : Below(p, tab[k].point) })
At(tab, p)    == tab[Shows(tab, p)]
ReadOnly(tab, p) == At(tab, p).ro \/ ~At(tab, p).super_rw
Supports(p) == kernel /\ At(mine, p).fs \in Cloneable

\* A root is removed or its path renamed.
Vanish(d) ==
    /\ Cardinality(gone) < MaxGone
    /\ pc # "done"
    /\ gone' = gone \cup {d}
    /\ UNCHANGED <<world, given, pool, pc, mounts, dirs, probe, loop, history, refused, exit>>

-----------------------------------------------------------------------------
(* main and run up to the loop.                                            *)

\* The order of the phases; and a faulty variant that builds the pool before
\* the namespace is entered.
OrderPoolFirst == <<"pool", "enter", "mounts", "roots", "zfs", "remount", "writable", "probe", "guard">>
Order == <<"enter", "pool", "mounts", "roots", "zfs", "remount", "writable", "probe", "guard">>

Phase(p) == pc = p
Proceed == \E i \in DOMAIN Order :
              Order[i] = pc /\ pc' = IF i = Len(Order) THEN "loop" ELSE Order[i + 1]
Stop(code) == pc' = "done" /\ exit' = code

\* unshare may fail, and then mount_change.
enter_private_mount_ns ==
    /\ Phase("enter") /\ Proceed
    /\ \E s \in {"host", "shared", "slave"} : ns' = s /\ private_ns' = (s = "slave")
    /\ UNCHANGED <<host, mine, given, pool, gone, mounts, dirs, probe, loop, history, refused, exit>>

build_global ==
    /\ Phase("pool") /\ Proceed
    /\ pool' = IF args.jobs THEN ns ELSE pool
    /\ UNCHANGED <<world, given, gone, mounts, dirs, probe, loop, history, refused, exit>>

\* create_dir_all, Cache::open, zpool, canonicalize, mountinfo, the cache while
\* hashing or deduping, compaction: an error ends the run.
Bail ==
    /\ pc \in {"mounts", "roots", "remount", "loop"}
    /\ Stop("FAILURE")
    /\ UNCHANGED <<world, given, pool, gone, mounts, dirs, probe, loop, history, refused>>

zfs_mounts ==
    /\ Phase("mounts") /\ Proceed
    /\ mounts' = { mine[k].point : k \in { k \in DOMAIN mine : mine[k].whole /\ mine[k].fs \in Cloneable } }
    /\ UNCHANGED <<world, given, pool, gone, dirs, probe, loop, history, refused, exit>>

\* The roots; and a faulty variant without the datasets below the given ones.
RootsAsGiven == IF args.dirs = {} THEN mounts ELSE args.dirs
RootsOf == IF args.dirs = {} THEN mounts
           ELSE args.dirs \cup { m \in mounts : \E r \in args.dirs : Below(m, r) }

SelectRoots ==
    /\ Phase("roots") /\ Proceed
    /\ args.dirs \cap gone = {}
    /\ dirs' = RootsOf
    /\ UNCHANGED <<world, given, pool, gone, mounts, probe, loop, history, refused, exit>>

RetainZfs ==
    /\ Phase("zfs") /\ Proceed
    /\ dirs' = { d \in dirs \ gone : At(mine, d).fs \in Zfs }
    /\ UNCHANGED <<world, given, pool, gone, mounts, probe, loop, history, refused, exit>>

\* The mounts that remount_rw_binds tries.
Remountable(k) ==
    /\ mine[k].fs \in Zfs /\ mine[k].ro /\ mine[k].super_rw
    /\ \E r \in dirs : Below(mine[k].point, r) \/ Below(r, mine[k].point)

\* When it is called; and a faulty variant that calls it in any case.
MayRemountAlways == TRUE
MayRemount == private_ns

\* The kernel remounts what the mount's path shows, if it is a mount point.
remount_rw_binds ==
    /\ Phase("remount") /\ Proceed
    /\ \E ok \in SUBSET { k \in DOMAIN mine : MayRemount /\ Remountable(k) } :
          LET hit == { k \in DOMAIN mine : \E m \in ok :
                          k = Shows(mine, mine[m].point) /\ mine[k].point = mine[m].point }
              Rw(tab) == [k \in DOMAIN tab |-> IF k \in hit THEN [tab[k] EXCEPT !.ro = FALSE] ELSE tab[k]]
          IN  /\ mine' = Rw(mine)
              /\ host' = IF ns = "slave" THEN host ELSE Rw(host)
              /\ refused' = { k \in DOMAIN mine : Remountable(k) } \ hit
    /\ UNCHANGED <<ns, private_ns, given, pool, gone, mounts, dirs, probe, loop, history, exit>>

\* What the probe may pick; and a faulty variant.
ProbeableBefore(keep) == dirs
Probeable(keep) == keep

\* statvfs of a directory that is gone fails, which is not "read-only".
RetainWritable ==
    LET keep == { d \in dirs : d \in gone \/ ~ReadOnly(mine, d) } IN
    /\ Phase("writable")
    /\ dirs' = keep /\ unprobed' = Probeable(keep)
    /\ IF keep = {} THEN Stop("FAILURE") ELSE Proceed /\ UNCHANGED exit
    /\ UNCHANGED <<world, given, pool, gone, mounts, answer, loop, history, refused>>

\* probe_fideduperange tries the next directory, unless the run is dry.  It
\* fails on a full or vanished one, or for any other error of its calls.
ProbeNext ==
    /\ Phase("probe") /\ ~args.dry_run /\ answer = "none" /\ unprobed # {}
    /\ LET d == PathOrder[Min({ i \in DOMAIN PathOrder : PathOrder[i] \in unprobed })] IN
       /\ unprobed' = unprobed \ {d}
       /\ \/ UNCHANGED answer
          \/ d \notin gone /\ answer' = IF Supports(d) THEN "yes" ELSE "no"
       /\ written' = written \cup {d}
    /\ UNCHANGED <<world, given, pool, gone, pc, mounts, dirs, loop, scanned, refused, exit>>

ProbeDone ==
    /\ Phase("probe") /\ (args.dry_run \/ answer # "none" \/ unprobed = {})
    /\ answer' = IF answer = "none" /\ ~args.dry_run THEN "failed" ELSE answer
    /\ Proceed
    /\ UNCHANGED <<world, given, pool, gone, mounts, dirs, unprobed, loop, history, refused, exit>>

fideduperange == answer = "yes"

\* When the run is refused; and a faulty variant that only refuses after a
\* definite no.
RefuseAfterNo == answer = "no" /\ ~args.force
Refuse == ~args.dry_run /\ ~fideduperange /\ ~args.force

FsidsOf(ds) == { At(mine, d).fs : d \in ds }

\* The guard, and by_fsid, from which a directory without fsid is missing.
Guard ==
    /\ Phase("guard")
    /\ IF Refuse THEN Stop("FAILURE") /\ UNCHANGED groups
       ELSE /\ groups' = [f \in FsidsOf(dirs \ gone) |-> { d \in dirs \ gone : At(mine, d).fs = f }]
            /\ Proceed /\ UNCHANGED exit
    /\ UNCHANGED <<world, given, pool, gone, mounts, dirs, probe, hash_errors, errors, history, refused>>

-----------------------------------------------------------------------------
(* The loop over the datasets, and the exit status.                        *)

\* One dataset: h files cannot be hashed, e pairs cannot be deduped.  What the
\* walk skips, what is busy and what has vanished counts for neither.  Hashing,
\* pruning and deduping themselves are HashCache and DedupWorkers.
Dataset(f) ==
    LET group == groups[f] IN
    /\ Phase("loop")
    /\ pool' = IF pool = "none" THEN ns ELSE pool
    /\ \E h, e \in 0 .. 1 :
          /\ hash_errors' = hash_errors + h /\ errors' = errors + e
          /\ scanned' = scanned \cup {[fsid |-> f, dirs |-> group, fideduperange |-> fideduperange,
                                      clean |-> h = 0 /\ e = 0]}
    /\ written' = IF args.dry_run THEN written ELSE written \cup group
    /\ groups' = [g \in DOMAIN groups \ {f} |-> groups[g]]
    /\ UNCHANGED <<world, given, gone, pc, mounts, dirs, probe, refused, exit>>

Finish ==
    /\ Phase("loop") /\ DOMAIN groups = {}
    /\ Stop(IF hash_errors = 0 /\ errors = 0 THEN "SUCCESS" ELSE "FAILURE")
    /\ UNCHANGED <<world, given, pool, gone, mounts, dirs, probe, loop, history, refused>>

Init ==
    /\ host \in Tables /\ mine = host
    /\ ns = "host" /\ private_ns = FALSE /\ pool = "none"
    /\ args \in Requests /\ kernel \in Kernels
    /\ gone = {} /\ pc = Order[1]
    /\ mounts = {} /\ dirs = {} /\ unprobed = {} /\ answer = "none"
    /\ groups = <<>> /\ hash_errors = 0 /\ errors = 0
    /\ scanned = {} /\ written = {} /\ refused = {}
    /\ exit = "none"

Next ==
    \/ enter_private_mount_ns \/ build_global \/ Bail \/ zfs_mounts \/ SelectRoots \/ RetainZfs
    \/ remount_rw_binds \/ RetainWritable \/ ProbeNext \/ ProbeDone \/ Guard
    \/ \E f \in DOMAIN groups : Dataset(f)
    \/ Finish
    \/ \E d \in Paths : Vanish(d)

Spec == Init /\ [][Next]_vars

-----------------------------------------------------------------------------
(* Properties.                                                             *)

Scan == [fsid : Zfs, dirs : SUBSET Paths, fideduperange : BOOLEAN, clean : BOOLEAN]

\* The types of the state; and remounts change flags only, so that both tables
\* keep the mounts of the start.
TypeOK ==
    /\ host \in Seq(MountRec) /\ mine \in Seq(MountRec)
    /\ DOMAIN host = DOMAIN mine
    /\ \A k \in DOMAIN mine : [mine[k] EXCEPT !.ro = FALSE] = [host[k] EXCEPT !.ro = FALSE]
    /\ ns \in {"host", "shared", "slave"} /\ private_ns \in BOOLEAN
    /\ pool \in {"none", "host", "shared", "slave"}
    /\ args \in Request /\ kernel \in BOOLEAN
    /\ pc \in Range(Order) \cup {"loop", "done"}
    /\ gone \subseteq Paths /\ mounts \subseteq Paths /\ dirs \subseteq Paths
    /\ unprobed \subseteq dirs /\ written \subseteq Paths
    /\ answer \in {"none", "yes", "no", "failed"}
    /\ DOMAIN groups \subseteq Zfs /\ \A f \in DOMAIN groups : groups[f] \subseteq dirs
    /\ hash_errors \in Nat /\ errors \in Nat
    /\ scanned \subseteq Scan
    /\ exit \in {"none", "SUCCESS", "FAILURE"}

\* "The host's mounts are not modified" (README.md), whether or not the private
\* namespace could be had, and in full or in part.
HostUntouched == [][host' = host]_vars

\* The tool writes to the scanned directories only as it was asked to: a dry run
\* makes and changes no file there, the probe included, and no dataset is deduped
\* by compare-then-clone without --force, whatever the probe met, on whichever
\* directories.  The tool's own cache file is apart: dry runs fill and prune it.
WritesAsAsked ==
    /\ args.dry_run => written = {}
    /\ \A s \in scanned : s.fideduperange \/ args.dry_run \/ args.force

\* "Truly read-only datasets stay ro and are skipped", and "workers inherit the
\* namespace": rayon's threads see every root that is left as writable.
RootsWritable ==
    pc \in {"probe", "guard", "loop"} =>
        \A d \in dirs \ gone : ~ReadOnly(IF pool \in {"none", ns} THEN mine ELSE host, d)

\* The directories that are to be scanned: the given ones, and the whole
\* datasets at or below them.
Wanted(d) ==
    \/ d \in args.dirs
    \/ /\ \E k \in DOMAIN mine : mine[k].point = d /\ mine[k].whole /\ Shows(mine, d) = k
       /\ At(mine, d).fs \in Cloneable
       /\ args.dirs = {} \/ \E r \in args.dirs : Below(d, r)

\* Those that can be: not read-only on disk, nor left read-only by a remount.
Possible(d) ==
    /\ At(mine, d).fs \in Zfs /\ At(mine, d).super_rw
    /\ At(host, d).ro => private_ns /\ Shows(mine, d) \notin refused

\* "Collect each dataset under the requested roots separately or child datasets
\* get silently skipped", and FAILURE if "some files couldn't be processed": a
\* run that succeeds has scanned all that was wanted, except for what is read-only
\* on disk, could not be remounted, or vanished, and no task failed in any of the
\* datasets, neither in hashing nor in deduping, be it the first or the last.
EveryDatasetScanned ==
    exit = "SUCCESS" =>
        \A d \in Paths \ gone :
            Wanted(d) /\ Possible(d) =>
                \E s \in scanned : d \in s.dirs /\ s.fsid = At(mine, d).fs /\ s.clean

\* "The answer is per-kernel, not per-dataset": what the probe found in the
\* first directory that answers holds for all that are going to be deduped.
AnswerIsPerKernel ==
    /\ answer = "yes" => \A d \in dirs : Supports(d)
    /\ answer = "no"  => \A d \in dirs : ~Supports(d)
=============================================================================
